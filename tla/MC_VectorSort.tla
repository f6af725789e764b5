------------------------------ MODULE MC_VectorSort ------------------------------
(***************************************************************************)
(* Two vectors of up to three floats drawn from {1, 2, NaN}: enough for    *)
(* ties, a NaN, an empty vector, and a k strictly inside a vector.         *)
(***************************************************************************)
EXTENDS VectorSort

MCVectors == {<<>>, <<2, 1>>, <<2, 1, 2>>, <<NaN, 2, 1>>}
=============================================================================
