--------------------------- MODULE MC_ExternCall ---------------------------
(* Every argument list of up to six DTypes drawn from one kind of each     *)
(* register class: one register (i64, a Context pointer), two (vector),   *)
(* none (f32).  Six arguments are enough to exhaust the six-register       *)
(* budget with vectors alone (three vectors) or after integers.            *)
EXTENDS ExternCall

MCArgLists == BoundedSeq({"i64", "vec", "ctx", "f32"}, 6)
=============================================================================
