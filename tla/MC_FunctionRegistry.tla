------------------------- MODULE MC_FunctionRegistry -------------------------
(* Two names, registered with clashing descs, with and without a duplicate *)
(* Context* argument.                                                       *)
EXTENDS FunctionRegistry

MCArgLists == {<<>>, <<"i64", "vec">>, <<"vec", "ctx">>, <<"ctx", "vec", "ctx">>}
MCReturns == {"f32", "void"}
=============================================================================
