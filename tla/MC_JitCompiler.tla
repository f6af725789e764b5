----------------------------- MODULE MC_JitCompiler -----------------------------
(***************************************************************************)
(* Sources for JitCompiler.  Two UDF names f and g, one registered extern  *)
(* "sum", one member function of a vector ("vec_size").  Each source       *)
(* stands for a class of programs the compiler treats alike.               *)
(***************************************************************************)
EXTENDS JitCompiler

F(n, ext, udf, mem, chk, ok) ==
  [name |-> n, externs |-> ext, udfs |-> udf, members |-> mem,
   sizeCheck |-> chk, ok |-> ok]

\* f calls the extern sum and does a vector size check.
SrcExtern  == [parses |-> TRUE,
               fns |-> <<F("f", {"sum"}, {}, {}, TRUE, TRUE)>>]
\* f calls a vector member function; g calls f.
SrcMember1 == [parses |-> TRUE,
               fns |-> <<F("f", {}, {}, {"vec_size"}, FALSE, TRUE),
                         F("g", {}, {"f"}, {}, FALSE, TRUE)>>]
\* Only the second function calls a member function.
SrcMember2 == [parses |-> TRUE,
               fns |-> <<F("f", {"sum"}, {}, {}, FALSE, TRUE),
                         F("g", {}, {}, {"vec_size"}, FALSE, TRUE)>>]
\* The walker rejects the body of the second function.
SrcBadBody == [parses |-> TRUE,
               fns |-> <<F("f", {}, {}, {}, FALSE, TRUE),
                         F("g", {"sum"}, {}, {}, FALSE, FALSE)>>]
\* g calls f, defined after it.
SrcForward == [parses |-> TRUE,
               fns |-> <<F("g", {}, {"f"}, {}, FALSE, TRUE),
                         F("f", {}, {}, {}, FALSE, TRUE)>>]
\* A syntax error.
SrcNoParse == [parses |-> FALSE,
               fns |-> <<F("f", {}, {}, {}, FALSE, TRUE)>>]

MCSources == {SrcExtern, SrcMember1, SrcMember2, SrcBadBody, SrcForward,
              SrcNoParse}
=============================================================================
