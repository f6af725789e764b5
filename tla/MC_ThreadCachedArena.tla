------------------------ MODULE MC_ThreadCachedArena ------------------------
(* Model-checking instance of ThreadCachedArena: two threads sharing one   *)
(* address, so that destroying an instance and constructing the next one  *)
(* at the same place (a Context on the stack) is part of the state space.  *)
EXTENDS ThreadCachedArena, TLC

\* Threads are interchangeable: arena ids are handed out by the model, not
\* by thread identity.
ThreadSymmetry == Permutations(Threads)
=============================================================================
