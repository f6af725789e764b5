------------------------------ MODULE CompilerFacade ------------------------------
(***************************************************************************)
(* What the compiler facade promises (spec 4.3 and 6), with no sessions,   *)
(* modules or linker: compile_source is serialised, a compilation replaces *)
(* all code compiled before it, and either publishes the functions of its  *)
(* source at once or publishes nothing; get_function_pointer returns the   *)
(* published code of a name, or not-found.                                 *)
(*                                                                         *)
(* JitCompiler is shown to implement this specification (CompilerSpec).    *)
(***************************************************************************)
EXTENDS Naturals

CONSTANTS Threads, Sources, FnNames, MaxSessions, NoOwner, NULL

VARIABLES
  owner,     \* the thread inside compile_source, or NoOwner
  sessions,  \* compilations started so far
  job,       \* job[t]: the source thread t is compiling, or NULL
  lookup,    \* lookup[n]: the compilation whose code n names, 0 for none
  got        \* got[t]: what get_function_pointer last returned to t

avars == <<owner, sessions, job, lookup, got>>

Names(s) == {s.fns[i].name : i \in DOMAIN s.fns}
NoCode == [n \in FnNames |-> 0]

Init ==
  /\ owner = NoOwner
  /\ sessions = 0
  /\ job = [t \in Threads |-> NULL]
  /\ lookup = NoCode
  /\ got = [t \in Threads |-> NULL]

\* compile_source starts: it waits for the other compilations, and the code
\* of earlier compilations is gone from then on.
Begin(t, s) ==
  /\ owner = NoOwner
  /\ job[t] = NULL
  /\ sessions < MaxSessions
  /\ owner' = t
  /\ sessions' = sessions + 1
  /\ job' = [job EXCEPT ![t] = s]
  /\ lookup' = NoCode
  /\ UNCHANGED got

\* compile_source returns the names: all functions of the source at once.
Publish(t) ==
  /\ owner = t
  /\ job[t].parses
  /\ owner' = NoOwner
  /\ job' = [job EXCEPT ![t] = NULL]
  /\ lookup' = [n \in FnNames |-> IF n \in Names(job[t]) THEN sessions ELSE 0]
  /\ UNCHANGED <<sessions, got>>

\* compile_source returns an error: nothing is published.
Abort(t) ==
  /\ owner = t
  /\ owner' = NoOwner
  /\ job' = [job EXCEPT ![t] = NULL]
  /\ UNCHANGED <<sessions, lookup, got>>

\* get_function_pointer, once there is a session to ask.
Lookup(t, n) ==
  /\ job[t] = NULL
  /\ sessions > 0
  /\ got' = [got EXCEPT ![t] =
               IF lookup[n] > 0 THEN [gen |-> lookup[n], name |-> n] ELSE NULL]
  /\ UNCHANGED <<owner, sessions, job, lookup>>

Next ==
  \E t \in Threads :
    \/ \E s \in Sources : Begin(t, s)
    \/ Publish(t)
    \/ Abort(t)
    \/ \E n \in FnNames : Lookup(t, n)

\* A compilation that has started returns.
Spec ==
  /\ Init /\ [][Next]_avars
  /\ \A t \in Threads : WF_avars(Publish(t) \/ Abort(t))
=============================================================================
