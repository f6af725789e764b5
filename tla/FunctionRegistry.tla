---------------------------- MODULE FunctionRegistry ----------------------------
(***************************************************************************)
(* rapidudf::FunctionFactory (src/rapidudf/meta/function.cc): the         *)
(* process-wide map g_regs from a function name to its FunctionDesc.      *)
(* Register computes the derived fields (FunctionDesc::Init), rejects a   *)
(* name that is already present and otherwise inserts the desc;           *)
(* GetFunction looks a name up.  g_regs is created lazily on the first    *)
(* Register; before that GetFunction answers nullptr, exactly as for an    *)
(* absent name, so the lazy creation is folded into the empty map.         *)
(***************************************************************************)
EXTENDS FunctionDesc, TLC

CONSTANTS
  Names,     \* function names registered by the host
  Returns,   \* return DType kinds used by registrations
  ArgLists,  \* argument DType lists used by registrations
  NULL

VARIABLES
  regs,    \* g_regs: name -> FunctionDesc
  result,  \* value returned by the last Register
  found    \* value returned by the last GetFunction

vars == <<regs, result, found>>

Desc(n, r, as) ==
  [name |-> n, return_type |-> r, arg_types |-> as,
   context_arg_idx |-> ContextArgIdx(as)]

\* desc.Init(); duplicate name -> RUDF_CRITICAL, false; else emplace.
Register(n, r, as) ==
  /\ IF n \in DOMAIN regs
       THEN /\ result' = FALSE
            /\ UNCHANGED regs
       ELSE /\ regs' = regs @@ (n :> Desc(n, r, as))
            /\ result' = TRUE
  /\ UNCHANGED found

GetFunction(n) ==
  /\ found' = IF n \in DOMAIN regs THEN regs[n] ELSE NULL
  /\ UNCHANGED <<regs, result>>

Init ==
  /\ regs = <<>>
  /\ result = FALSE
  /\ found = NULL

Next ==
  \E n \in Names :
    \/ \E r \in Returns, as \in ArgLists : Register(n, r, as)
    \/ GetFunction(n)

Spec == Init /\ [][Next]_vars

-----------------------------------------------------------------------------
TypeOK ==
  /\ DOMAIN regs \subseteq Names
  /\ \A n \in DOMAIN regs :
       regs[n] \in [name : {n}, return_type : Returns, arg_types : ArgLists,
                    context_arg_idx : -1 .. 8]
  \* context_arg_idx names an argument of the desc, or is -1.
  /\ \A n \in DOMAIN regs :
       regs[n].context_arg_idx \in -1 .. Len(regs[n].arg_types) - 1
  /\ result \in BOOLEAN

\* A desc the registry hands to the compiler has one Context* argument at
\* most (spec 3: a duplicate context argument is a registration error), so
\* context_arg_idx names the only place the compiler injects the context.
ContextArgUnique ==
  \A n \in DOMAIN regs : ContextArgCount(regs[n].arg_types) <= 1
=============================================================================
