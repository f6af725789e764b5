------------------------------- MODULE ExternCall -------------------------------
(***************************************************************************)
(* One call site of generated code (src/rapidudf/jit/llvm/jit.cc).        *)
(*                                                                         *)
(* The callee is declared in the module with the function type built by   *)
(* GetFunctionType, where every argument PassArgByValue selects becomes a  *)
(* pointer.  An extern (CompileFunctions) then gets the byval, align 8 and *)
(* noundef attributes on exactly those parameters; a compiled UDF          *)
(* (BuildIR) gets byval on every parameter whose declared type differs     *)
(* from the DType's native type and loads the value through the pointer.   *)
(* CallFunction then emits the call: it injects the caller's Context* at   *)
(* context_arg_idx when one value is missing, checks the count, casts each *)
(* value to the declared DType, passes byval arguments through a stack     *)
(* slot (a temporary alloca when the value has none) listed in a "byval"   *)
(* operand bundle.                                                          *)
(*                                                                         *)
(* A value is abstracted to its DType kind, whether it lives in a stack    *)
(* slot (Value::GetPtrValue is not null), whether it is the caller's       *)
(* context argument, and its id: the callee parameter the caller wrote it *)
(* for, or 0 for the injected context.  An IR operand is a record         *)
(* tagged by its kind: an SSA value, a load from a slot, a slot address,   *)
(* or a fresh temporary holding a stored operand.                           *)
(***************************************************************************)
EXTENDS FunctionDesc, FiniteSets, TLC

CONSTANTS
  ArgLists,  \* argument DType lists of the callees considered
  NULL

Uncastable == "void"   \* a value kind CastTo never accepts

VARIABLES
  callee,       \* FunctionDesc of the called function
  callerHasCtx, \* the calling UDF declares a Context* argument
  decl,         \* the declaration in the module, or NULL
  call,         \* the emitted call, or NULL
  status,       \* "pending", "ok", or the compile error reported
  input         \* ghost: what the caller passed to CallFunction

vars == <<callee, callerHasCtx, decl, call, status, input>>

CalleeDesc(as) ==
  [arg_types |-> as, context_arg_idx |-> ContextArgIdx(as)]

-----------------------------------------------------------------------------
(* JitCompiler::GetFunctionType                                            *)
\* Bug variant: the byval argument keeps its value type in the signature.
FunctionTypeByValue(as) ==
  [i \in DOMAIN as |-> [dtype |-> as[i], ptr |-> FALSE]]

FunctionType(as) ==
  [i \in DOMAIN as |-> [dtype |-> as[i], ptr |-> PassArgByValue(as, i - 1)]]

\* Parameters (0-based) that carry the byval attribute.
PtrParams(params) == {i \in 0 .. Len(params) - 1 : params[i + 1].ptr}

\* CompileFunctions: declare an extern and add byval/align/noundef to the
\* parameters PassArgByValue selects.
DeclareExtern ==
  LET as == callee.arg_types IN
  /\ decl = NULL
  /\ decl' = [params |-> FunctionType(as),
              byval |-> {i \in 0 .. Len(as) - 1 : PassArgByValue(as, i)}]
  /\ UNCHANGED <<callee, callerHasCtx, call, status, input>>

\* BuildIR: declare a compiled UDF; a parameter other than Context* whose
\* declared type is not the DType's native type gets byval.
DeclareCompiled ==
  LET as == callee.arg_types
      params == FunctionType(as)
  IN
  /\ decl = NULL
  /\ decl' = [params |-> params,
              byval |-> {i \in PtrParams(params) : ~IsContextPtr(as[i + 1])}]
  /\ UNCHANGED <<callee, callerHasCtx, call, status, input>>

-----------------------------------------------------------------------------
(* JitCompiler::CallFunction                                               *)

\* The values the walker passes: the callee's DTypes, without the first
\* Context* when omitCtx, with an uncastable value at position badCast
\* (0 for none); slot tells whether the values live in stack slots.
CallerValues(as, omitCtx, badCast, slot) ==
  LET full == [i \in DOMAIN as |->
                 [dtype |-> IF i = badCast THEN Uncastable ELSE as[i],
                  slot |-> slot /\ ~IsContextPtr(as[i]),
                  ctx |-> IsContextPtr(as[i]),
                  id |-> i]]
  IN IF omitCtx THEN RemoveAt(full, ContextArgIdx(as) + 1) ELSE full

CtxValue == [dtype |-> "ctx", slot |-> FALSE, ctx |-> TRUE, id |-> 0]

\* Value::GetPtrValue (value.h): the stack slot of a slot-backed value.
GetPtrValue(v) == IF v.slot THEN [op |-> "slot", of |-> v.id] ELSE NULL

\* Bug variant: GetValue hands out val_ without the load.
GetValueNoLoad(v) == IF v.slot THEN GetPtrValue(v) ELSE [op |-> "ssa", of |-> v.id]

\* Value::GetValue: a value with a type_ (a stack slot) is loaded from it;
\* otherwise val_ is the SSA value itself.
GetValue(v) == IF v.slot THEN [op |-> "load", of |-> v.id] ELSE [op |-> "ssa", of |-> v.id]

\* The operand CallFunction passes: a byval argument's slot, or a fresh
\* alloca the value is stored into; otherwise the value.
ArgOperand(v, byval) ==
  IF ~byval THEN GetValue(v)
  ELSE IF GetPtrValue(v) # NULL THEN GetPtrValue(v)
  ELSE [op |-> "tmp", stored |-> GetValue(v)]

\* Bug variant: the context is taken to be the first argument.
WithContextFirst(desc, vals) ==
  IF /\ desc.context_arg_idx >= 0
     /\ Len(vals) = Len(desc.arg_types) - 1
     /\ callerHasCtx
    THEN InsertAt(vals, 1, CtxValue)
    ELSE vals

\* arg_values.insert(begin + context_arg_idx, context_arg_value)
WithContext(desc, vals) ==
  IF /\ desc.context_arg_idx >= 0
     /\ Len(vals) = Len(desc.arg_types) - 1
     /\ callerHasCtx
    THEN InsertAt(vals, desc.context_arg_idx + 1, CtxValue)
    ELSE vals

EmitCall(omitCtx, badCast, slot) ==
  LET as   == callee.arg_types
      vals == WithContext(callee, CallerValues(as, omitCtx, badCast, slot))
      byv  == {i \in 0 .. Len(as) - 1 : PassArgByValue(as, i)}
  IN
  /\ decl # NULL /\ status = "pending"
  /\ input' = [omit |-> omitCtx, bad |-> badCast]
  /\ IF Len(vals) # Len(as) THEN
       /\ status' = "arg_count_error" /\ UNCHANGED call
     ELSE IF \E i \in DOMAIN as : ~CanCastTo(vals[i].dtype, as[i]) THEN
       /\ status' = "cast_error" /\ UNCHANGED call
     ELSE
       /\ status' = "ok"
       /\ call' = [args |-> [i \in DOMAIN as |->
                               [dtype |-> as[i], ptr |-> (i - 1) \in byv,
                                ctx |-> vals[i].ctx,
                                opnd |-> ArgOperand(vals[i], (i - 1) \in byv)]],
                   bundle |-> byv]
  /\ UNCHANGED <<callee, callerHasCtx, decl>>

-----------------------------------------------------------------------------
Init ==
  /\ callee \in {CalleeDesc(as) : as \in ArgLists}
  /\ callerHasCtx \in BOOLEAN
  /\ decl = NULL
  /\ call = NULL
  /\ status = "pending"
  /\ input = [omit |-> FALSE, bad |-> 0]

Next ==
  \/ DeclareExtern
  \/ DeclareCompiled
  \/ \E omitCtx \in {FALSE} \cup {b \in {TRUE} : callee.context_arg_idx >= 0},
        badCast \in 0 .. Len(callee.arg_types),
        slot \in BOOLEAN :
       EmitCall(omitCtx, badCast, slot)

\* One call site is compiled once; the run stops when the call is emitted
\* or rejected.
Spec == Init /\ [][Next]_vars

-----------------------------------------------------------------------------
TypeOK ==
  /\ callee.arg_types \in Seq(Kinds)
  /\ callee.context_arg_idx \in -1 .. Len(callee.arg_types) - 1
  /\ callerHasCtx \in BOOLEAN
  /\ status \in {"pending", "ok", "arg_count_error", "cast_error"}
  /\ input \in [omit : BOOLEAN, bad : 0 .. 8]

\* The arguments declared as pointers are exactly the two-register
\* aggregates the System V AMD64 ABI passes in memory: the running register
\* count of PassArgByValue agrees with the ABI's left-to-right assignment.
ByvalMatchesAbi ==
  decl # NULL =>
    \A i \in DOMAIN decl.params :
      decl.params[i].ptr <=> AbiPassesInMemory(callee.arg_types, i - 1)

\* An emitted call agrees with the declaration: same arity, each argument
\* of the declared DType, passed as a pointer exactly where the declaration
\* has a pointer parameter carrying byval, and those pointers, and only
\* those, listed in the "byval" operand bundle.
CallMatchesDeclaration ==
  status = "ok" =>
    /\ Len(call.args) = Len(decl.params)
    /\ \A i \in DOMAIN call.args :
         /\ call.args[i].dtype = decl.params[i].dtype
         /\ call.args[i].ptr = decl.params[i].ptr
         /\ call.args[i].ptr <=> (i - 1) \in decl.byval
    /\ call.bundle = PtrParams(decl.params)

\* A caller that declares a Context* and leaves out only the callee's
\* Context* value gets a call with its context at context_arg_idx.
ContextInjected ==
  callerHasCtx /\ input.omit /\ input.bad = 0 /\ status # "pending" =>
    status = "ok" /\ call.args[callee.context_arg_idx + 1].ctx

\* Spec 8: a call that supplies N-1 values to a callee with a Context*
\* argument has the current context injected at context_arg_idx.
ContextAlwaysInjected ==
  input.omit /\ status # "pending" => status # "arg_count_error"

\* What an operand reads as a value, and what the memory a pointer operand
\* points to holds (-1 for an operand of the wrong kind).
ValueOf(o) == CASE o.op \in {"ssa", "load"} -> o.of [] OTHER -> -1
Pointee(o) ==
  CASE o.op = "slot" -> o.of
    [] o.op = "tmp"  -> ValueOf(o.stored)
    [] OTHER         -> -1

\* Spec 4.5 step 4 and spec 9 (byval): every argument of an emitted call
\* carries the value the caller wrote for that parameter, or the injected
\* context at context_arg_idx, read through Value::GetValue when passed
\* in registers, and as the pointee of a slot or a temporary when byval,
\* whether the caller's value lives in a stack slot or is an SSA value.
ArgsDelivered ==
  status = "ok" =>
    \A i \in DOMAIN call.args :
      LET got == IF call.args[i].ptr THEN Pointee(call.args[i].opnd)
                                      ELSE ValueOf(call.args[i].opnd)
      IN  got = i \/ (got = 0 /\ i = callee.context_arg_idx + 1)
=============================================================================
