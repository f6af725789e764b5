------------------------------ MODULE FunctionDesc ------------------------------
(***************************************************************************)
(* rapidudf::FunctionDesc (src/rapidudf/meta/function.cc): the derived    *)
(* fields of a registered function and the x86-64 register-budget rule    *)
(* that decides which arguments are passed as a pointer (byval).           *)
(*                                                                         *)
(* A DType is abstracted to its kind.  The DType predicates themselves     *)
(* (IsPtr, IsInteger, ..., CanCastTo) live in meta/dtype.h, which is not   *)
(* part of the sources here; they are taken from the specification.        *)
(* Argument numbers are 0-based, as in the code: argument argno is         *)
(* args[argno + 1].                                                         *)
(***************************************************************************)
EXTENDS Naturals, Integers, Sequences, SequencesExt

Kinds == {"void", "bit", "i32", "i64", "f32", "f64", "ptr", "ctx",
          "sv", "ssv", "span", "vec"}

\* DType predicates (spec 3, 4.2).  Context* is a pointer DType.
IsContextPtr(k) == k = "ctx"
IsPtr(k)        == k \in {"ptr", "ctx"}
IsInteger(k)    == k \in {"i32", "i64"}
IsBit(k)        == k = "bit"
IsTwoRegister(k) == k \in {"span", "sv", "ssv", "vec"}

\* DType::CanCastTo: identity plus the implicit widenings.
Widening == {<<"i32", "i64">>, <<"f32", "f64">>, <<"i32", "f64">>,
             <<"i64", "f64">>, <<"bit", "i32">>, <<"ptr", "i64">>}
CanCastTo(from, to) == from = to \/ <<from, to>> \in Widening

-----------------------------------------------------------------------------
(* FunctionDesc::Init: context_arg_idx is the FIRST Context* argument, or  *)
(* -1.  A second Context* argument is only logged (RUDF_ERROR).            *)
\* Bug variant: the 1-based position of SelectInSeq is kept.
ContextArgIdxOneBased(args) == SelectInSeq(args, IsContextPtr)

ContextArgIdx(args) == SelectInSeq(args, IsContextPtr) - 1

\* Number of Context* arguments (used to state the registration contract).
ContextArgCount(args) == Cardinality({i \in DOMAIN args : IsContextPtr(args[i])})

(* FunctionDesc::PassArgByValue                                            *)
TotalParamRegisters == 6

RequestParamRegisters(k) ==
  IF IsPtr(k) \/ IsInteger(k) \/ IsBit(k) THEN 1
  ELSE IF IsTwoRegister(k) THEN 2
  ELSE 0

\* used_param_registers after the loop over arguments 0 .. argno.
UsedParamRegisters(args, argno) ==
  FoldLeft(LAMBDA u, k : u + RequestParamRegisters(k), 0, SubSeq(args, 1, argno + 1))

\* Bug variant: a budget used up exactly is taken as exhausted.
PassArgByValueAtBudget(args, argno) ==
  /\ argno < Len(args)
  /\ IsTwoRegister(args[argno + 1])
  /\ UsedParamRegisters(args, argno) >= TotalParamRegisters

PassArgByValue(args, argno) ==
  /\ argno < Len(args)
  /\ IsTwoRegister(args[argno + 1])
  /\ UsedParamRegisters(args, argno) > TotalParamRegisters

-----------------------------------------------------------------------------
(* Reference: the System V AMD64 assignment of INTEGER-class arguments.    *)
(* Arguments are assigned left to right from six registers; an argument   *)
(* that needs more registers than are left goes to memory and leaves the  *)
(* remaining registers to later arguments.                                 *)
RECURSIVE FreeRegistersBefore(_, _)
FreeRegistersBefore(args, argno) ==
  IF argno = 0 THEN TotalParamRegisters
  ELSE LET free == FreeRegistersBefore(args, argno - 1)
           need == RequestParamRegisters(args[argno])
       IN IF need <= free THEN free - need ELSE free

\* Argument argno is a two-register aggregate the ABI passes in memory.
AbiPassesInMemory(args, argno) ==
  /\ argno < Len(args)
  /\ IsTwoRegister(args[argno + 1])
  /\ FreeRegistersBefore(args, argno) < 2
=============================================================================
