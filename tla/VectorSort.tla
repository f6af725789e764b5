------------------------------- MODULE VectorSort -------------------------------
(***************************************************************************)
(* The SIMD sort helpers of functions/simd/vector_sort.cc, called from     *)
(* generated code with a Context and Vector views.  Each helper checks the *)
(* readonly flag (the in-place ones) and hands the buffer to x86-simd-sort *)
(* with ctx.HasNan(); argsort and argselect move their index vector into   *)
(* the Context.                                                            *)
(*                                                                         *)
(* Context, Vector and x86-simd-sort are not part of src/: their contracts *)
(* are taken from the spec (section 4.6) and form the first part of this   *)
(* module.  The library leaves the result unspecified when it is told      *)
(* there is no NaN and there is one; the model lets that call return any   *)
(* permutation.                                                            *)
(***************************************************************************)
EXTENDS Integers, Sequences, FiniteSets, TLC, SequencesExt

CONSTANTS
  Bufs,             \* the vectors generated code holds views of
  Vectors,          \* their possible initial contents
  NaN,              \* the NaN of the float instantiations
  MaxOwned,         \* bound on the index vectors ctx.Own keeps
  HostSetsNanFlag   \* the host sets HasNan whenever the data has a NaN

VARIABLES
  buf,     \* buf[b]: the contents behind view b
  ro,      \* ro[b]: view b is readonly
  hasNan,  \* ctx.HasNan()
  owned,   \* ids of the index vectors ctx owns
  ret,     \* the Vector<size_t> the last arg helper returned
  call,    \* the last helper called, with its arguments
  err      \* "none" or "readonly" (THROW_READONLY_ERR)

vars == <<buf, ro, hasNan, owned, ret, call, err>>

NoRet == [id |-> 0, idx |-> <<>>]

(* ---------------- x86-simd-sort, from the spec ------------------------ *)

\* The order the NaN-aware algorithms use: NaN above every number.
Key(x) == IF x = NaN THEN 1000 ELSE x
InOrder(x, y, desc) == IF desc THEN Key(x) >= Key(y) ELSE Key(x) <= Key(y)

\* The library's result is defined only if it was told about the NaNs.
Defined(s, nan) == nan \/ NaN \notin Range(s)

\* s permuted by p, a permutation of the 0-based positions.
Apply(s, p) == [i \in 1 .. Len(s) |-> s[p[i] + 1]]
Perms(n) == {[i \in 1 .. n |-> f[i] - 1] : f \in Permutations(1 .. n)}

\* The first k elements come before all others, sorted or not.
Partitioned(s, k, desc) ==
  \A i \in 1 .. k, j \in k + 1 .. Len(s) : InOrder(s[i], s[j], desc)
SortedUpTo(s, k, desc) ==
  \A i, j \in 1 .. k : i < j => InOrder(s[i], s[j], desc)

\* The permutations each library call may apply to a buffer of n = Len(s).
qsort(s, nan, desc) ==
  {p \in Perms(Len(s)) : Defined(s, nan) => SortedUpTo(Apply(s, p), Len(s), desc)}
qselect(s, k, nan, desc) ==
  {p \in Perms(Len(s)) : Defined(s, nan) => Partitioned(Apply(s, p), k, desc)}
partial_qsort(s, k, nan, desc) ==
  {p \in qselect(s, k, nan, desc) :
     Defined(s, nan) => SortedUpTo(Apply(s, p), k, desc)}
argselect(s, k, nan) == qselect(s, k, nan, FALSE)

\* The key-value calls permute the first n values alongside the keys.
ApplyKV(v, p) == [i \in 1 .. Len(v) |-> IF i <= Len(p) THEN v[p[i] + 1] ELSE v[i]]

(* ---------------- vector_sort.cc ------------------------------------- *)

Init ==
  /\ buf \in [Bufs -> Vectors]
  /\ ro \in [Bufs -> BOOLEAN]
  /\ hasNan \in BOOLEAN
  /\ HostSetsNanFlag => (hasNan <=> \E b \in Bufs : NaN \in Range(buf[b]))
  /\ owned = {}
  /\ ret = NoRet
  /\ call = [op |-> "none", b |-> CHOOSE b \in Bufs : TRUE, v |-> CHOOSE b \in Bufs : TRUE, k |-> 0, desc |-> FALSE]
  /\ err = "none"

Call(op, b, v, k, desc) == call' = [op |-> op, b |-> b, v |-> v, k |-> k, desc |-> desc]

ThrowReadonly == err' = "readonly" /\ UNCHANGED <<buf, owned, ret>>

\* An in-place helper: readonly check, then the library permutes buf[b].
InPlace(op, b, k, desc, Lib) ==
  /\ Call(op, b, b, k, desc)
  /\ UNCHANGED <<ro, hasNan>>
  /\ \/ ro[b] /\ ThrowReadonly
     \/ /\ ~ro[b]
        /\ \E p \in Lib : buf' = [buf EXCEPT ![b] = Apply(@, p)]
        /\ err' = "none"
        /\ UNCHANGED <<owned, ret>>

simd_vector_sort(b, desc) ==
  InPlace("sort", b, Len(buf[b]), desc, qsort(buf[b], hasNan, desc))
simd_vector_select(b, k, desc) ==
  InPlace("select", b, k, desc, qselect(buf[b], k, hasNan, desc))
\* Bug variant: topk calls qselect, which leaves the first k unsorted.
simd_vector_topk_AsSelect(b, k, desc) ==
  InPlace("topk", b, k, desc, qselect(buf[b], k, hasNan, desc))
simd_vector_topk(b, k, desc) ==
  InPlace("topk", b, k, desc, partial_qsort(buf[b], k, hasNan, desc))

\* Bug variant: ctx.Own is forgotten; the unique_ptr frees the indices
\* when the helper returns.
OwnNone(id) == UNCHANGED owned

\* ctx.Own(std::move(p)).
Own(id) == owned' = owned \cup {id}

\* The index vector is moved into a unique_ptr that ctx.Own keeps alive.
ReturnOwned(op, b, k, desc, idx) ==
  /\ Call(op, b, b, k, desc)
  /\ Own(Cardinality(owned) + 1)
  /\ ret' = [id |-> Cardinality(owned) + 1, idx |-> idx]
  /\ err' = "none"
  /\ UNCHANGED <<buf, ro, hasNan>>

simd_vector_argsort(b, desc) ==
  /\ Cardinality(owned) < MaxOwned
  /\ \E idx \in qsort(buf[b], hasNan, desc) :
       ReturnOwned("argsort", b, Len(buf[b]), desc, idx)

\* Bug variant: descending is dropped, as x86simdsort::argselect has no
\* such parameter.
ArgSelectAscending(b, k, desc) == argselect(buf[b], k, hasNan)

\* descending falls through to simd_vector_argsort.
ArgSelectLib(b, k, desc) ==
  IF desc THEN qsort(buf[b], hasNan, desc) ELSE argselect(buf[b], k, hasNan)

simd_vector_argselect(b, k, desc) ==
  /\ Cardinality(owned) < MaxOwned
  /\ \E idx \in ArgSelectLib(b, k, desc) :
       ReturnOwned("argselect", b, k, desc, idx)

\* Bug variant: only the key's readonly flag is checked.
WritableKeyOnly(kb, vb) == ~ro[kb]

\* key.IsReadonly() || value.IsReadonly() is false.
Writable(kb, vb) == ~ro[kb] /\ ~ro[vb]

\* The library is given key.Size() as the length of both buffers; the
\* caller (KVArgs) guarantees the value buffer has that length.
KeyValue(op, kb, vb, k, desc, Lib) ==
  /\ Call(op, kb, vb, k, desc)
  /\ UNCHANGED <<ro, hasNan, owned, ret>>
  /\ \/ ~Writable(kb, vb) /\ ThrowReadonly
     \/ /\ Writable(kb, vb)
        /\ \E p \in Lib :
             buf' = [buf EXCEPT ![kb] = Apply(@, p), ![vb] = ApplyKV(@, p)]
        /\ err' = "none"

\* Bug variant: key and value are swapped in the library call.
simd_vector_sort_key_value_Swapped(kb, vb, desc) ==
  KeyValue("sort_kv", kb, vb, Len(buf[kb]), desc, qsort(buf[vb], hasNan, desc))
simd_vector_sort_key_value(kb, vb, desc) ==
  KeyValue("sort_kv", kb, vb, Len(buf[kb]), desc, qsort(buf[kb], hasNan, desc))
simd_vector_topk_key_value(kb, vb, k, desc) ==
  KeyValue("topk_kv", kb, vb, k, desc, partial_qsort(buf[kb], k, hasNan, desc))
simd_vector_select_key_value(kb, vb, k, desc) ==
  KeyValue("select_kv", kb, vb, k, desc, qselect(buf[kb], k, hasNan, desc))

\* The arguments generated code can pass (spec 4.6): k up to the length,
\* and key and value vectors of one length, which generated code checks
\* (throw_size_mismatch_exception) before it calls the helper.
KVArgs(kb, vb) ==
  kb # vb /\ Len(buf[kb]) = Len(buf[vb])

Next ==
  \/ \E b \in Bufs, desc \in BOOLEAN :
       \/ simd_vector_sort(b, desc)
       \/ simd_vector_argsort(b, desc)
       \/ \E k \in 0 .. Len(buf[b]) :
            \/ simd_vector_select(b, k, desc)
            \/ simd_vector_topk(b, k, desc)
            \/ simd_vector_argselect(b, k, desc)
  \/ \E kb, vb \in Bufs, desc \in BOOLEAN :
       /\ KVArgs(kb, vb)
       /\ \/ simd_vector_sort_key_value(kb, vb, desc)
          \/ \E k \in 0 .. Len(buf[kb]) :
               \/ simd_vector_topk_key_value(kb, vb, k, desc)
               \/ simd_vector_select_key_value(kb, vb, k, desc)

Spec == Init /\ [][Next]_vars

(* ---------------- properties ----------------------------------------- *)

\* Every index an arg helper returns is a 0-based position of its input,
\* and the returned view's storage is owned by the Context.
TypeOK ==
  /\ err \in {"none", "readonly"}
  /\ owned \subseteq 1 .. MaxOwned
  /\ ret.id \in owned \cup {0}
  /\ \A i \in DOMAIN ret.idx : ret.idx[i] \in 0 .. Len(ret.idx) - 1

\* No helper changes a readonly vector: sort, select and topk check the
\* flag of their vector, the key-value helpers the flags of both.
ReadonlyUnchanged ==
  [][\A b \in Bufs : ro[b] => buf'[b] = buf[b]]_vars

\* The in-place helpers: when sort, select or topk returns, the buffer holds
\* the same elements, and its first k are the k smallest (largest when
\* descending), in order for sort and topk.
InPlaceContract ==
  [][/\ call'.op \in {"sort", "select", "topk"}
     /\ err' = "none"
     => LET s == buf'[call'.b] IN
          /\ ToBag(s) = ToBag(buf[call'.b])
          /\ Partitioned(s, call'.k, call'.desc)
          /\ call'.op # "select" => SortedUpTo(s, call'.k, call'.desc)]_vars

\* argsort and argselect: the result is a permutation of the input's
\* positions, and the first k positions it names hold the k smallest
\* (largest when descending) elements; argsort orders all of them.
ArgContract ==
  [][call'.op \in {"argsort", "argselect"}
     => LET s == Apply(buf[call'.b], ret'.idx) IN
          /\ Len(ret'.idx) = Len(buf[call'.b])
          /\ Partitioned(s, call'.k, call'.desc)
          /\ call'.op = "argsort" => SortedUpTo(s, call'.k, call'.desc)]_vars

\* The key-value helpers keep every key with its value: the multiset of
\* (key, value) pairs of the first n positions is the same after the call,
\* and the keys are ordered as for the in-place helpers.
Pairs(kv, vv) == ToBag([i \in 1 .. Len(kv) |-> <<kv[i], vv[i]>>])
KeyValueContract ==
  [][/\ call'.op \in {"sort_kv", "topk_kv", "select_kv"}
     /\ err' = "none"
     => /\ Pairs(buf'[call'.b], buf'[call'.v]) = Pairs(buf[call'.b], buf[call'.v])
        /\ Partitioned(buf'[call'.b], call'.k, call'.desc)
        /\ call'.op # "select_kv" => SortedUpTo(buf'[call'.b], call'.k, call'.desc)]_vars

=============================================================================
