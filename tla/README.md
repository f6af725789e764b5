# TLA+ models of RapidUDF

This directory holds TLA+ models of the RapidUDF sources under `src/rapidudf`, and the TLC configurations that check them. RapidUDF is a JIT compiler for numeric and SIMD-vector user functions. Every action is translated from the C++ source. `PROJECT.json` maps each definition to the lines it models, and it lists the runs, the mutants, the findings and the hazards.

## The system and how its parts interact

| Part | Source | State | Operations |
|---|---|---|---|
| Arena | `memory/arena.h` | a folly arena (bytes in use) | Allocate, Reset, MemoryUsage |
| ThreadCachedArena | `memory/arena.h`, `memory/arena.cc` | `boost::thread_specific_ptr<Arena> arena_` (one slot per thread, keyed by the instance address), `all_arenas_`, `threads_mutex_` | construct, GetArena/Allocate, Reset, MemoryUsage, destroy; thread exit |
| FunctionDesc | `meta/function.cc` | derived `context_arg_idx` | Init, PassArgByValue (x86-64 register budget), ValidateArgs, CompareSignature |
| FunctionFactory | `meta/function.cc` | process-wide `g_regs` name → desc | Register, GetFunction |
| JitCompiler | `jit/llvm/jit.cc` | `jit_mutex_`, `session_` (LLJIT, module, `extern_funcs`, `compile_functon_ctxs`, stats) | CompileSource, CompileFunctions, BuildIR, Compile, CallFunction, GetFunctionPtr, VerifyFunctionSignature, GetStat |
| IR values | `jit/llvm/value.cc` | IR slot/value of a Value | CopyFrom, Select, GetValue |
| SIMD sort runtime | `functions/simd/vector_sort.cc` | the vectors passed in, `Context` owned results | sort, select, topk, argsort, argselect, key-value forms |

How the parts interact:
- The host registers native functions in FunctionFactory at start-up.
- CompileSource takes `jit_mutex_` and builds a new session. It parses the source, then declares every registered function the source calls as an extern in the LLVM module, with the signature GetFunctionType derives from `PassArgByValue`. Their addresses go into the JIT dylib. It then emits each function with BuildIR, where every call goes through CallFunction (context injection, casts, byval operands), and hands the module to LLJIT.
- The host looks functions up with GetFunctionPtr, without the lock, and calls them with a `Context*`.
- The `Context` owns a ThreadCachedArena, from which the runtime helpers (the sort functions among them) allocate on whichever thread runs the code.

The hard behaviours:
- Lock-free per-thread allocation racing the mutex-protected list walks.
- Thread-local slots that outlive the instance they belong to.
- A compiler shared by host threads whose lookups are unlocked.
- A multi-step compilation that can fail half-way.
- A register-budget rule that must agree with the ABI.

## Modules

- **`ThreadCachedArena`** (with `MC_ThreadCachedArena`) models one or more instance addresses and the threads using them.
  - `tls[t, a]` is the boost slot table, keyed by thread and instance address, as boost keys slots.
  - `allArenas`, `mutex` and `arenaState` model the Arena objects (unborn, live, deleted). `used` holds the bytes each Arena reports.
  - Actions: `GetArenaNew` creates the Arena and sets the slot, then `GetArenaPush` appends it under the mutex, then `AllocateNew` bumps it. `Allocate` is the fast path. `ResetLock`/`ResetStep`/`ResetUnlock` and `MemoryUsageLock`/`MemoryUsageStep`/`MemoryUsageUnlock` are the loops, one Arena per step. `Construct`, `Destroy` (clears only the destroying thread's slot) and `ThreadExit` (no-op deleter) complete it.
  - The one-line definitions `PushArena`, `Lock`, `ResetArenas`, `Unlock` and `ClearSlot` are the points the mutants change. Each has a bug variant beside it (`...None`, `ResetArenasOwn`).
- **`FunctionDesc`** holds operators only.
  - `ContextArgIdx` (first Context*, or -1) and `PassArgByValue`, a running register count compared with `> 6`.
  - `AbiPassesInMemory` is a RECURSIVE reference: the System V assignment, where an aggregate that does not fit in the registers left goes to memory and leaves those registers free.
  - The DType predicates are in `meta/dtype.h`, which is not under `src/`. They are taken from the spec and marked `spec_modelled`.
- **`FunctionRegistry`** (with `MC_FunctionRegistry`) models `g_regs` as a function. `Register` rejects a duplicate name, as at function.cc:172; `GetFunction` looks a name up.
- **`ExternCall`** (with `MC_ExternCall`) models one call site.
  - The callee is declared either as an extern (`DeclareExtern`: byval on the parameters PassArgByValue picks) or as a compiled UDF (`DeclareCompiled`: byval where the declared type differs from the native one).
  - `EmitCall` is CallFunction: inject the context at `context_arg_idx`, check the count, cast, pass byval values through a slot or a temporary, build the `byval` bundle.
  - Each caller value has an id, the parameter it was written for. `GetValue` (value.cc 45-50) loads a slot-backed value and hands an SSA value out as it is, and `GetPtrValue` returns the slot. `ArgOperand` is the per-argument choice at jit.cc 586-597. Each operand of the call is a record saying what it is: an SSA value, a load, a slot address, or a temporary holding a stored operand. `ArgsDelivered` evaluates these operands.
  - The caller's input is chosen by `\E`: context omitted or not, one uncastable value, values in stack slots or not.
- **`JitCompiler`** (with `MC_JitCompiler`) models host threads sharing one compiler.
  - `CompileSourceBegin` takes the lock and runs NewSession. Then come `CompileSourceParse`, `CompileFunctionsExterns` (declare and inject externs, including the member calls of function 0 only, as at jit.cc:318), `BuildIR` (one function per step; the compile context is registered before the body) and `CompileSourceFinish`. Compile hands the module to the JIT; `addIRModule` may fail (a nondeterministic branch), and CompileSource then returns `link_error` with the functions' compile contexts still registered.
  - `NewSession`, `AddIRModule` and `Return` (the lock_guard release) are factored out as mutation points.
  - `GetFunctionPtr` and `VerifyFunctionSignature` run without the lock on whatever session is current.
  - NewSession is two steps. `CompileSourceBegin` assigns `session_` (jit.cc:142), whose `jit` is still null; `NewSessionJit` sets it (146) and builds the rest.
  - GetFunctionPtr is two steps. `GetFunctionPtr` reads `session_` and its `jit` (96): a null `jit` is a fault. Otherwise it remembers that session in `look`, and `GetFunctionPtrReturn` completes the lookup. If another NewSession released the session in between, that is a fault too.
  - `fault` collects the undefined behaviours reached: `null_session`, `null_jit` and `freed_session`. The read of `session_` racing its assignment is itself a data race. The model lets it see the old or the new pointer.
  - A source is abstracted to whether it parses and, per function, its name, its calls (externs, UDFs, member functions, the implicit size-check throw) and whether the walker accepts its body. `MC_JitCompiler` defines six such sources, one for each path through the pipeline.
  - `Facade == INSTANCE CompilerFacade WITH ...` is the refinement mapping, and `CompilerSpec == Facade!Spec` is checked as a property. The mapping:
    - the abstract owner is `jit_mutex_`;
    - a thread's job is its source while it is inside CompileSource;
    - a name's code is the current session's, once Compile has handed the module over;
    - a returned pointer is its session and name.
- **`CompilerFacade`** is the abstract specification of what spec 4.3 and 6 promise of `compile_source` and `get_function_pointer`, with no sessions or linker.
  - `Begin` is serialised and drops all earlier code.
  - `Publish` makes all of a source's names visible at once; `Abort` publishes nothing.
  - `Lookup` returns the published code of a name.
  - Weak fairness on `Publish`/`Abort` says a started compilation returns.
- **`VectorSort`** (with `MC_VectorSort`) models the eight sort helpers of `functions/simd/vector_sort.cc`.
  - State: `buf[b]` is the contents behind view `b` and `ro[b]` its readonly flag; `hasNan` is `ctx.HasNan()`; `owned` is the index vectors `ctx.Own` holds; `ret` is the last returned `Vector<size_t>`.
  - Each action is one helper: the readonly test (`ThrowReadonly`), then the library call with the arguments the code passes. For the key-value forms that is `key.Size()` for both buffers; for argselect with `descending`, a fall-through to argsort.
  - x86-simd-sort, `Context` and `Vector` are not under `src/`. Their contracts are taken from spec 4.6 and marked `spec_modelled`: `qsort`, `qselect`, `partial_qsort` and `argselect` return the set of permutations the library may apply. When the library is told there is no NaN while there is one, any permutation is allowed.
  - `KVArgs` and `HostSetsNanFlag` state the obligations the spec puts on generated code and the host. `KVArgs` says key and value vectors have one length, which generated code checks before the call (spec 4.6); `HostSetsNanFlag` says the NaN flag is set when the data holds a NaN.

## Runs

| Run | Checks | Result |
|---|---|---|
| `tca_safety` | TypeOK, BytesTracked, UsageWithinBounds, ResetThenUsageZero, SlotOwnedByInstance, MutexReleased (liveness) | pass (about 1.76M states, no symmetry) |
| `tca_cross_thread_destroy` | SlotOwnedByInstance, with instances destroyed while another thread holds a slot | violation: use of a deleted Arena |
| `registry` | TypeOK | pass |
| `registry_ctx` | ContextArgUnique | violation: two Context* arguments accepted |
| `externcall` | TypeOK, ByvalMatchesAbi, CallMatchesDeclaration, ContextInjected, ArgsDelivered over all signatures of up to 6 arguments | pass (about 173k states) |
| `externcall_ctx` | ContextAlwaysInjected | violation: no injection without a caller context |
| `jit` | TypeOK, LookupOnlyCompiled, MutexReleased (liveness), CompilerSpec (refinement) | pass (about 1.2M states, 2 min) |
| `jit_member` | MemberCallsDeclared | violation: member calls of the second function are not declared |
| `jit_shared` | LookupAfterOwnCompile | violation: another thread's compile replaces the session |
| `jit_lookup_race` | LookupNeverFaults | violation: an unlocked lookup during another thread's NewSession uses a null LLJIT |
| `jit_verify` | VerifyNeverFaults | violation: null session dereference |
| `vsort` | TypeOK, ReadonlyUnchanged, InPlaceContract, ArgContract, KeyValueContract | pass (about 72k states) |

What the passing runs show:
- **ThreadCachedArena:**
  - Every byte allocated sits in an Arena on the list of a live instance.
  - A MemoryUsage result lies between the usage when the lock was taken and the usage when it returns.
  - MemoryUsage after a Reset, with no Allocate in between, returns 0.
  - As long as an instance is destroyed only when no other thread holds a slot for it, no slot hands out a deleted Arena or another instance's Arena.
- **Registry:** every registered desc is well formed, and its `context_arg_idx` is -1 or names one of its arguments.
- **PassArgByValue:** the choice agrees with the ABI reference for every signature up to six arguments. The emitted call always matches the declaration: arity, DTypes, pointer parameters, and the byval bundle. A caller with a context gets it injected at the right index.
- **JitCompiler:**
  - A pointer returned by GetFunctionPtr belongs only to a compilation that completed, never to one that failed half-way or is still running on another thread.
  - `jit_mutex_` is always released eventually.
  - JitCompiler implements CompilerFacade, liveness included. Each multi-step CompileSource, with its early returns, behaves as one serialised all-or-nothing compilation that replaces the earlier code. A lookup that returns gives either no code or all of the last completed compilation. The facade has no faults: a lookup that faults (`jit_lookup_race`) is a step the mapping does not see. So the refinement says what the answers of lookups are, not that lookups are safe. `jit_shared` shows what two threads get.
- **VectorSort:**
  - No helper changes a readonly vector. The key-value helpers test both flags.
  - sort, select and topk leave a permutation whose first k elements are the k smallest, or largest when descending, sorted for sort and topk.
  - The key-value helpers keep every key with its value.
  - argsort and argselect return a ctx-owned permutation of 0-based positions whose first k name the k smallest or largest. That includes argselect descending, which returns a full argsort.

Each property of a passing run has a mutant in `PROJECT.json`: a plausible bug in the mapped definition that TLC catches with the run's own cfg.

## Findings

1. **ThreadCachedArena (arena.cc:51).** The destructor clears only the destroying thread's boost slot. A later instance at the same address then hands another thread the deleted Arena.
2. **FunctionFactory::Register.** It accepts a desc with two Context* arguments. The spec says this is a registration error.
3. **Context injection (jit.cc:563).** Injection happens only when the caller itself has a Context* argument. The spec states it unconditionally.
4. **Member calls (jit.cc:318).** Only the member calls of function 0 are declared. `all_member_func_calls` is collected and never used.
5. **Shared compiler.** Serialising CompileSource does not make sharing a compiler safe. Each compilation frees the previous session's code, and unlocked lookups return whatever session is current.
6. **VerifyFunctionSignature.** It dereferences a null session when called before any compilation.
7. **Unlocked lookup during NewSession (jit.cc:96, 142-146).** GetFunctionPtr calls `GetSession()->jit->lookup` without the lock. Another thread's NewSession publishes `session_` before setting its `jit`, so the lookup can dereference a null LLJIT. A lookup that read the session before another thread's NewSession keeps only a raw pointer, and runs on a released LLJIT.

## Bounds, and why they suffice

- **ThreadCachedArena: two threads, one address, three Arenas, two units per Arena.** That is enough for two threads each to have an Arena, for one to be destroyed and a new instance built at the same address, and for a third Arena to be created afterwards. Each thread's loop can interleave with the other thread's bump, and two units let a bump land both before and after a loop step.
- **Registry: two names, two return types, four argument lists.** These cover duplicate names, no context, a context first, a context last and two contexts.
- **ExternCall: all sequences of up to six kinds from {i64, vec, ctx, f32}.** This crosses the six-register budget both exactly and by one, with a context at every position.
- **JitCompiler: two threads and two compilations.** That is enough for a thread to compile, a second thread to compile, and the first to look up, and for a lookup to straddle a NewSession. A third compilation adds no new interleaving of these steps, and with the split lookups it would take the run past five minutes. The six sources cover success, a parse error, a body error in a later function, a forward UDF reference, and member calls in the first or a later function.

- **VectorSort: two vectors from {<<>>, <<2,1>>, <<2,1,2>>, <<NaN,2,1>>}, every readonly combination and every k from 0 to the length.** That gives ties, a NaN, an empty vector, a k strictly inside a vector, and key and value vectors both equal and unequal in length. `MaxOwned = 1` lets one index vector be returned along each path, which is all the arg properties need: each concerns one call.

## Fairness

- The liveness properties are `JitCompiler`'s `MutexReleased`, the fairness part of `CompilerSpec`, and `ThreadCachedArena`'s `MutexReleased`.
- `ThreadCachedArena` assumes weak fairness of each thread's Reset and MemoryUsage loop steps. A loop that holds `threads_mutex_` only walks `all_arenas_` and never blocks. `MC_ThreadCachedArena.cfg` has no SYMMETRY, because symmetry reduction is unsound for liveness checking.
- The JitCompiler properties assume weak fairness of each thread's steps inside CompileSource. A thread that has entered the function keeps running until it returns, since the code neither blocks nor waits inside it.
- No fairness is assumed for taking `jit_mutex_` or `threads_mutex_`. `std::mutex` does not promise any, so no starvation-freedom property is stated.
- The remaining modules are checked for safety only.
- `ExternCall` sets `CHECK_DEADLOCK FALSE`, because one call site is compiled once and then stops. Every other run checks deadlock.

## Not modelled, and why

- **The AST parser, the statement/expression walker and DType (`meta/dtype.h`).** These are not under `src/`. The model abstracts sources to their calls, and takes the DType predicates from the spec.
- **The LLVM pass pipeline, IR printing and logging.** These are pure transformations and output.
- **`constants.h`, the `bits.h` declarations and the `simd_vector.h` reflection macros.** They have no state or operations.
- **`CompileFunction(source)`, `CompileFunction(ast)` and `CompileExpression` (jit.cc 248-374).**
  - They compile into the current session without the lock and without NewSession.
  - Their callers are the templates of `jit.h`, which is not under `src/`, so which session they run in is unknown.
  - The hazards they carry are listed: a moved-out module, and parse_cost overwritten with the compile time.
- **`GetStat` and the stat writes.** They record timings, which the spec says do not affect semantics.
- **IR Value helpers (`value.cc`), except GetValue.**
  - GetValue is modelled where CallFunction uses it, for slot-backed and SSA values alike.
  - What CopyFrom and Select compute depends on which Values the AST walker, outside `src/`, hands them.
  - CopyFrom stores `other->val_`, which is a slot address for a slot-backed value. Select uses its own `val_` as the condition. Both are listed as hazards.
- **Template instantiation lists of `vector_sort.cc` (114-151).** They only pick element types; the model's elements {1, 2, NaN} stand for all of them.
- **Aliased key and value views in the key-value sorts.** The library's result on overlapping buffers is unspecified, and the model passes distinct views.
- **The data races themselves.** A shared_ptr read racing its assignment, and a folly arena bumped during a clear, are undefined behaviour. The model makes each single access an atomic step, reading the old or the new value. It splits GetFunctionPtr and NewSession where another thread can see their intermediate state. The bump racing a clear is listed as a hazard.
- **Key and value vectors of different lengths.** The key-value helpers pass `key.Size()` for both buffers. Spec 4.6 makes equal lengths a precondition that generated code checks, and generated code is outside `src/`. The model calls the helpers with equal lengths only. The hazard is listed.

## Plan for the rest of the project

1. **FunctionDesc naming.** `GetFunctionName` and `GetMemberFuncName` (function.cc 41-70), checked for injectivity over op and DType pairs. The two-DType form gives the same name to (vector, scalar), (scalar, vector) and (vector, vector).
2. **ThreadCachedArena.** The typed `New`/allocator adaptors of `arena.h`.
3. **A Context module.** The Context composes ThreadCachedArena with the helpers' `ctx.Own`.
