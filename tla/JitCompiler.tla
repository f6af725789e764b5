------------------------------- MODULE JitCompiler -------------------------------
(***************************************************************************)
(* rapidudf::llvm::JitCompiler (src/rapidudf/jit/llvm/jit.cc): one        *)
(* compiler shared by host threads.                                        *)
(*                                                                         *)
(* CompileSource holds jit_mutex_ for the whole compilation: NewSession    *)
(* replaces session_ (the previous JitSession, its LLJIT and all the code  *)
(* it holds are released), the source is parsed, CompileFunctions          *)
(* declares every extern the functions call, injects their addresses into *)
(* the JIT dylib, runs BuildIR for each function in source order and       *)
(* finally hands the module to the JIT (Compile).  GetFunctionPtr and      *)
(* VerifyFunctionSignature take no lock and read whatever session_ is.     *)
(*                                                                         *)
(* A source is abstracted to whether it parses and, per function, its     *)
(* name, the registered externs, the UDFs and the member functions it      *)
(* calls, whether its vector code calls throw_size_mismatch_exception, and *)
(* whether the AST walker emits its body without error.  A compiled        *)
(* function's code is identified by <<session, source, name>>.             *)
(***************************************************************************)
EXTENDS Naturals, Sequences, FiniteSets, TLC

CONSTANTS
  Threads,     \* host threads sharing the compiler
  Sources,     \* sources the host compiles
  FnNames,     \* names of UDFs
  ThrowFunc,   \* "throw_size_mismatch_exception", registered at start-up
  MaxSessions, \* bound: CompileSource calls over the run
  NoOwner, NULL

VARIABLES
  mutex,     \* jit_mutex_
  gen,       \* number of sessions created so far; session_ is null at 0
  session,   \* the JitSession session_ points to
  pc,        \* where each thread is inside a JitCompiler call
  src,       \* the source the thread's CompileSource is compiling
  idx,       \* next function BuildIR handles (1-based)
  result,    \* outcome of the thread's last CompileSource
  myGen,     \* ghost: session of the thread's last successful CompileSource
  got,       \* last pointer GetFunctionPtr returned to the thread, or NULL
  verified,  \* VerifyFunctionSignature's last call of the thread found its name
  okGens,    \* ghost: sessions whose CompileSource returned the names
  look,      \* look[t]: the session and name of t's lookup in flight
  fault      \* the undefined behaviours calls ran into

vars == <<mutex, gen, session, pc, src, idx, result, myGen, got, verified,
          okGens, look, fault>>

\* The places of a thread inside CompileSource, where it holds jit_mutex_.
CompilePcs == {"newsession", "parse", "externs", "build"}

Fn(s, i) == s.fns[i]
FnsOf(s) == {s.fns[i] : i \in DOMAIN s.fns}

\* The JitSession NewSession builds: empty maps, no module handed over.
EmptySession ==
  [src |-> NULL,         \* the source being compiled in it
   ctxs |-> {},          \* compile_functon_ctxs (names)
   externs |-> {},       \* extern_funcs (names)
   dylib |-> {},         \* symbols defined in the main JITDylib
   jit |-> FALSE,        \* session_->jit is set (LLJITBuilder::create)
   added |-> FALSE]      \* module handed to the JIT by Compile()

-----------------------------------------------------------------------------
(* JitCompiler::CompileSource                                              *)

\* Bug variant: NewSession keeps the current session and its code.
NewSessionReuse(s) == [session EXCEPT !.src = s]

\* NewSession: session_ = std::make_shared<JitSession>().
NewSession(s) == [EmptySession EXCEPT !.src = s]

\* lock_guard(jit_mutex_); NewSession(dump_asm) up to line 142:
\* ast_ctx_.Clear() and a new session_, which releases the previous
\* JitSession, and is seen by other threads before its jit is set.
CompileSourceBegin(t, s) ==
  /\ pc[t] = "idle"
  /\ mutex = NoOwner
  /\ gen < MaxSessions
  /\ mutex' = t
  /\ gen' = gen + 1
  /\ session' = NewSession(s)
  /\ pc' = [pc EXCEPT ![t] = "newsession"]
  /\ src' = [src EXCEPT ![t] = s]
  /\ myGen' = [myGen EXCEPT ![t] = 0]
  /\ UNCHANGED <<idx, result, got, verified, okGens, look, fault>>

\* The rest of NewSession: session_->jit = LLJITBuilder().create(), then
\* the LLVM context, module, IR builder and pass managers.
NewSessionJit(t) ==
  /\ pc[t] = "newsession"
  /\ session' = [session EXCEPT !.jit = TRUE]
  /\ pc' = [pc EXCEPT ![t] = "parse"]
  /\ UNCHANGED <<mutex, gen, src, idx, result, myGen, got, verified, okGens,
                 look, fault>>

\* Bug variant: a return that leaves jit_mutex_ locked (a manual
\* lock()/unlock() pair instead of the lock_guard).
ReturnKeepLock(t, r) ==
  /\ mutex' = mutex
  /\ pc' = [pc EXCEPT ![t] = "idle"]
  /\ result' = [result EXCEPT ![t] = r]

\* Leave CompileSource: the lock_guard releases jit_mutex_.
Return(t, r) ==
  /\ mutex' = NoOwner
  /\ pc' = [pc EXCEPT ![t] = "idle"]
  /\ result' = [result EXCEPT ![t] = r]

\* parse_functions_ast; a parse error is returned as is.
CompileSourceParse(t) ==
  /\ pc[t] = "parse"
  /\ IF src[t].parses
       THEN /\ pc' = [pc EXCEPT ![t] = "externs"]
            /\ UNCHANGED <<mutex, result>>
       ELSE Return(t, "parse_error")
  /\ UNCHANGED <<gen, session, src, idx, myGen, got, verified, okGens, look, fault>>

\* Externs CompileFunctions declares: the calls of every function, the
\* reserved throw function, and the member functions called by function
\* number compile_function_idx (0 in a new session) only.
ExternsDeclared(s) ==
  UNION {f.externs : f \in FnsOf(s)} \cup {ThrowFunc}
    \cup (IF s.fns = <<>> THEN {} ELSE Fn(s, 1).members)

\* CompileFunctions up to the BuildIR loop: declare each extern in the
\* module (extern_funcs) and define its address in the dylib.
CompileFunctionsExterns(t) ==
  /\ pc[t] = "externs"
  /\ session' = [session EXCEPT !.externs = ExternsDeclared(src[t]),
                                !.dylib = ExternsDeclared(src[t])]
  /\ pc' = [pc EXCEPT ![t] = "build"]
  /\ idx' = [idx EXCEPT ![t] = 1]
  /\ UNCHANGED <<mutex, gen, src, result, myGen, got, verified, okGens, look, fault>>

\* CallFunction's lookup: GetFunction (extern_funcs), then
\* compile_functon_ctxs.  Member calls go through extern_funcs.
Resolvable(f, sess) ==
  /\ f.externs \cup f.members \subseteq sess.externs
  /\ f.sizeCheck => ThrowFunc \in sess.externs
  /\ f.udfs \subseteq sess.ctxs

\* Bug variant: CompileFunctions goes on to the next function (and to
\* Compile) when BuildIR reports an error.
BuildIRIgnoreError(t) ==
  /\ pc[t] = "build"
  /\ idx[t] <= Len(src[t].fns)
  /\ session' = [session EXCEPT !.ctxs = @ \cup {Fn(src[t], idx[t]).name}]
  /\ idx' = [idx EXCEPT ![t] = @ + 1]
  /\ UNCHANGED <<mutex, pc, result, gen, src, myGen, got, verified, okGens, look, fault>>

\* BuildIR(function): Function::Create, compile_functon_ctxs.emplace (before
\* the body), the walker emits the body, verifyFunction, optimisation.
\* Any failure returns from CompileFunctions with the error.
BuildIR(t) ==
  LET f == Fn(src[t], idx[t])
      sess == [session EXCEPT !.ctxs = @ \cup {f.name}]
  IN
  /\ pc[t] = "build"
  /\ idx[t] <= Len(src[t].fns)
  /\ session' = sess
  /\ IF f.ok /\ Resolvable(f, sess)
       THEN /\ idx' = [idx EXCEPT ![t] = @ + 1]
            /\ UNCHANGED <<mutex, pc, result>>
       ELSE /\ Return(t, "build_error")
            /\ UNCHANGED idx
  /\ UNCHANGED <<gen, src, myGen, got, verified, okGens, look, fault>>

\* Compile(): the module is moved into a ThreadSafeModule and handed to
\* the JIT by addIRModule.
AddIRModule == [session EXCEPT !.added = TRUE]

\* After the BuildIR loop: Compile().  If addIRModule reports an error
\* (a linker failure, chosen here), CompileSource returns it and the
\* names registered by BuildIR stay in compile_functon_ctxs.
CompileSourceFinish(t) ==
  /\ pc[t] = "build"
  /\ idx[t] > Len(src[t].fns)
  /\ \/ /\ session' = AddIRModule
        /\ Return(t, "ok")
        /\ myGen' = [myGen EXCEPT ![t] = gen]
        /\ okGens' = okGens \cup {gen}
     \/ /\ Return(t, "link_error")
        /\ UNCHANGED <<session, myGen, okGens>>
  /\ UNCHANGED <<gen, src, idx, got, verified, look, fault>>

-----------------------------------------------------------------------------
(* Unlocked readers of session_                                            *)

\* GetFunctionPtr past the null check (92): GetSession()->jit->lookup(name)
\* reads session_ and its jit, which is still null while another thread's
\* NewSession is between lines 142 and 146.
GetFunctionPtr(t, n) ==
  /\ pc[t] = "idle"
  /\ gen > 0
  /\ IF session.jit
       THEN /\ pc' = [pc EXCEPT ![t] = "lookup"]
            /\ look' = [look EXCEPT ![t] = [gen |-> gen, name |-> n]]
            /\ UNCHANGED fault
       ELSE /\ fault' = fault \cup {"null_jit"}
            /\ UNCHANGED <<pc, look>>
  /\ UNCHANGED <<mutex, gen, session, src, idx, result, myGen, got, verified,
                 okGens>>

\* lookup returns: a UDF symbol resolves once the module is in the JIT.  The
\* LLJIT belongs to the JitSession read at line 96; a NewSession of another
\* thread in between released it, and the lookup ran on freed memory.
GetFunctionPtrReturn(t) ==
  LET n == look[t].name IN
  /\ pc[t] = "lookup"
  /\ pc' = [pc EXCEPT ![t] = "idle"]
  /\ IF look[t].gen = gen
       THEN /\ got' = [got EXCEPT ![t] =
                        IF session.added /\ n \in session.ctxs
                          THEN [gen |-> gen, src |-> session.src, name |-> n,
                                forGen |-> myGen[t]]
                          ELSE NULL]
            /\ UNCHANGED fault
       ELSE /\ fault' = fault \cup {"freed_session"}
            /\ UNCHANGED got
  /\ UNCHANGED <<mutex, gen, session, src, idx, result, myGen, verified,
                 okGens, look>>

\* VerifyFunctionSignature(name, ...): found in compile_functon_ctxs.  Unlike
\* GetFunctionPtr and GetStat it does not test session_ for null first.
VerifyFunctionSignature(t, n) ==
  /\ pc[t] = "idle"
  /\ IF gen = 0
       THEN /\ fault' = fault \cup {"null_session"}
            /\ UNCHANGED verified
       ELSE /\ verified' = [verified EXCEPT ![t] = n \in session.ctxs]
            /\ UNCHANGED fault
  /\ UNCHANGED <<mutex, gen, session, pc, src, idx, result, myGen, got, okGens,
                 look>>

-----------------------------------------------------------------------------
Init ==
  /\ mutex = NoOwner
  /\ gen = 0
  /\ session = EmptySession
  /\ pc = [t \in Threads |-> "idle"]
  /\ src = [t \in Threads |-> NULL]
  /\ idx = [t \in Threads |-> 1]
  /\ result = [t \in Threads |-> "none"]
  /\ myGen = [t \in Threads |-> 0]
  /\ got = [t \in Threads |-> NULL]
  /\ verified = [t \in Threads |-> FALSE]
  /\ okGens = {}
  /\ look = [t \in Threads |-> NULL]
  /\ fault = {}

Next ==
  \E t \in Threads :
    \/ \E s \in Sources : CompileSourceBegin(t, s)
    \/ NewSessionJit(t)
    \/ CompileSourceParse(t)
    \/ CompileFunctionsExterns(t)
    \/ BuildIR(t)
    \/ CompileSourceFinish(t)
    \/ \E n \in FnNames : GetFunctionPtr(t, n) \/ VerifyFunctionSignature(t, n)
    \/ GetFunctionPtrReturn(t)

\* Every step a thread takes inside CompileSource is its own to take: the
\* thread runs until it returns.
Fairness ==
  \A t \in Threads :
    WF_vars(NewSessionJit(t) \/ CompileSourceParse(t) \/ CompileFunctionsExterns(t)
            \/ BuildIR(t) \/ CompileSourceFinish(t))

Spec == Init /\ [][Next]_vars /\ Fairness

-----------------------------------------------------------------------------
TypeOK ==
  /\ gen \in 0 .. MaxSessions
  /\ session.ctxs \subseteq FnNames
  /\ pc \in [Threads -> CompilePcs \cup {"idle", "lookup"}]
  /\ result \in [Threads -> {"none", "ok", "parse_error", "build_error", "link_error"}]
  /\ okGens \subseteq 1 .. gen
  /\ fault \subseteq {"null_session", "null_jit", "freed_session"}
  \* jit_mutex_ is held exactly while a thread is inside CompileSource.
  /\ \A t \in Threads : mutex = t <=> pc[t] \in CompilePcs
  /\ mutex \in Threads \cup {NoOwner}

\* Function i of source s is well formed and calls only UDFs defined at or
\* before it in the source (CallFunction finds a UDF through
\* compile_functon_ctxs, which BuildIR fills in source order).
Compilable(s, i) ==
  /\ Fn(s, i).ok
  /\ Fn(s, i).udfs \subseteq {Fn(s, j).name : j \in 1 .. i}

\* A pointer GetFunctionPtr hands out is code of a CompileSource that ran
\* to the end and returned the names -- never a function of a compilation
\* that failed half-way, nor one still being built by another thread.
LookupOnlyCompiled ==
  \A t \in Threads :
    got[t] # NULL =>
      /\ got[t].gen \in okGens
      /\ \A i \in DOMAIN got[t].src.fns : Compilable(got[t].src, i)

\* jit_mutex_ is always released: every path out of CompileSource, error
\* paths included, lets the next compilation in.
MutexReleased == mutex # NoOwner ~> mutex = NoOwner

\* The refinement mapping onto the facade's promise: the thread holding
\* jit_mutex_ is the one compiling, a name's code is that of the current
\* session once Compile has handed its module over, and a returned pointer
\* is identified by its session and name.
Facade == INSTANCE CompilerFacade WITH
  owner <- mutex,
  sessions <- gen,
  job <- [t \in Threads |-> IF pc[t] \in CompilePcs THEN src[t] ELSE NULL],
  lookup <- [n \in FnNames |->
               IF session.added /\ n \in session.ctxs THEN gen ELSE 0],
  got <- [t \in Threads |->
            IF got[t] = NULL THEN NULL
            ELSE [gen |-> got[t].gen, name |-> got[t].name]]

\* JitCompiler implements CompilerFacade: under jit_mutex_, NewSession drops
\* every earlier function before the new source is parsed, a CompileSource
\* that fails anywhere publishes nothing, the names appear only when
\* Compile succeeds, and every CompileSource returns.
CompilerSpec == Facade!Spec

\* Spec 4.3 steps 1 and 4: the member functions called by every function of
\* the source are declared, so CompileSource fails with a build error only
\* when some function is malformed or calls a UDF it cannot see.
MemberCallsDeclared ==
  \A t \in Threads :
    pc[t] = "idle" /\ result[t] = "build_error" =>
      \E i \in DOMAIN src[t].fns : ~Compilable(src[t], i)

\* Spec 4.3 and 5: CompileSource is serialised and lookup after a
\* successful compile is lock-free and stable for the session's lifetime:
\* a thread that compiled a source and looks a function up gets that
\* session's function, and the pointer stays live while the thread does
\* not compile again.
LookupAfterOwnCompile ==
  \A t \in Threads :
    got[t] # NULL /\ got[t].forGen # 0 /\ got[t].forGen = myGen[t] =>
      /\ got[t].gen = myGen[t]
      /\ gen = myGen[t]

\* Spec 6: VerifyFunctionSignature reports an unknown name as not-found;
\* called before any CompileSource it must not dereference a null session.
VerifyNeverFaults == "null_session" \notin fault

\* Spec 5: get_function_pointer is lock-free and may run concurrently with
\* compile_source on another thread: it never dereferences a JitSession
\* whose LLJIT is not yet created or that a later NewSession released.
LookupNeverFaults == fault \cap {"null_jit", "freed_session"} = {}
=============================================================================
