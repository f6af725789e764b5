--------------------------- MODULE ThreadCachedArena ---------------------------
(***************************************************************************)
(* rapidudf::ThreadCachedArena (src/rapidudf/memory/arena.h, arena.cc).   *)
(*                                                                         *)
(* One instance lives at an address (a Context embeds one).  Each thread  *)
(* that allocates gets its own Arena through a boost::thread_specific_ptr *)
(* slot; the slot's key is the address of the instance, so the slot       *)
(* table is modelled as tls[thread, address].  The first allocation of a  *)
(* thread creates the Arena, stores it in the slot and appends it to      *)
(* all_arenas_ under threads_mutex_; later allocations bump the Arena      *)
(* without any lock.  Reset and MemoryUsage walk all_arenas_ one Arena at  *)
(* a time under the mutex.  The destructor deletes every Arena of the      *)
(* list and, through ~thread_specific_ptr, clears only the destroying      *)
(* thread's slot.  A thread that exits has its slots cleaned up with the   *)
(* no-op deleter: its Arena stays in all_arenas_.                          *)
(*                                                                         *)
(* An Arena is abstracted to the number of bytes it reports in use         *)
(* (folly::Arena::bytesUsed); one Allocate adds one unit.                  *)
(***************************************************************************)
EXTENDS Naturals, FiniteSets, Functions

CONSTANTS
  Threads,            \* threads of the host process
  Addrs,              \* addresses at which an instance can be constructed
  MaxArenas,          \* bound: Arenas created over the whole run
  MaxUse,             \* bound: units one Arena may hold
  CrossThreadDestroy, \* may an instance be destroyed while another thread
                      \* still holds a slot for it (host discipline)
  NULL,               \* empty thread_specific_ptr slot
  NoOwner             \* threads_mutex_ is free

ASSUME MaxArenas \in Nat \ {0} /\ MaxUse \in Nat \ {0}
ASSUME CrossThreadDestroy \in BOOLEAN

ArenaIds == 1 .. MaxArenas

VARIABLES
  live,       \* live[a]: an instance is constructed at address a
  allArenas,  \* allArenas[a]: all_arenas_ of the instance at a
  mutex,      \* mutex[a]: owner of threads_mutex_ of the instance at a
  tls,        \* tls[t, a]: the Arena boost returns to t for key a
  arenaState, \* "unborn", "live" or "deleted"
  used,       \* used[x]: bytes Arena x reports in use
  pc,         \* where each thread is inside a ThreadCachedArena call
  opAddr,     \* the instance the thread's current call is on
  todo,       \* Arenas the running Reset / MemoryUsage loop has still to visit
  acc,        \* the running `total` of MemoryUsage
  muStart,    \* ghost: instance usage when MemoryUsage took the lock
  clean       \* ghost: clean[a] iff no Allocate on a since the last Reset began

vars == <<live, allArenas, mutex, tls, arenaState, used, pc, opAddr, todo,
          acc, muStart, clean>>

PCs == {"idle", "ga_push", "alloc", "rs_loop", "mu_loop"}

\* Sum of bytes reported by the Arenas of the instance at a.
Usage(a) == SumFunctionOnSet(used, allArenas[a])

\* The host only calls into an instance that is constructed and that no
\* other call is tearing down.
Idle(t, a) == pc[t] = "idle" /\ live[a]

-----------------------------------------------------------------------------
(* ThreadCachedArena::Allocate -> GetArena()->Allocate(n)                  *)

\* Arena::Allocate on the thread's own Arena: a lock-free bump.
Bump(t, a) ==
  LET x == tls[t, a] IN
  /\ used[x] < MaxUse
  /\ used' = [used EXCEPT ![x] = @ + 1]
  /\ clean' = [clean EXCEPT ![a] = FALSE]

\* GetArena finds the slot set and the bump follows in the same call.
Allocate(t, a) ==
  /\ Idle(t, a)
  /\ tls[t, a] # NULL
  /\ Bump(t, a)
  /\ UNCHANGED <<live, allArenas, mutex, tls, arenaState, pc, opAddr, todo,
                 acc, muStart>>

\* GetArena with an empty slot: new Arena, arena_.reset(arena).
GetArenaNew(t, a) ==
  /\ Idle(t, a)
  /\ tls[t, a] = NULL
  /\ \E x \in ArenaIds : arenaState[x] = "unborn"
  /\ LET x == CHOOSE y \in ArenaIds :
                /\ arenaState[y] = "unborn"
                /\ \A z \in ArenaIds : arenaState[z] = "unborn" => y <= z
     IN /\ arenaState' = [arenaState EXCEPT ![x] = "live"]
        /\ tls' = [tls EXCEPT ![t, a] = x]
  /\ pc' = [pc EXCEPT ![t] = "ga_push"]
  /\ opAddr' = [opAddr EXCEPT ![t] = a]
  /\ UNCHANGED <<live, allArenas, mutex, used, todo, acc, muStart, clean>>

\* Bug variant: the new Arena is never appended to all_arenas_.
PushArenaNone(t, a) == UNCHANGED allArenas

\* all_arenas_.emplace_back(arena).
PushArena(t, a) == allArenas' = [allArenas EXCEPT ![a] = @ \cup {tls[t, a]}]

\* lock_guard(threads_mutex_); all_arenas_.emplace_back(arena); unlock.
GetArenaPush(t) ==
  LET a == opAddr[t] IN
  /\ pc[t] = "ga_push"
  /\ mutex[a] = NoOwner
  /\ PushArena(t, a)
  /\ pc' = [pc EXCEPT ![t] = "alloc"]
  /\ UNCHANGED <<live, mutex, tls, arenaState, used, opAddr, todo, acc,
                 muStart, clean>>

\* GetArena returned the new Arena; Allocate bumps it.
AllocateNew(t) ==
  /\ pc[t] = "alloc"
  /\ Bump(t, opAddr[t])
  /\ pc' = [pc EXCEPT ![t] = "idle"]
  /\ UNCHANGED <<live, allArenas, mutex, tls, arenaState, opAddr, todo, acc,
                 muStart>>

-----------------------------------------------------------------------------
(* ThreadCachedArena::Reset                                                *)

\* Bug variant: the loops run without taking threads_mutex_.
LockNone(t, a) == UNCHANGED mutex

\* std::lock_guard<std::mutex> guard(threads_mutex_).
Lock(t, a) == mutex[a] = NoOwner /\ mutex' = [mutex EXCEPT ![a] = t]

\* Bug variant: Reset clears only the calling thread's Arena
\* (GetArena()->Reset()).
ResetArenasOwn(t, a) == allArenas[a] \cap {tls[t, a]}

\* for (auto arena : all_arenas_).
ResetArenas(t, a) == allArenas[a]

ResetLock(t, a) ==
  /\ Idle(t, a)
  /\ Lock(t, a)
  /\ todo' = [todo EXCEPT ![t] = ResetArenas(t, a)]
  /\ clean' = [clean EXCEPT ![a] = TRUE]
  /\ pc' = [pc EXCEPT ![t] = "rs_loop"]
  /\ opAddr' = [opAddr EXCEPT ![t] = a]
  /\ UNCHANGED <<live, allArenas, tls, arenaState, used, acc, muStart>>

\* Arena::Reset: arena_->clear() drops every byte the Arena handed out.
ArenaReset(x) == used' = [used EXCEPT ![x] = 0]

\* One iteration: arena->Reset().
ResetStep(t) ==
  /\ pc[t] = "rs_loop"
  /\ \E x \in todo[t] :
       /\ ArenaReset(x)
       /\ todo' = [todo EXCEPT ![t] = @ \ {x}]
  /\ UNCHANGED <<live, allArenas, mutex, tls, arenaState, pc, opAddr, acc,
                 muStart, clean>>

\* Bug variant: the loop returns without unlocking (a manual lock() whose
\* unlock() is skipped).
UnlockNone(t) == UNCHANGED mutex

\* The lock_guard's destructor unlocks threads_mutex_ when the call returns.
Unlock(t) == mutex' = [mutex EXCEPT ![opAddr[t]] = NoOwner]

ResetUnlock(t) ==
  /\ pc[t] = "rs_loop"
  /\ todo[t] = {}
  /\ Unlock(t)
  /\ pc' = [pc EXCEPT ![t] = "idle"]
  /\ UNCHANGED <<live, allArenas, tls, arenaState, used, opAddr, todo, acc,
                 muStart, clean>>

-----------------------------------------------------------------------------
(* ThreadCachedArena::MemoryUsage                                          *)

MemoryUsageLock(t, a) ==
  /\ Idle(t, a)
  /\ Lock(t, a)
  /\ todo' = [todo EXCEPT ![t] = allArenas[a]]
  /\ acc' = [acc EXCEPT ![t] = 0]
  /\ muStart' = [muStart EXCEPT ![t] = Usage(a)]
  /\ pc' = [pc EXCEPT ![t] = "mu_loop"]
  /\ opAddr' = [opAddr EXCEPT ![t] = a]
  /\ UNCHANGED <<live, allArenas, tls, arenaState, used, clean>>

\* One iteration: total += arena->MemoryUsage().
MemoryUsageStep(t) ==
  /\ pc[t] = "mu_loop"
  /\ \E x \in todo[t] :
       /\ acc' = [acc EXCEPT ![t] = @ + used[x]]
       /\ todo' = [todo EXCEPT ![t] = @ \ {x}]
  /\ UNCHANGED <<live, allArenas, mutex, tls, arenaState, used, pc, opAddr,
                 muStart, clean>>

MemoryUsageUnlock(t) ==
  /\ pc[t] = "mu_loop"
  /\ todo[t] = {}
  /\ Unlock(t)
  /\ pc' = [pc EXCEPT ![t] = "idle"]
  /\ UNCHANGED <<live, allArenas, tls, arenaState, used, opAddr, todo, acc,
                 muStart, clean>>

-----------------------------------------------------------------------------
(* Lifetime                                                                *)

\* ThreadCachedArena(): empty all_arenas_, a fresh thread_specific_ptr whose
\* key is the address; slots other threads keep under that key survive.
Construct(a) ==
  /\ ~live[a]
  /\ live' = [live EXCEPT ![a] = TRUE]
  /\ allArenas' = [allArenas EXCEPT ![a] = {}]
  /\ clean' = [clean EXCEPT ![a] = TRUE]
  /\ UNCHANGED <<mutex, tls, arenaState, used, pc, opAddr, todo, acc, muStart>>

\* Bug variant: the destroying thread's slot is left set as well.
ClearSlotNone(t, a) == UNCHANGED tls

\* ~thread_specific_ptr: arena_.reset() on the destroying thread only.
ClearSlot(t, a) == tls' = [tls EXCEPT ![t, a] = NULL]

\* ~ThreadCachedArena on thread t: delete every Arena of all_arenas_, then
\* ~thread_specific_ptr resets t's own slot with the no-op deleter.  The
\* host does not destroy an instance another call is still running on.
Destroy(t, a) ==
  /\ Idle(t, a)
  /\ mutex[a] = NoOwner
  /\ \A u \in Threads : pc[u] = "idle" \/ opAddr[u] # a
  /\ CrossThreadDestroy \/ \A u \in Threads \ {t} : tls[u, a] = NULL
  /\ arenaState' = [x \in ArenaIds |->
                      IF x \in allArenas[a] THEN "deleted" ELSE arenaState[x]]
  /\ ClearSlot(t, a)
  /\ live' = [live EXCEPT ![a] = FALSE]
  /\ allArenas' = [allArenas EXCEPT ![a] = {}]
  /\ UNCHANGED <<mutex, used, pc, opAddr, todo, acc, muStart, clean>>

\* Thread exit: boost runs the no-op cleanup on every slot of the thread;
\* its Arenas stay owned by all_arenas_.  The thread id is then reused.
ThreadExit(t) ==
  /\ pc[t] = "idle"
  /\ \E a \in Addrs : tls[t, a] # NULL
  /\ tls' = [p \in Threads \X Addrs |-> IF p[1] = t THEN NULL ELSE tls[p]]
  /\ UNCHANGED <<live, allArenas, mutex, arenaState, used, pc, opAddr, todo,
                 acc, muStart, clean>>

-----------------------------------------------------------------------------
Init ==
  /\ live = [a \in Addrs |-> FALSE]
  /\ allArenas = [a \in Addrs |-> {}]
  /\ mutex = [a \in Addrs |-> NoOwner]
  /\ tls = [p \in Threads \X Addrs |-> NULL]
  /\ arenaState = [x \in ArenaIds |-> "unborn"]
  /\ used = [x \in ArenaIds |-> 0]
  /\ pc = [t \in Threads |-> "idle"]
  /\ opAddr = [t \in Threads |-> CHOOSE a \in Addrs : TRUE]
  /\ todo = [t \in Threads |-> {}]
  /\ acc = [t \in Threads |-> 0]
  /\ muStart = [t \in Threads |-> 0]
  /\ clean = [a \in Addrs |-> TRUE]

Next ==
  \/ \E a \in Addrs : Construct(a)
  \/ \E t \in Threads :
       \/ GetArenaPush(t) \/ AllocateNew(t)
       \/ ResetStep(t) \/ ResetUnlock(t)
       \/ MemoryUsageStep(t) \/ MemoryUsageUnlock(t)
       \/ ThreadExit(t)
       \/ \E a \in Addrs :
            \/ Allocate(t, a) \/ GetArenaNew(t, a)
            \/ ResetLock(t, a) \/ MemoryUsageLock(t, a)
            \/ Destroy(t, a)

\* A thread inside Reset or MemoryUsage runs its loop to the end: the loop
\* body neither blocks nor waits.  Nothing is assumed of taking the mutex.
Fairness ==
  \A t \in Threads :
    WF_vars(ResetStep(t) \/ ResetUnlock(t)
            \/ MemoryUsageStep(t) \/ MemoryUsageUnlock(t))

Spec == Init /\ [][Next]_vars /\ Fairness

-----------------------------------------------------------------------------
(* Properties                                                              *)

TypeOK ==
  /\ live \in [Addrs -> BOOLEAN]
  /\ allArenas \in [Addrs -> SUBSET ArenaIds]
  /\ mutex \in [Addrs -> Threads \cup {NoOwner}]
  /\ tls \in [Threads \X Addrs -> ArenaIds \cup {NULL}]
  /\ arenaState \in [ArenaIds -> {"unborn", "live", "deleted"}]
  /\ used \in [ArenaIds -> 0 .. MaxUse]
  /\ pc \in [Threads -> PCs]
  /\ opAddr \in [Threads -> Addrs]
  /\ todo \in [Threads -> SUBSET ArenaIds]
  /\ acc \in [Threads -> Nat]
  /\ muStart \in [Threads -> Nat]
  /\ clean \in [Addrs -> BOOLEAN]
  \* The Reset and MemoryUsage loops run under the instance's threads_mutex_.
  /\ \A t \in Threads :
       pc[t] \in {"rs_loop", "mu_loop"} => mutex[opAddr[t]] = t

\* Every byte handed out by Allocate sits in an Arena of some live
\* instance's all_arenas_, so Reset, MemoryUsage and the destructor reach
\* it (GetArena publishes a new Arena before the first bump).
BytesTracked ==
  \A x \in ArenaIds :
    arenaState[x] = "live" /\ used[x] > 0 =>
      \E a \in Addrs : live[a] /\ x \in allArenas[a]

\* When the MemoryUsage loop has visited every Arena, its total lies
\* between the instance's usage when the lock was taken and its usage now:
\* threads_mutex_ keeps Reset out, so concurrent lock-free bumps can only
\* add to what the loop reads.
UsageWithinBounds ==
  \A t \in Threads :
    pc[t] = "mu_loop" /\ todo[t] = {} =>
      muStart[t] <= acc[t] /\ acc[t] <= Usage(opAddr[t])

\* A MemoryUsage call that runs after a Reset, with no Allocate on the
\* instance since that Reset began, returns 0 (spec: after reset every
\* owned Arena reports zero).
ResetThenUsageZero ==
  \A t \in Threads :
    pc[t] = "mu_loop" /\ todo[t] = {} /\ clean[opAddr[t]] => acc[t] = 0

\* The Arena a thread's slot hands back for a live instance is a live Arena
\* of that very instance (or the one GetArena is about to publish): an
\* Allocate never bumps a deleted Arena or another instance's Arena.
SlotOwnedByInstance ==
  \A t \in Threads, a \in Addrs :
    live[a] /\ tls[t, a] # NULL =>
      /\ arenaState[tls[t, a]] = "live"
      /\ \/ tls[t, a] \in allArenas[a]
         \/ pc[t] = "ga_push" /\ opAddr[t] = a
\* threads_mutex_ is always released: a Reset or MemoryUsage that took it
\* returns and unlocks, so GetArena's publication of a new Arena and the
\* other loops are never blocked for good.
MutexReleased ==
  \A a \in Addrs : mutex[a] # NoOwner ~> mutex[a] = NoOwner
=============================================================================
