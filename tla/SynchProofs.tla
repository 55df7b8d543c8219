---------------------------- MODULE SynchProofs ----------------------------
(***************************************************************************)
(* Proofs about module Synch, for any set of threads, locks, conditions    *)
(* and semaphores, and about module Interrupts, for any threads and lines. *)
(***************************************************************************)
EXTENDS Synch, Interrupts, TLAPS, FiniteSetTheorems

\* What the place of t in the code says of its other locals: which kind of
\* semaphore it works on and which operation it is inside.
CallInvOf(t) ==
    /\ pc[t] \in {"down", "loop"} => sema[t] \in Semas \union Locks \union {t}
    /\ pc[t] \in {"down", "loop"} /\ sema[t] \in Semas => op[t] = "none"
    /\ pc[t] \in {"down", "loop", "holder", "release"} => op[t] \in {"none", "wait",
       "create"}
    /\ pc[t] \in {"holder", "release"} => sema[t] \in Locks
    /\ pc[t] = "up" => sema[t] \in Locks \union Threads
    /\ pc[t] \in {"release", "up"} => sema[t] \notin held[t]
    /\ pc[t] \in {"alloc", "incr"} => TidLock \in held[t]
    /\ pc[t] \in {"alloc", "incr", "unblock"} => op[t] = "create"
    /\ pc[t] = "bcast" => op[t] = "broadcast"
    /\ pc[t] \in {"down", "loop"} /\ sema[t] = t => op[t] = "wait"
    /\ pc[t] = "run" => op[t] = "none"
    /\ op[t] = "create" => obj[t] \in Threads
    /\ op[t] = "create" /\ pc[t] \in {"down", "loop", "holder", "release", "up"}
          => sema[t] = TidLock
    /\ op[t] \in {"wait", "signal", "broadcast"} => obj[t] \in Conds

CallInv == \A t \in Threads : CallInvOf(t)

LockInv == TypeOK /\ CallInv /\ MutualExclusion /\ HolderIsOwner

-----------------------------------------------------------------------------
(* The scheduler keeps its types.                                          *)

\* schedule() leaves a well-typed scheduler when called with a well-typed one.
LEMMA ScheduleType ==
    ASSUME SchedulerTypeOK, NEW rl \in Seq(Threads), NEW st \in [Threads -> Status],
           Schedule(rl, st)
    PROVE  SchedulerTypeOK'
<1>1. NextThreadToRun(rl) \in Threads \union {NULL}
  BY ThreadsAssumption DEF NextThreadToRun, SchedulerTypeOK
<1>2. PopFront(rl) \in Seq(Threads)
  BY DEF PopFront
<1>3. ScheduleTail(current, NextThreadToRun(rl), st) \in [Threads -> Status]
  BY DEF ScheduleTail, Status
<1> QED
  BY <1>1, <1>2, <1>3, TimeSliceAssumption DEF Schedule, SchedulerTypeOK

\* thread_yield() keeps the scheduler well typed.
LEMMA YieldType ==
    ASSUME SchedulerTypeOK, current \in Threads, ThreadYield
    PROVE  SchedulerTypeOK'
<1>1. YieldedList \in Seq(Threads)
  BY DEF YieldedList, SchedulerTypeOK
<1>2. [status EXCEPT ![current] = "READY"] \in [Threads -> Status]
  BY DEF SchedulerTypeOK, Status
<1> QED
  BY <1>1, <1>2, ScheduleType DEF ThreadYield

\* thread_tick() keeps the scheduler well typed.
LEMMA TickType ==
    ASSUME SchedulerTypeOK, current \in Threads, ThreadTick
    PROVE  SchedulerTypeOK'
<1>1. CASE ThreadYield
  BY <1>1, YieldType
<1>2. CASE /\ thread_ticks + 1 < TIME_SLICE
           /\ thread_ticks' = thread_ticks + 1
           /\ UNCHANGED <<current, status, ready_list, idle_thread>>
  BY <1>2, TimeSliceAssumption DEF SchedulerTypeOK
<1> QED
  BY <1>1, <1>2 DEF ThreadTick

\* sema_up() leaves well-typed lists and statuses.
LEMMA UppedType ==
    ASSUME TypeOK, NEW s \in SemaIds
    PROVE  /\ UppedList(s) \in Seq(Threads)
           /\ UppedStatus(s) \in [Threads -> Status]
           /\ PopFront(waiters[s]) \in Seq(Threads)
<1>1. waiters[s] \in Seq(Threads) /\ ready_list \in Seq(Threads)
      /\ status \in [Threads -> Status]
  BY DEF TypeOK, SchedulerTypeOK
<1>2. CASE waiters[s] = <<>>
  BY <1>1, <1>2 DEF UppedList, UppedStatus, PopFront
<1>3. CASE waiters[s] # <<>>
  <2>1. Head(waiters[s]) \in Threads /\ Tail(waiters[s]) \in Seq(Threads)
    BY <1>1, <1>3
  <2> QED
    BY <1>1, <1>3, <2>1
    DEF UppedList, UppedStatus, PopFront, UnblockedList, UnblockedStatus, Status
<1> QED
  BY <1>2, <1>3

\* sema_up() as a step of its own keeps the types it touches.
LEMMA SemaUpType ==
    ASSUME TypeOK, NEW s \in SemaIds, SemaUp(s)
    PROVE  /\ SchedulerTypeOK'
           /\ (value \in [SemaIds -> Nat])'
           /\ (waiters \in [SemaIds -> Seq(Threads)])'
<1>1. SchedulerTypeOK'
  BY UppedType DEF SemaUp, TypeOK, SchedulerTypeOK
<1>2. (value \in [SemaIds -> Nat])'
  BY DEF SemaUp, Upped, TypeOK
<1>3. (waiters \in [SemaIds -> Seq(Threads)])'
  BY UppedType DEF SemaUp, Upped, TypeOK
<1> QED
  BY <1>1, <1>2, <1>3

\* thread_block() keeps the scheduler well typed.
LEMMA BlockType ==
    ASSUME TypeOK, current \in Threads, ThreadBlock(ready_list, status)
    PROVE  SchedulerTypeOK'
<1>1. [status EXCEPT ![current] = "BLOCKED"] \in [Threads -> Status]
  BY DEF TypeOK, SchedulerTypeOK, Status
<1> QED
  BY <1>1, ScheduleType DEF ThreadBlock, TypeOK, SchedulerTypeOK

-----------------------------------------------------------------------------
(* What a step of t means for the invariant, in terms of what t owns.      *)

\* u's locals do not change.
Same(u) == /\ pc'[u] = pc[u] /\ sema'[u] = sema[u] /\ op'[u] = op[u]
           /\ obj'[u] = obj[u] /\ held'[u] = held[u]
OthersSame(t) == \A u \in Threads : u # t => Same(u)

\* A step of t that leaves the other threads' locals alone keeps CallInv if t's
\* part of it holds again.
LEMMA KeepCalls ==
    ASSUME CallInv, NEW t \in Threads, OthersSame(t), CallInvOf(t)'
    PROVE  CallInv'
<1> SUFFICES ASSUME NEW u \in Threads, u # t PROVE CallInvOf(u)'
  BY DEF CallInv
<1> QED
  BY DEF CallInv, CallInvOf, OthersSame, Same, SemaIds

\* A step of t changes nobody else's ownership.
LEMMA OthersOwn ==
    ASSUME NEW t \in Threads, OthersSame(t)
    PROVE  \A u \in Threads, l \in Locks : u # t =>
              (Owns(u, l)' <=> Owns(u, l)) /\ (Holds(u, l)' <=> Holds(u, l))
BY DEF OthersSame, Same, Owns, Holds

\* Mutual exclusion survives a step that changes no lock's owner or value.
LEMMA KeepOwners ==
    ASSUME MutualExclusion, NEW t \in Threads, OthersSame(t),
           \A l \in Locks : value'[l] = value[l],
           \A l \in Locks : Owns(t, l)' <=> Owns(t, l)
    PROVE  MutualExclusion'
<1>1. \A u \in Threads, l \in Locks : Owns(u, l)' <=> Owns(u, l)
  BY OthersOwn
<1> QED
  BY <1>1 DEF MutualExclusion

\* It survives t taking a lock whose semaphore is positive.
LEMMA GainOwner ==
    ASSUME MutualExclusion, NEW t \in Threads, OthersSame(t), NEW k \in Locks,
           value \in [SemaIds -> Nat], value[k] > 0,
           value' = [value EXCEPT ![k] = @ - 1],
           \A l \in Locks : Owns(t, l)' <=> (Owns(t, l) \/ l = k)
    PROVE  MutualExclusion'
<1>1. k \in SemaIds /\ Locks \subseteq SemaIds
  BY DEF SemaIds
<1>2. value[k] = 1 /\ \A u \in Threads : ~ Owns(u, k)
  <2>1. value[k] \in Nat
    BY <1>1
  <2> QED
    BY <2>1 DEF MutualExclusion
<1>3. value'[k] = 0 /\ \A l \in Locks : l # k => value'[l] = value[l]
  BY <1>1, <1>2
<1>4. \A l \in Locks, u \in Threads : l # k => (Owns(u, l)' <=> Owns(u, l))
  BY OthersOwn
<1>5. \A u \in Threads : Owns(u, k)' <=> u = t
  BY <1>2, OthersOwn
<1> SUFFICES ASSUME NEW l \in Locks
             PROVE  /\ value'[l] = IF \E u \in Threads : Owns(u, l)' THEN 0 ELSE 1
                    /\ \A u, v \in Threads : Owns(u, l)' /\ Owns(v, l)' => u = v
  BY DEF MutualExclusion
<1>6. CASE l = k
  BY <1>3, <1>5, <1>6
<1>7. CASE l # k
  BY <1>3, <1>4, <1>7 DEF MutualExclusion
<1> QED
  BY <1>6, <1>7

\* It survives t giving up a lock it owns.
LEMMA LoseOwner ==
    ASSUME MutualExclusion, NEW t \in Threads, OthersSame(t), NEW k \in Locks,
           value \in [SemaIds -> Nat], Owns(t, k),
           value' = [value EXCEPT ![k] = @ + 1],
           \A l \in Locks : Owns(t, l)' <=> (Owns(t, l) /\ l # k)
    PROVE  MutualExclusion'
<1>1. k \in SemaIds /\ Locks \subseteq SemaIds
  BY DEF SemaIds
<1>2. value[k] = 0 /\ \A u \in Threads : Owns(u, k) => u = t
  BY DEF MutualExclusion
<1>3. value'[k] = 1 /\ \A l \in Locks : l # k => value'[l] = value[l]
  BY <1>1, <1>2
<1>4. \A l \in Locks, u \in Threads : l # k => (Owns(u, l)' <=> Owns(u, l))
  BY OthersOwn
<1>5. \A u \in Threads : ~ Owns(u, k)'
  BY <1>2, OthersOwn
<1> SUFFICES ASSUME NEW l \in Locks
             PROVE  /\ value'[l] = IF \E u \in Threads : Owns(u, l)' THEN 0 ELSE 1
                    /\ \A u, v \in Threads : Owns(u, l)' /\ Owns(v, l)' => u = v
  BY DEF MutualExclusion
<1>6. CASE l = k
  BY <1>3, <1>5, <1>6
<1>7. CASE l # k
  BY <1>3, <1>4, <1>7 DEF MutualExclusion
<1> QED
  BY <1>6, <1>7

\* lock->holder keeps telling the truth in a step that does not write it and
\* does not change what t holds.
LEMMA KeepHolder ==
    ASSUME HolderIsOwner, NEW t \in Threads, OthersSame(t), holder' = holder,
           \A l \in Locks : Holds(t, l)' <=> Holds(t, l)
    PROVE  HolderIsOwner'
<1>1. \A u \in Threads, l \in Locks : Holds(u, l)' <=> Holds(u, l)
  BY OthersOwn
<1> QED
  BY <1>1 DEF HolderIsOwner

-----------------------------------------------------------------------------
(* One lemma per action. In each, <1>3 to <1>4 say what happens to the  *)
(* locals, <1>5 to <1>7 what that means for the three invariants.          *)

\* A caller enters sema_down().
LEMMA CallSemaDownStep ==
    ASSUME LockInv, NEW t \in Threads, NEW s \in Semas, CallSemaDown(t, s)
    PROVE  LockInv'
<1>1. pc[t] = "run" /\ held[t] \subseteq Locks
  BY SemaAssumption DEF LockInv, TypeOK, CallInv, CallInvOf, CallSemaDown, Calling,
     At, SemaIds
<1>2. TypeOK'
  <2>1. pc' \in [Threads -> PCs]
    BY <1>1 DEF LockInv, TypeOK, CallSemaDown, Calling, PCs
  <2>2. sema' \in [Threads -> SemaIds \union {NULL}]
    BY <1>1, SemaAssumption DEF LockInv, TypeOK, CallSemaDown, Calling, SemaIds
  <2> QED
    BY <2>1, <2>2 DEF LockInv, TypeOK, SchedulerTypeOK, CallSemaDown, Calling,
       schedulerVars, semaVars, lockVars, callVars, tidVars
<1>3. OthersSame(t)
  BY DEF LockInv, TypeOK, CallSemaDown, Calling, OthersSame, Same, lockVars, callVars
<1>4. /\ pc'[t] = "down"
      /\ sema'[t] = s
      /\ op'[t] = op[t]
      /\ obj'[t] = obj[t]
      /\ held'[t] = held[t]
  BY <1>1, SemaAssumption DEF LockInv, TypeOK, CallSemaDown, Calling, lockVars, callVars
<1>5. CallInvOf(t)'
  BY <1>1, <1>4, SemaAssumption DEF LockInv, CallInv, CallInvOf, TypeOK
<1>6. MutualExclusion'
  <2>1. \A k \in Locks : value'[k] = value[k]
    BY SemaAssumption DEF LockInv, TypeOK, SemaIds, CallSemaDown, Calling, semaVars
  <2>2. \A k \in Locks : Owns(t, k)' <=> Owns(t, k)
    BY <1>1, <1>4, SemaAssumption DEF Owns, LockInv, CallInv, CallInvOf
  <2> QED
    BY <1>3, <2>1, <2>2, KeepOwners DEF LockInv
<1>7. HolderIsOwner'
  <2>1. holder' = holder
    BY DEF CallSemaDown, Calling, lockVars
  <2>2. \A k \in Locks : Holds(t, k)' <=> Holds(t, k)
    BY <1>1, <1>4 DEF Holds, LockInv, CallInv, CallInvOf
  <2> QED
    BY <1>3, <2>1, <2>2, KeepHolder DEF LockInv
<1> QED
  BY <1>2, <1>3, <1>5, <1>6, <1>7, KeepCalls DEF LockInv

\* sema_try_down() on a semaphore that is not a lock.
LEMMA SemaTryDownStep ==
    ASSUME LockInv, NEW t \in Threads, NEW s \in Semas, SemaTryDown(t, s)
    PROVE  LockInv'
<1>1. pc[t] = "run" /\ held[t] \subseteq Locks
  BY SemaAssumption DEF LockInv, TypeOK, CallInv, CallInvOf, SemaTryDown, Calling, At,
     SemaIds
<1>2. TypeOK'
  <2>1. value' \in [SemaIds -> Nat]
    BY <1>1 DEF LockInv, TypeOK, SemaTryDown, Calling, SemaIds
  <2> QED
    BY <2>1 DEF LockInv, TypeOK, SchedulerTypeOK, SemaTryDown, Calling, schedulerVars,
       semaVars, lockVars, callVars, tidVars
<1>3. OthersSame(t)
  BY DEF LockInv, TypeOK, SemaTryDown, Calling, OthersSame, Same, lockVars, callVars
<1>4. /\ pc'[t] = pc[t]
      /\ sema'[t] = sema[t]
      /\ op'[t] = op[t]
      /\ obj'[t] = obj[t]
      /\ held'[t] = held[t]
  BY <1>1, SemaAssumption DEF LockInv, TypeOK, SemaTryDown, Calling, lockVars, callVars
<1>5. CallInvOf(t)'
  BY <1>1, <1>4, SemaAssumption DEF LockInv, CallInv, CallInvOf, TypeOK
<1>6. MutualExclusion'
  <2>1. \A k \in Locks : value'[k] = value[k]
    BY SemaAssumption DEF LockInv, TypeOK, SemaIds, SemaTryDown, Calling, semaVars
  <2>2. \A k \in Locks : Owns(t, k)' <=> Owns(t, k)
    BY <1>1, <1>4, SemaAssumption DEF Owns, LockInv, CallInv, CallInvOf
  <2> QED
    BY <1>3, <2>1, <2>2, KeepOwners DEF LockInv
<1>7. HolderIsOwner'
  <2>1. holder' = holder
    BY DEF SemaTryDown, Calling, lockVars
  <2>2. \A k \in Locks : Holds(t, k)' <=> Holds(t, k)
    BY <1>1, <1>4 DEF Holds, LockInv, CallInv, CallInvOf
  <2> QED
    BY <1>3, <2>1, <2>2, KeepHolder DEF LockInv
<1> QED
  BY <1>2, <1>3, <1>5, <1>6, <1>7, KeepCalls DEF LockInv

\* sema_up() on a semaphore that is not a lock.
LEMMA CallSemaUpStep ==
    ASSUME LockInv, NEW t \in Threads, NEW s \in Semas, CallSemaUp(t, s)
    PROVE  LockInv'
<1>1. pc[t] = "run" /\ held[t] \subseteq Locks
  BY SemaAssumption DEF LockInv, TypeOK, CallInv, CallInvOf, CallSemaUp, Calling, At,
     SemaIds
<1>2. TypeOK'
  <2>1. SchedulerTypeOK'
    BY SemaUpType DEF LockInv, CallSemaUp, SemaIds
  <2>2. value' \in [SemaIds -> Nat]
    BY SemaUpType DEF LockInv, CallSemaUp, SemaIds
  <2>3. waiters' \in [SemaIds -> Seq(Threads)]
    BY SemaUpType DEF LockInv, CallSemaUp, SemaIds
  <2> QED
    BY <2>1, <2>2, <2>3 DEF LockInv, TypeOK, SchedulerTypeOK, CallSemaUp, Calling,
       schedulerVars, semaVars, lockVars, callVars, tidVars
<1>3. OthersSame(t)
  BY DEF LockInv, TypeOK, CallSemaUp, Calling, OthersSame, Same, lockVars, callVars
<1>4. /\ pc'[t] = pc[t]
      /\ sema'[t] = sema[t]
      /\ op'[t] = op[t]
      /\ obj'[t] = obj[t]
      /\ held'[t] = held[t]
  BY <1>1, SemaAssumption DEF LockInv, TypeOK, CallSemaUp, Calling, lockVars, callVars
<1>5. CallInvOf(t)'
  BY <1>1, <1>4, SemaAssumption DEF LockInv, CallInv, CallInvOf, TypeOK
<1>6. MutualExclusion'
  <2>1. \A k \in Locks : value'[k] = value[k]
    BY SemaAssumption DEF LockInv, TypeOK, SemaIds, CallSemaUp, Calling, SemaUp,
       Upped, semaVars
  <2>2. \A k \in Locks : Owns(t, k)' <=> Owns(t, k)
    BY <1>1, <1>4, SemaAssumption DEF Owns, LockInv, CallInv, CallInvOf
  <2> QED
    BY <1>3, <2>1, <2>2, KeepOwners DEF LockInv
<1>7. HolderIsOwner'
  <2>1. holder' = holder
    BY DEF CallSemaUp, Calling, lockVars
  <2>2. \A k \in Locks : Holds(t, k)' <=> Holds(t, k)
    BY <1>1, <1>4 DEF Holds, LockInv, CallInv, CallInvOf
  <2> QED
    BY <1>3, <2>1, <2>2, KeepHolder DEF LockInv
<1> QED
  BY <1>2, <1>3, <1>5, <1>6, <1>7, KeepCalls DEF LockInv

\* A caller enters lock_acquire().
LEMMA LockAcquireStep ==
    ASSUME LockInv, NEW t \in Threads, NEW l \in Locks, LockAcquire(t, l)
    PROVE  LockInv'
<1>1. pc[t] = "run" /\ held[t] \subseteq Locks
  BY SemaAssumption DEF LockInv, TypeOK, CallInv, CallInvOf, LockAcquire, Calling, At,
     SemaIds
<1>2. TypeOK'
  <2>1. pc' \in [Threads -> PCs]
    BY <1>1 DEF LockInv, TypeOK, LockAcquire, Calling, PCs
  <2>2. sema' \in [Threads -> SemaIds \union {NULL}]
    BY <1>1, SemaAssumption DEF LockInv, TypeOK, LockAcquire, Calling, SemaIds
  <2> QED
    BY <2>1, <2>2 DEF LockInv, TypeOK, SchedulerTypeOK, LockAcquire, Calling,
       schedulerVars, semaVars, lockVars, callVars, tidVars
<1>3. OthersSame(t)
  BY DEF LockInv, TypeOK, LockAcquire, Calling, OthersSame, Same, lockVars, callVars
<1>4. /\ pc'[t] = "down"
      /\ sema'[t] = l
      /\ op'[t] = op[t]
      /\ obj'[t] = obj[t]
      /\ held'[t] = held[t]
  BY <1>1, SemaAssumption DEF LockInv, TypeOK, LockAcquire, Calling, lockVars, callVars
<1>5. CallInvOf(t)'
  BY <1>1, <1>4, SemaAssumption DEF LockInv, CallInv, CallInvOf, TypeOK
<1>6. MutualExclusion'
  <2>1. \A k \in Locks : value'[k] = value[k]
    BY SemaAssumption DEF LockInv, TypeOK, SemaIds, LockAcquire, Calling, semaVars
  <2>2. \A k \in Locks : Owns(t, k)' <=> Owns(t, k)
    BY <1>1, <1>4, SemaAssumption DEF Owns, LockInv, CallInv, CallInvOf
  <2> QED
    BY <1>3, <2>1, <2>2, KeepOwners DEF LockInv
<1>7. HolderIsOwner'
  <2>1. holder' = holder
    BY DEF LockAcquire, Calling, lockVars
  <2>2. \A k \in Locks : Holds(t, k)' <=> Holds(t, k)
    BY <1>1, <1>4 DEF Holds, LockInv, CallInv, CallInvOf
  <2> QED
    BY <1>3, <2>1, <2>2, KeepHolder DEF LockInv
<1> QED
  BY <1>2, <1>3, <1>5, <1>6, <1>7, KeepCalls DEF LockInv

\* lock_try_acquire(): t becomes the owner.
LEMMA LockTryAcquireStep ==
    ASSUME LockInv, NEW t \in Threads, NEW l \in Locks, LockTryAcquire(t, l)
    PROVE  LockInv'
<1>1. pc[t] = "run" /\ held[t] \subseteq Locks
  BY SemaAssumption DEF LockInv, TypeOK, CallInv, CallInvOf, LockTryAcquire, Calling,
     At, SemaIds
<1>2. TypeOK'
  <2>1. value' \in [SemaIds -> Nat]
    BY <1>1 DEF LockInv, TypeOK, LockTryAcquire, Calling, SemaIds
  <2>2. pc' \in [Threads -> PCs]
    BY <1>1 DEF LockInv, TypeOK, LockTryAcquire, Calling, PCs
  <2>3. sema' \in [Threads -> SemaIds \union {NULL}]
    BY <1>1, SemaAssumption DEF LockInv, TypeOK, LockTryAcquire, Calling, SemaIds
  <2> QED
    BY <2>1, <2>2, <2>3 DEF LockInv, TypeOK, SchedulerTypeOK, LockTryAcquire, Calling,
       schedulerVars, semaVars, lockVars, callVars, tidVars
<1>3. OthersSame(t)
  BY DEF LockInv, TypeOK, LockTryAcquire, Calling, OthersSame, Same, lockVars, callVars
<1>4. /\ pc'[t] = "holder"
      /\ sema'[t] = l
      /\ op'[t] = op[t]
      /\ obj'[t] = obj[t]
      /\ held'[t] = held[t]
  BY <1>1, SemaAssumption DEF LockInv, TypeOK, LockTryAcquire, Calling, lockVars,
     callVars
<1>5. CallInvOf(t)'
  BY <1>1, <1>4, SemaAssumption DEF LockInv, CallInv, CallInvOf, TypeOK
<1>6. MutualExclusion'
  <2>1. value[l] > 0 /\ value' = [value EXCEPT ![l] = @ - 1]
    BY DEF LockTryAcquire
  <2>2. \A k \in Locks : Owns(t, k)' <=> (Owns(t, k) \/ k = l)
    BY <1>1, <1>4 DEF Owns
  <2> QED
    BY <1>3, <2>1, <2>2, GainOwner DEF LockInv, TypeOK
<1>7. HolderIsOwner'
  <2>1. holder' = holder
    BY DEF LockTryAcquire, Calling, lockVars
  <2>2. \A k \in Locks : Holds(t, k)' <=> Holds(t, k)
    BY <1>1, <1>4 DEF Holds, LockInv, CallInv, CallInvOf
  <2> QED
    BY <1>3, <2>1, <2>2, KeepHolder DEF LockInv
<1> QED
  BY <1>2, <1>3, <1>5, <1>6, <1>7, KeepCalls DEF LockInv

\* A caller enters lock_release().
LEMMA LockReleaseStep ==
    ASSUME LockInv, NEW t \in Threads, NEW l \in Locks, LockRelease(t, l)
    PROVE  LockInv'
<1>1. pc[t] = "run" /\ l \in held[t] /\ held[t] \subseteq Locks
  BY SemaAssumption DEF LockInv, TypeOK, CallInv, CallInvOf, LockRelease, Calling, At,
     SemaIds
<1>2. TypeOK'
  <2>1. held' \in [Threads -> SUBSET Locks]
    BY <1>1, SemaAssumption DEF LockInv, TypeOK, LockRelease, Calling
  <2>2. pc' \in [Threads -> PCs]
    BY <1>1 DEF LockInv, TypeOK, LockRelease, Calling, PCs
  <2>3. sema' \in [Threads -> SemaIds \union {NULL}]
    BY <1>1, SemaAssumption DEF LockInv, TypeOK, LockRelease, Calling, SemaIds
  <2> QED
    BY <2>1, <2>2, <2>3 DEF LockInv, TypeOK, SchedulerTypeOK, LockRelease, Calling,
       schedulerVars, semaVars, lockVars, callVars, tidVars
<1>3. OthersSame(t)
  BY DEF LockInv, TypeOK, LockRelease, Calling, OthersSame, Same, lockVars, callVars
<1>4. /\ pc'[t] = "release"
      /\ sema'[t] = l
      /\ held'[t] = held[t] \ {l}
      /\ op'[t] = op[t]
      /\ obj'[t] = obj[t]
  BY <1>1, SemaAssumption DEF LockInv, TypeOK, LockRelease, Calling, lockVars, callVars
<1>5. CallInvOf(t)'
  BY <1>1, <1>4, SemaAssumption DEF LockInv, CallInv, CallInvOf, TypeOK
<1>6. MutualExclusion'
  <2>1. \A k \in Locks : value'[k] = value[k]
    BY SemaAssumption DEF LockInv, TypeOK, SemaIds, LockRelease, Calling, semaVars
  <2>2. \A k \in Locks : Owns(t, k)' <=> Owns(t, k)
    BY <1>1, <1>4, SemaAssumption DEF Owns, LockInv, CallInv, CallInvOf
  <2> QED
    BY <1>3, <2>1, <2>2, KeepOwners DEF LockInv
<1>7. HolderIsOwner'
  <2>1. holder' = holder
    BY DEF LockRelease, Calling, lockVars
  <2>2. \A k \in Locks : Holds(t, k)' <=> Holds(t, k)
    BY <1>1, <1>4 DEF Holds, LockInv, CallInv, CallInvOf
  <2> QED
    BY <1>3, <2>1, <2>2, KeepHolder DEF LockInv
<1> QED
  BY <1>2, <1>3, <1>5, <1>6, <1>7, KeepCalls DEF LockInv

\* A caller enters cond_wait().
LEMMA CondWaitStep ==
    ASSUME LockInv, NEW t \in Threads, NEW c \in Conds, CondWait(t, c)
    PROVE  LockInv'
<1>1. /\ pc[t] = "run"
      /\ CondLock[c] \in held[t]
      /\ CondLock[c] \in Locks \ {TidLock}
      /\ held[t] \subseteq Locks
  <2>1. pc[t] = "run" /\ CondLock[c] \in held[t]  BY DEF CondWait, Calling, At
  <2>2. CondLock[c] \in Locks \ {TidLock}  BY SemaAssumption
  <2>3. held[t] \subseteq Locks  BY DEF LockInv, TypeOK
  <2> QED BY <2>1, <2>2, <2>3
<1>2. TypeOK'
  <2>1. value' \in [SemaIds -> Nat]
    BY <1>1 DEF LockInv, TypeOK, CondWait, Calling, SemaIds
  <2>2. waiters' \in [SemaIds -> Seq(Threads)]
    BY <1>1 DEF LockInv, TypeOK, CondWait, Calling, SemaIds
  <2>3. cond_waiters' \in [Conds -> Seq(Threads)]
    BY <1>1 DEF LockInv, TypeOK, CondWait, Calling
  <2>4. held' \in [Threads -> SUBSET Locks]
    BY <1>1, SemaAssumption DEF LockInv, TypeOK, CondWait, Calling
  <2>5. pc' \in [Threads -> PCs]
    BY <1>1 DEF LockInv, TypeOK, CondWait, Calling, PCs
  <2>6. sema' \in [Threads -> SemaIds \union {NULL}]
    BY <1>1, SemaAssumption DEF LockInv, TypeOK, CondWait, Calling, SemaIds
  <2>7. op' \in [Threads -> {"none", "create", "wait", "signal", "broadcast"}]
    BY <1>1 DEF LockInv, TypeOK, CondWait, Calling
  <2>8. obj' \in [Threads -> Threads \union Conds \union {NULL}]
    BY <1>1 DEF LockInv, TypeOK, CondWait, Calling
  <2> QED
    BY <2>1, <2>2, <2>3, <2>4, <2>5, <2>6, <2>7, <2>8 DEF LockInv, TypeOK,
       SchedulerTypeOK, CondWait, Calling, schedulerVars, semaVars, lockVars, callVars,
       tidVars
<1>3. OthersSame(t)
  BY DEF LockInv, TypeOK, CondWait, Calling, OthersSame, Same, lockVars, callVars
<1>4. /\ pc'[t] = "release"
      /\ sema'[t] = CondLock[c]
      /\ held'[t] = held[t] \ {CondLock[c]}
      /\ op'[t] = "wait"
      /\ obj'[t] = c
  BY <1>1, SemaAssumption DEF LockInv, TypeOK, CondWait, Calling, lockVars, callVars
<1>5. CallInvOf(t)'
  BY <1>1, <1>4, SemaAssumption DEF LockInv, CallInv, CallInvOf, TypeOK
<1>6. MutualExclusion'
  <2>1. \A k \in Locks : value'[k] = value[k]
    BY SemaAssumption DEF LockInv, TypeOK, SemaIds, CondWait, Calling, semaVars
  <2>2. \A k \in Locks : Owns(t, k)' <=> Owns(t, k)
    BY <1>1, <1>4, SemaAssumption DEF Owns, LockInv, CallInv, CallInvOf
  <2> QED
    BY <1>3, <2>1, <2>2, KeepOwners DEF LockInv
<1>7. HolderIsOwner'
  <2>1. holder' = holder
    BY DEF CondWait, Calling, lockVars
  <2>2. \A k \in Locks : Holds(t, k)' <=> Holds(t, k)
    BY <1>1, <1>4 DEF Holds, LockInv, CallInv, CallInvOf
  <2> QED
    BY <1>3, <2>1, <2>2, KeepHolder DEF LockInv
<1> QED
  BY <1>2, <1>3, <1>5, <1>6, <1>7, KeepCalls DEF LockInv

\* cond_signal() pops a waiter.
LEMMA CondSignalStep ==
    ASSUME LockInv, NEW t \in Threads, NEW c \in Conds, CondSignal(t, c)
    PROVE  LockInv'
<1>0. cond_waiters[c] \in Seq(Threads) /\ cond_waiters[c] # <<>>
  BY DEF LockInv, CallInv, CallInvOf, TypeOK, At, SignalPops, CondSignal
<1>p. Head(cond_waiters[c]) \in Threads /\ Tail(cond_waiters[c]) \in Seq(Threads)
  BY <1>0
<1>1. pc[t] = "run" /\ Head(cond_waiters[c]) \in Threads /\ held[t] \subseteq Locks
  BY SemaAssumption, <1>p DEF LockInv, TypeOK, CallInv, CallInvOf, CondSignal,
     Calling, SignalPops, At, SemaIds
<1>2. TypeOK'
  <2>1. cond_waiters' \in [Conds -> Seq(Threads)]
    BY <1>1, <1>p DEF LockInv, TypeOK, CondSignal, Calling, SignalPops
  <2>2. pc' \in [Threads -> PCs]
    BY <1>1, <1>p DEF LockInv, TypeOK, CondSignal, Calling, SignalPops, PCs
  <2>3. sema' \in [Threads -> SemaIds \union {NULL}]
    BY <1>1, <1>p, SemaAssumption DEF LockInv, TypeOK, CondSignal, Calling,
       SignalPops, SemaIds
  <2>4. op' \in [Threads -> {"none", "create", "wait", "signal", "broadcast"}]
    BY <1>1, <1>p DEF LockInv, TypeOK, CondSignal, Calling, SignalPops
  <2>5. obj' \in [Threads -> Threads \union Conds \union {NULL}]
    BY <1>1, <1>p DEF LockInv, TypeOK, CondSignal, Calling, SignalPops
  <2> QED
    BY <2>1, <2>2, <2>3, <2>4, <2>5 DEF LockInv, TypeOK, SchedulerTypeOK, CondSignal,
       Calling, SignalPops, schedulerVars, semaVars, lockVars, callVars, tidVars
<1>3. OthersSame(t)
  BY DEF LockInv, TypeOK, CondSignal, Calling, SignalPops, OthersSame, Same, lockVars,
     callVars
<1>4. /\ pc'[t] = "up"
      /\ sema'[t] = Head(cond_waiters[c])
      /\ op'[t] = "signal"
      /\ obj'[t] = c
      /\ held'[t] = held[t]
  BY <1>1, SemaAssumption DEF LockInv, TypeOK, CondSignal, Calling, SignalPops,
     lockVars, callVars
<1>5. CallInvOf(t)'
  BY <1>1, <1>4, SemaAssumption DEF LockInv, CallInv, CallInvOf, TypeOK
<1>6. MutualExclusion'
  <2>1. \A k \in Locks : value'[k] = value[k]
    BY SemaAssumption DEF LockInv, TypeOK, SemaIds, CondSignal, Calling, SignalPops,
       semaVars
  <2>2. \A k \in Locks : Owns(t, k)' <=> Owns(t, k)
    BY <1>1, <1>4, SemaAssumption DEF Owns, LockInv, CallInv, CallInvOf
  <2> QED
    BY <1>3, <2>1, <2>2, KeepOwners DEF LockInv
<1>7. HolderIsOwner'
  <2>1. holder' = holder
    BY DEF CondSignal, Calling, SignalPops, lockVars
  <2>2. \A k \in Locks : Holds(t, k)' <=> Holds(t, k)
    BY <1>1, <1>4 DEF Holds, LockInv, CallInv, CallInvOf
  <2> QED
    BY <1>3, <2>1, <2>2, KeepHolder DEF LockInv
<1> QED
  BY <1>2, <1>3, <1>5, <1>6, <1>7, KeepCalls DEF LockInv

\* A caller enters cond_broadcast().
LEMMA CondBroadcastStep ==
    ASSUME LockInv, NEW t \in Threads, NEW c \in Conds, CondBroadcast(t, c)
    PROVE  LockInv'
<1>1. pc[t] = "run" /\ held[t] \subseteq Locks
  BY SemaAssumption DEF LockInv, TypeOK, CallInv, CallInvOf, CondBroadcast, Calling,
     At, SemaIds
<1>2. TypeOK'
  <2>1. pc' \in [Threads -> PCs]
    BY <1>1 DEF LockInv, TypeOK, CondBroadcast, Calling, PCs
  <2>2. op' \in [Threads -> {"none", "create", "wait", "signal", "broadcast"}]
    BY <1>1 DEF LockInv, TypeOK, CondBroadcast, Calling
  <2>3. obj' \in [Threads -> Threads \union Conds \union {NULL}]
    BY <1>1 DEF LockInv, TypeOK, CondBroadcast, Calling
  <2> QED
    BY <2>1, <2>2, <2>3 DEF LockInv, TypeOK, SchedulerTypeOK, CondBroadcast, Calling,
       schedulerVars, semaVars, lockVars, callVars, tidVars
<1>3. OthersSame(t)
  BY DEF LockInv, TypeOK, CondBroadcast, Calling, OthersSame, Same, lockVars, callVars
<1>4. /\ pc'[t] = "bcast"
      /\ op'[t] = "broadcast"
      /\ obj'[t] = c
      /\ sema'[t] = sema[t]
      /\ held'[t] = held[t]
  BY <1>1, SemaAssumption DEF LockInv, TypeOK, CondBroadcast, Calling, lockVars,
     callVars
<1>5. CallInvOf(t)'
  BY <1>1, <1>4, SemaAssumption DEF LockInv, CallInv, CallInvOf, TypeOK
<1>6. MutualExclusion'
  <2>1. \A k \in Locks : value'[k] = value[k]
    BY SemaAssumption DEF LockInv, TypeOK, SemaIds, CondBroadcast, Calling, semaVars
  <2>2. \A k \in Locks : Owns(t, k)' <=> Owns(t, k)
    BY <1>1, <1>4, SemaAssumption DEF Owns, LockInv, CallInv, CallInvOf
  <2> QED
    BY <1>3, <2>1, <2>2, KeepOwners DEF LockInv
<1>7. HolderIsOwner'
  <2>1. holder' = holder
    BY DEF CondBroadcast, Calling, lockVars
  <2>2. \A k \in Locks : Holds(t, k)' <=> Holds(t, k)
    BY <1>1, <1>4 DEF Holds, LockInv, CallInv, CallInvOf
  <2> QED
    BY <1>3, <2>1, <2>2, KeepHolder DEF LockInv
<1> QED
  BY <1>2, <1>3, <1>5, <1>6, <1>7, KeepCalls DEF LockInv

\* thread_create() up to tid_lock.
LEMMA ThreadCreateStep ==
    ASSUME LockInv, NEW t \in Threads, NEW u \in Threads, ThreadCreate(t, u)
    PROVE  LockInv'
<1>1. pc[t] = "run" /\ held[t] \subseteq Locks
  BY SemaAssumption DEF LockInv, TypeOK, CallInv, CallInvOf, ThreadCreate, Calling,
     At, SemaIds
<1>2. TypeOK'
  <2>1. SchedulerTypeOK'
    BY DEF LockInv, TypeOK, SchedulerTypeOK, Status, ThreadCreate
  <2>2. pc' \in [Threads -> PCs]
    BY <1>1 DEF LockInv, TypeOK, ThreadCreate, Calling, PCs
  <2>3. sema' \in [Threads -> SemaIds \union {NULL}]
    BY <1>1, SemaAssumption DEF LockInv, TypeOK, ThreadCreate, Calling, SemaIds
  <2>4. op' \in [Threads -> {"none", "create", "wait", "signal", "broadcast"}]
    BY <1>1 DEF LockInv, TypeOK, ThreadCreate, Calling
  <2>5. obj' \in [Threads -> Threads \union Conds \union {NULL}]
    BY <1>1 DEF LockInv, TypeOK, ThreadCreate, Calling
  <2> QED
    BY <2>1, <2>2, <2>3, <2>4, <2>5 DEF LockInv, TypeOK, SchedulerTypeOK,
       ThreadCreate, Calling, schedulerVars, semaVars, lockVars, callVars, tidVars
<1>3. OthersSame(t)
  BY DEF LockInv, TypeOK, ThreadCreate, Calling, OthersSame, Same, lockVars, callVars
<1>4. /\ pc'[t] = "down"
      /\ sema'[t] = TidLock
      /\ op'[t] = "create"
      /\ obj'[t] = u
      /\ held'[t] = held[t]
  BY <1>1, SemaAssumption DEF LockInv, TypeOK, ThreadCreate, Calling, lockVars, callVars
<1>5. CallInvOf(t)'
  BY <1>1, <1>4, SemaAssumption DEF LockInv, CallInv, CallInvOf, TypeOK
<1>6. MutualExclusion'
  <2>1. \A k \in Locks : value'[k] = value[k]
    BY SemaAssumption DEF LockInv, TypeOK, SemaIds, ThreadCreate, Calling, semaVars
  <2>2. \A k \in Locks : Owns(t, k)' <=> Owns(t, k)
    BY <1>1, <1>4, SemaAssumption DEF Owns, LockInv, CallInv, CallInvOf
  <2> QED
    BY <1>3, <2>1, <2>2, KeepOwners DEF LockInv
<1>7. HolderIsOwner'
  <2>1. holder' = holder
    BY DEF ThreadCreate, Calling, lockVars
  <2>2. \A k \in Locks : Holds(t, k)' <=> Holds(t, k)
    BY <1>1, <1>4 DEF Holds, LockInv, CallInv, CallInvOf
  <2> QED
    BY <1>3, <2>1, <2>2, KeepHolder DEF LockInv
<1> QED
  BY <1>2, <1>3, <1>5, <1>6, <1>7, KeepCalls DEF LockInv

\* thread_yield().
LEMMA CallYieldStep ==
    ASSUME LockInv, NEW t \in Threads, CallYield(t)
    PROVE  LockInv'
<1>1. pc[t] = "run" /\ held[t] \subseteq Locks
  BY SemaAssumption DEF LockInv, TypeOK, CallInv, CallInvOf, CallYield, Calling, At,
     SemaIds
<1>2. TypeOK'
  <2>1. SchedulerTypeOK'
    BY YieldType DEF LockInv, TypeOK, CallYield, Calling, At
  <2> QED
    BY <2>1 DEF LockInv, TypeOK, SchedulerTypeOK, CallYield, Calling, schedulerVars,
       semaVars, lockVars, callVars, tidVars
<1>3. OthersSame(t)
  BY DEF LockInv, TypeOK, CallYield, Calling, OthersSame, Same, lockVars, callVars
<1>4. /\ pc'[t] = pc[t]
      /\ sema'[t] = sema[t]
      /\ op'[t] = op[t]
      /\ obj'[t] = obj[t]
      /\ held'[t] = held[t]
  BY <1>1, SemaAssumption DEF LockInv, TypeOK, CallYield, Calling, lockVars, callVars
<1>5. CallInvOf(t)'
  BY <1>1, <1>4, SemaAssumption DEF LockInv, CallInv, CallInvOf, TypeOK
<1>6. MutualExclusion'
  <2>1. \A k \in Locks : value'[k] = value[k]
    BY SemaAssumption DEF LockInv, TypeOK, SemaIds, CallYield, Calling, semaVars
  <2>2. \A k \in Locks : Owns(t, k)' <=> Owns(t, k)
    BY <1>1, <1>4, SemaAssumption DEF Owns, LockInv, CallInv, CallInvOf
  <2> QED
    BY <1>3, <2>1, <2>2, KeepOwners DEF LockInv
<1>7. HolderIsOwner'
  <2>1. holder' = holder
    BY DEF CallYield, Calling, lockVars
  <2>2. \A k \in Locks : Holds(t, k)' <=> Holds(t, k)
    BY <1>1, <1>4 DEF Holds, LockInv, CallInv, CallInvOf
  <2> QED
    BY <1>3, <2>1, <2>2, KeepHolder DEF LockInv
<1> QED
  BY <1>2, <1>3, <1>5, <1>6, <1>7, KeepCalls DEF LockInv

\* thread_exit().
LEMMA ThreadExitStep ==
    ASSUME LockInv, NEW t \in Threads, ThreadExit(t)
    PROVE  LockInv'
<1> DEFINE w == WaitingSema[t]
<1>0. w \in SemaIds /\ w \in Semas
  BY SemaAssumption DEF SemaIds
<1>1. pc[t] = "run" /\ held[t] \subseteq Locks
  BY SemaAssumption DEF LockInv, TypeOK, CallInv, CallInvOf, ThreadExit, Calling,
     Upped, At, SemaIds
<1>2. TypeOK'
  <2>1. SchedulerTypeOK'
    <3>1. [UppedStatus(w) EXCEPT ![t] = "DYING"] \in [Threads -> Status]
      BY <1>0, UppedType DEF LockInv, Status
    <3> QED
      BY <1>0, <3>1, UppedType, ScheduleType DEF LockInv, TypeOK, ThreadExit
  <2>2. value' \in [SemaIds -> Nat]
    BY <1>0 DEF LockInv, TypeOK, ThreadExit, Upped
  <2>3. waiters' \in [SemaIds -> Seq(Threads)]
    BY <1>0, UppedType DEF LockInv, TypeOK, ThreadExit, Upped
  <2> QED
    BY <2>1, <2>2, <2>3 DEF LockInv, TypeOK, SchedulerTypeOK, ThreadExit, Calling,
       Upped, schedulerVars, semaVars, lockVars, callVars, tidVars
<1>3. OthersSame(t)
  BY DEF LockInv, TypeOK, ThreadExit, Calling, Upped, OthersSame, Same, lockVars,
     callVars
<1>4. /\ pc'[t] = pc[t]
      /\ sema'[t] = sema[t]
      /\ op'[t] = op[t]
      /\ obj'[t] = obj[t]
      /\ held'[t] = held[t]
  BY <1>1, SemaAssumption DEF LockInv, TypeOK, ThreadExit, Calling, Upped, lockVars,
     callVars
<1>5. CallInvOf(t)'
  BY <1>1, <1>4, SemaAssumption DEF LockInv, CallInv, CallInvOf, TypeOK
<1>6. MutualExclusion'
  <2>1. \A k \in Locks : value'[k] = value[k]
    BY SemaAssumption DEF LockInv, TypeOK, SemaIds, ThreadExit, Calling, Upped, semaVars
  <2>2. \A k \in Locks : Owns(t, k)' <=> Owns(t, k)
    BY <1>1, <1>4, SemaAssumption DEF Owns, LockInv, CallInv, CallInvOf
  <2> QED
    BY <1>3, <2>1, <2>2, KeepOwners DEF LockInv
<1>7. HolderIsOwner'
  <2>1. holder' = holder
    BY DEF ThreadExit, Calling, Upped, lockVars
  <2>2. \A k \in Locks : Holds(t, k)' <=> Holds(t, k)
    BY <1>1, <1>4 DEF Holds, LockInv, CallInv, CallInvOf
  <2> QED
    BY <1>3, <2>1, <2>2, KeepHolder DEF LockInv
<1> QED
  BY <1>2, <1>3, <1>5, <1>6, <1>7, KeepCalls DEF LockInv

\* lock_acquire() records the holder.
LEMMA LockSetHolderStep ==
    ASSUME LockInv, NEW t \in Threads, LockSetHolder(t)
    PROVE  LockInv'
<1>1. pc[t] = "holder" /\ sema[t] \in Locks /\ held[t] \subseteq Locks
  BY SemaAssumption DEF LockInv, TypeOK, CallInv, CallInvOf, LockSetHolder, At, SemaIds
<1>2. TypeOK'
  <2>1. holder' \in [Locks -> Threads \union {NULL}]
    BY <1>1 DEF LockInv, TypeOK, LockSetHolder
  <2>2. held' \in [Threads -> SUBSET Locks]
    BY <1>1, SemaAssumption DEF LockInv, TypeOK, LockSetHolder
  <2>3. pc' \in [Threads -> PCs]
    BY <1>1 DEF LockInv, TypeOK, LockSetHolder, PCs
  <2>4. sema' \in [Threads -> SemaIds \union {NULL}]
    BY <1>1, SemaAssumption DEF LockInv, TypeOK, LockSetHolder, SemaIds
  <2>5. op' \in [Threads -> {"none", "create", "wait", "signal", "broadcast"}]
    BY <1>1 DEF LockInv, TypeOK, LockSetHolder
  <2>6. obj' \in [Threads -> Threads \union Conds \union {NULL}]
    BY <1>1 DEF LockInv, TypeOK, LockSetHolder
  <2> QED
    BY <2>1, <2>2, <2>3, <2>4, <2>5, <2>6 DEF LockInv, TypeOK, SchedulerTypeOK,
       LockSetHolder, schedulerVars, semaVars, lockVars, callVars, tidVars
<1>3. OthersSame(t)
  BY DEF LockInv, TypeOK, LockSetHolder, OthersSame, Same, lockVars, callVars
<1>4. /\ pc'[t] = (IF op[t] = "create" THEN "alloc" ELSE "run")
      /\ sema'[t] = NULL
      /\ held'[t] = held[t] \union {sema[t]}
      /\ op'[t] = (IF op[t] = "wait" THEN "none" ELSE op[t])
      /\ obj'[t] = (IF op[t] = "wait" THEN NULL ELSE obj[t])
  BY <1>1, SemaAssumption DEF LockInv, TypeOK, LockSetHolder, lockVars, callVars
<1>5. CallInvOf(t)'
  BY <1>1, <1>4, SemaAssumption DEF LockInv, CallInv, CallInvOf, TypeOK
<1>6. MutualExclusion'
  <2>1. \A k \in Locks : value'[k] = value[k]
    BY SemaAssumption DEF LockInv, TypeOK, SemaIds, LockSetHolder, semaVars
  <2>2. \A k \in Locks : Owns(t, k)' <=> Owns(t, k)
    BY <1>1, <1>4, SemaAssumption DEF Owns, LockInv, CallInv, CallInvOf
  <2> QED
    BY <1>3, <2>1, <2>2, KeepOwners DEF LockInv
<1>7. HolderIsOwner'
  <2>1. holder' = [holder EXCEPT ![sema[t]] = t]
    BY DEF LockSetHolder
  <2>2. \A k \in Locks : Holds(t, k)' <=> (Holds(t, k) \/ k = sema[t])
    BY <1>1, <1>4 DEF Holds
  <2>3. \A u \in Threads : u # t => ~ Holds(u, sema[t])
    BY <1>1 DEF LockInv, MutualExclusion, Owns, Holds
  <2> QED
    BY <1>3, <1>1, <2>1, <2>2, <2>3, OthersOwn, ThreadsAssumption
    DEF LockInv, TypeOK, HolderIsOwner
<1> QED
  BY <1>2, <1>3, <1>5, <1>6, <1>7, KeepCalls DEF LockInv

\* lock_release() clears the holder.
LEMMA LockClearHolderStep ==
    ASSUME LockInv, NEW t \in Threads, LockClearHolder(t)
    PROVE  LockInv'
<1>1. /\ pc[t] = "release"
      /\ sema[t] \in Locks
      /\ sema[t] \notin held[t]
      /\ held[t] \subseteq Locks
  BY SemaAssumption DEF LockInv, TypeOK, CallInv, CallInvOf, LockClearHolder, At,
     SemaIds
<1>2. TypeOK'
  <2>1. holder' \in [Locks -> Threads \union {NULL}]
    BY <1>1 DEF LockInv, TypeOK, LockClearHolder
  <2>2. pc' \in [Threads -> PCs]
    BY <1>1 DEF LockInv, TypeOK, LockClearHolder, PCs
  <2> QED
    BY <2>1, <2>2 DEF LockInv, TypeOK, SchedulerTypeOK, LockClearHolder,
       schedulerVars, semaVars, lockVars, callVars, tidVars
<1>3. OthersSame(t)
  BY DEF LockInv, TypeOK, LockClearHolder, OthersSame, Same, lockVars, callVars
<1>4. /\ pc'[t] = "up"
      /\ sema'[t] = sema[t]
      /\ op'[t] = op[t]
      /\ obj'[t] = obj[t]
      /\ held'[t] = held[t]
  BY <1>1, SemaAssumption DEF LockInv, TypeOK, LockClearHolder, lockVars, callVars
<1>5. CallInvOf(t)'
  BY <1>1, <1>4, SemaAssumption DEF LockInv, CallInv, CallInvOf, TypeOK
<1>6. MutualExclusion'
  <2>1. \A k \in Locks : value'[k] = value[k]
    BY SemaAssumption DEF LockInv, TypeOK, SemaIds, LockClearHolder, semaVars
  <2>2. \A k \in Locks : Owns(t, k)' <=> Owns(t, k)
    BY <1>1, <1>4, SemaAssumption DEF Owns, LockInv, CallInv, CallInvOf
  <2> QED
    BY <1>3, <2>1, <2>2, KeepOwners DEF LockInv
<1>7. HolderIsOwner'
  <2>1. holder' = [holder EXCEPT ![sema[t]] = NULL]
    BY DEF LockClearHolder
  <2>2. \A k \in Locks : Holds(t, k)' <=> (Holds(t, k) /\ k # sema[t])
    BY <1>1, <1>4 DEF Holds
  <2>3. \A u \in Threads : u # t => ~ Holds(u, sema[t])
    BY <1>1 DEF LockInv, MutualExclusion, Owns, Holds
  <2> QED
    BY <1>3, <1>1, <2>1, <2>2, <2>3, OthersOwn, ThreadsAssumption
    DEF LockInv, TypeOK, HolderIsOwner
<1> QED
  BY <1>2, <1>3, <1>5, <1>6, <1>7, KeepCalls DEF LockInv

\* cond_broadcast() signals once more.
LEMMA BroadcastNextStep ==
    ASSUME LockInv, NEW t \in Threads, BroadcastNext(t)
    PROVE  LockInv'
<1>0. cond_waiters[obj[t]] \in Seq(Threads) /\ cond_waiters[obj[t]] # <<>>
  BY DEF LockInv, CallInv, CallInvOf, TypeOK, At, SignalPops, BroadcastNext
<1>p. /\ Head(cond_waiters[obj[t]]) \in Threads
      /\ Tail(cond_waiters[obj[t]]) \in Seq(Threads)
  BY <1>0
<1>1. /\ pc[t] = "bcast"
      /\ op[t] = "broadcast"
      /\ Head(cond_waiters[obj[t]]) \in Threads
      /\ held[t] \subseteq Locks
  BY SemaAssumption, <1>p DEF LockInv, TypeOK, CallInv, CallInvOf, BroadcastNext,
     SignalPops, At, SemaIds
<1>2. TypeOK'
  <2>1. cond_waiters' \in [Conds -> Seq(Threads)]
    BY <1>1, <1>p DEF LockInv, TypeOK, BroadcastNext, SignalPops
  <2>2. pc' \in [Threads -> PCs]
    BY <1>1, <1>p DEF LockInv, TypeOK, BroadcastNext, SignalPops, PCs
  <2>3. sema' \in [Threads -> SemaIds \union {NULL}]
    BY <1>1, <1>p, SemaAssumption DEF LockInv, TypeOK, BroadcastNext, SignalPops,
       SemaIds
  <2> QED
    BY <2>1, <2>2, <2>3 DEF LockInv, TypeOK, SchedulerTypeOK, BroadcastNext,
       SignalPops, schedulerVars, semaVars, lockVars, callVars, tidVars
<1>3. OthersSame(t)
  BY DEF LockInv, TypeOK, BroadcastNext, SignalPops, OthersSame, Same, lockVars,
     callVars
<1>4. /\ pc'[t] = "up"
      /\ sema'[t] = Head(cond_waiters[obj[t]])
      /\ op'[t] = op[t]
      /\ obj'[t] = obj[t]
      /\ held'[t] = held[t]
  BY <1>1, SemaAssumption DEF LockInv, TypeOK, BroadcastNext, SignalPops, lockVars,
     callVars
<1>5. CallInvOf(t)'
  BY <1>1, <1>4, SemaAssumption DEF LockInv, CallInv, CallInvOf, TypeOK
<1>6. MutualExclusion'
  <2>1. \A k \in Locks : value'[k] = value[k]
    BY SemaAssumption DEF LockInv, TypeOK, SemaIds, BroadcastNext, SignalPops, semaVars
  <2>2. \A k \in Locks : Owns(t, k)' <=> Owns(t, k)
    BY <1>1, <1>4, SemaAssumption DEF Owns, LockInv, CallInv, CallInvOf
  <2> QED
    BY <1>3, <2>1, <2>2, KeepOwners DEF LockInv
<1>7. HolderIsOwner'
  <2>1. holder' = holder
    BY DEF BroadcastNext, SignalPops, lockVars
  <2>2. \A k \in Locks : Holds(t, k)' <=> Holds(t, k)
    BY <1>1, <1>4 DEF Holds, LockInv, CallInv, CallInvOf
  <2> QED
    BY <1>3, <2>1, <2>2, KeepHolder DEF LockInv
<1> QED
  BY <1>2, <1>3, <1>5, <1>6, <1>7, KeepCalls DEF LockInv

\* cond_broadcast() returns.
LEMMA BroadcastDoneStep ==
    ASSUME LockInv, NEW t \in Threads, BroadcastDone(t)
    PROVE  LockInv'
<1>1. pc[t] = "bcast" /\ held[t] \subseteq Locks
  BY SemaAssumption DEF LockInv, TypeOK, CallInv, CallInvOf, BroadcastDone, At, SemaIds
<1>2. TypeOK'
  <2>1. pc' \in [Threads -> PCs]
    BY <1>1 DEF LockInv, TypeOK, BroadcastDone, PCs
  <2>2. op' \in [Threads -> {"none", "create", "wait", "signal", "broadcast"}]
    BY <1>1 DEF LockInv, TypeOK, BroadcastDone
  <2>3. obj' \in [Threads -> Threads \union Conds \union {NULL}]
    BY <1>1 DEF LockInv, TypeOK, BroadcastDone
  <2> QED
    BY <2>1, <2>2, <2>3 DEF LockInv, TypeOK, SchedulerTypeOK, BroadcastDone,
       schedulerVars, semaVars, lockVars, callVars, tidVars
<1>3. OthersSame(t)
  BY DEF LockInv, TypeOK, BroadcastDone, OthersSame, Same, lockVars, callVars
<1>4. /\ pc'[t] = "run"
      /\ op'[t] = "none"
      /\ obj'[t] = NULL
      /\ sema'[t] = sema[t]
      /\ held'[t] = held[t]
  BY <1>1, SemaAssumption DEF LockInv, TypeOK, BroadcastDone, lockVars, callVars
<1>5. CallInvOf(t)'
  BY <1>1, <1>4, SemaAssumption DEF LockInv, CallInv, CallInvOf, TypeOK
<1>6. MutualExclusion'
  <2>1. \A k \in Locks : value'[k] = value[k]
    BY SemaAssumption DEF LockInv, TypeOK, SemaIds, BroadcastDone, semaVars
  <2>2. \A k \in Locks : Owns(t, k)' <=> Owns(t, k)
    BY <1>1, <1>4, SemaAssumption DEF Owns, LockInv, CallInv, CallInvOf
  <2> QED
    BY <1>3, <2>1, <2>2, KeepOwners DEF LockInv
<1>7. HolderIsOwner'
  <2>1. holder' = holder
    BY DEF BroadcastDone, lockVars
  <2>2. \A k \in Locks : Holds(t, k)' <=> Holds(t, k)
    BY <1>1, <1>4 DEF Holds, LockInv, CallInv, CallInvOf
  <2> QED
    BY <1>3, <2>1, <2>2, KeepHolder DEF LockInv
<1> QED
  BY <1>2, <1>3, <1>5, <1>6, <1>7, KeepCalls DEF LockInv

\* allocate_tid() reads next_tid.
LEMMA AllocateTidStep ==
    ASSUME LockInv, NEW t \in Threads, AllocateTid(t)
    PROVE  LockInv'
<1>1. pc[t] = "alloc" /\ held[t] \subseteq Locks
  BY SemaAssumption DEF LockInv, TypeOK, CallInv, CallInvOf, AllocateTid, At, SemaIds
<1>2. TypeOK'
  <2>1. tid' \in [Threads -> Nat]
    BY <1>1 DEF LockInv, TypeOK, AllocateTid
  <2>2. pc' \in [Threads -> PCs]
    BY <1>1 DEF LockInv, TypeOK, AllocateTid, PCs
  <2> QED
    BY <2>1, <2>2 DEF LockInv, TypeOK, SchedulerTypeOK, AllocateTid, schedulerVars,
       semaVars, lockVars, callVars, tidVars
<1>3. OthersSame(t)
  BY DEF LockInv, TypeOK, AllocateTid, OthersSame, Same, lockVars, callVars
<1>4. /\ pc'[t] = "incr"
      /\ sema'[t] = sema[t]
      /\ op'[t] = op[t]
      /\ obj'[t] = obj[t]
      /\ held'[t] = held[t]
  BY <1>1, SemaAssumption DEF LockInv, TypeOK, AllocateTid, lockVars, callVars
<1>5. CallInvOf(t)'
  BY <1>1, <1>4, SemaAssumption DEF LockInv, CallInv, CallInvOf, TypeOK
<1>6. MutualExclusion'
  <2>1. \A k \in Locks : value'[k] = value[k]
    BY SemaAssumption DEF LockInv, TypeOK, SemaIds, AllocateTid, semaVars
  <2>2. \A k \in Locks : Owns(t, k)' <=> Owns(t, k)
    BY <1>1, <1>4, SemaAssumption DEF Owns, LockInv, CallInv, CallInvOf
  <2> QED
    BY <1>3, <2>1, <2>2, KeepOwners DEF LockInv
<1>7. HolderIsOwner'
  <2>1. holder' = holder
    BY DEF AllocateTid, lockVars
  <2>2. \A k \in Locks : Holds(t, k)' <=> Holds(t, k)
    BY <1>1, <1>4 DEF Holds, LockInv, CallInv, CallInvOf
  <2> QED
    BY <1>3, <2>1, <2>2, KeepHolder DEF LockInv
<1> QED
  BY <1>2, <1>3, <1>5, <1>6, <1>7, KeepCalls DEF LockInv

\* allocate_tid() writes next_tid and releases tid_lock.
LEMMA IncrementTidStep ==
    ASSUME LockInv, NEW t \in Threads, IncrementTid(t)
    PROVE  LockInv'
<1>1. /\ pc[t] = "incr"
      /\ TidLock \in held[t]
      /\ op[t] = "create"
      /\ obj[t] \in Threads
      /\ held[t] \subseteq Locks
  BY SemaAssumption DEF LockInv, TypeOK, CallInv, CallInvOf, IncrementTid, At, SemaIds
<1>2. TypeOK'
  <2>1. next_tid' \in Nat
    BY <1>1 DEF LockInv, TypeOK, IncrementTid
  <2>2. held' \in [Threads -> SUBSET Locks]
    BY <1>1, SemaAssumption DEF LockInv, TypeOK, IncrementTid
  <2>3. pc' \in [Threads -> PCs]
    BY <1>1 DEF LockInv, TypeOK, IncrementTid, PCs
  <2>4. sema' \in [Threads -> SemaIds \union {NULL}]
    BY <1>1, SemaAssumption DEF LockInv, TypeOK, IncrementTid, SemaIds
  <2> QED
    BY <2>1, <2>2, <2>3, <2>4 DEF LockInv, TypeOK, SchedulerTypeOK, IncrementTid,
       schedulerVars, semaVars, lockVars, callVars, tidVars
<1>3. OthersSame(t)
  BY DEF LockInv, TypeOK, IncrementTid, OthersSame, Same, lockVars, callVars
<1>4. /\ pc'[t] = "release"
      /\ sema'[t] = TidLock
      /\ held'[t] = held[t] \ {TidLock}
      /\ op'[t] = op[t]
      /\ obj'[t] = obj[t]
  BY <1>1, SemaAssumption DEF LockInv, TypeOK, IncrementTid, lockVars, callVars
<1>5. CallInvOf(t)'
  BY <1>1, <1>4, SemaAssumption DEF LockInv, CallInv, CallInvOf, TypeOK
<1>6. MutualExclusion'
  <2>1. \A k \in Locks : value'[k] = value[k]
    BY SemaAssumption DEF LockInv, TypeOK, SemaIds, IncrementTid, semaVars
  <2>2. \A k \in Locks : Owns(t, k)' <=> Owns(t, k)
    BY <1>1, <1>4, SemaAssumption DEF Owns, LockInv, CallInv, CallInvOf
  <2> QED
    BY <1>3, <2>1, <2>2, KeepOwners DEF LockInv
<1>7. HolderIsOwner'
  <2>1. holder' = holder
    BY DEF IncrementTid, lockVars
  <2>2. \A k \in Locks : Holds(t, k)' <=> Holds(t, k)
    BY <1>1, <1>4 DEF Holds, LockInv, CallInv, CallInvOf
  <2> QED
    BY <1>3, <2>1, <2>2, KeepHolder DEF LockInv
<1> QED
  BY <1>2, <1>3, <1>5, <1>6, <1>7, KeepCalls DEF LockInv

\* thread_create() makes the new thread ready.
LEMMA CreateUnblockStep ==
    ASSUME LockInv, NEW t \in Threads, CreateUnblock(t)
    PROVE  LockInv'
<1>1. pc[t] = "unblock" /\ held[t] \subseteq Locks
  BY SemaAssumption DEF LockInv, TypeOK, CallInv, CallInvOf, CreateUnblock, At, SemaIds
<1>2. TypeOK'
  <2>1. SchedulerTypeOK'
    BY DEF LockInv, CallInv, CallInvOf, TypeOK, SchedulerTypeOK, Status,
       CreateUnblock, At, UnblockedList, UnblockedStatus
  <2>2. pc' \in [Threads -> PCs]
    BY <1>1 DEF LockInv, TypeOK, CreateUnblock, PCs
  <2>3. op' \in [Threads -> {"none", "create", "wait", "signal", "broadcast"}]
    BY <1>1 DEF LockInv, TypeOK, CreateUnblock
  <2>4. obj' \in [Threads -> Threads \union Conds \union {NULL}]
    BY <1>1 DEF LockInv, TypeOK, CreateUnblock
  <2> QED
    BY <2>1, <2>2, <2>3, <2>4 DEF LockInv, TypeOK, SchedulerTypeOK, CreateUnblock,
       schedulerVars, semaVars, lockVars, callVars, tidVars
<1>3. OthersSame(t)
  BY DEF LockInv, TypeOK, CreateUnblock, OthersSame, Same, lockVars, callVars
<1>4. /\ pc'[t] = "run"
      /\ op'[t] = "none"
      /\ obj'[t] = NULL
      /\ sema'[t] = sema[t]
      /\ held'[t] = held[t]
  BY <1>1, SemaAssumption DEF LockInv, TypeOK, CreateUnblock, lockVars, callVars
<1>5. CallInvOf(t)'
  BY <1>1, <1>4, SemaAssumption DEF LockInv, CallInv, CallInvOf, TypeOK
<1>6. MutualExclusion'
  <2>1. \A k \in Locks : value'[k] = value[k]
    BY SemaAssumption DEF LockInv, TypeOK, SemaIds, CreateUnblock, semaVars
  <2>2. \A k \in Locks : Owns(t, k)' <=> Owns(t, k)
    BY <1>1, <1>4, SemaAssumption DEF Owns, LockInv, CallInv, CallInvOf
  <2> QED
    BY <1>3, <2>1, <2>2, KeepOwners DEF LockInv
<1>7. HolderIsOwner'
  <2>1. holder' = holder
    BY DEF CreateUnblock, lockVars
  <2>2. \A k \in Locks : Holds(t, k)' <=> Holds(t, k)
    BY <1>1, <1>4 DEF Holds, LockInv, CallInv, CallInvOf
  <2> QED
    BY <1>3, <2>1, <2>2, KeepHolder DEF LockInv
<1> QED
  BY <1>2, <1>3, <1>5, <1>6, <1>7, KeepCalls DEF LockInv

\* idle() sets idle_thread.
LEMMA IdleStartStep ==
    ASSUME LockInv, IdleStart
    PROVE  LockInv'
<1> DEFINE t == Idle
<1> t \in Threads
  BY ThreadsAssumption
<1>1. pc[t] = "idle_start" /\ held[t] \subseteq Locks
  BY SemaAssumption DEF LockInv, TypeOK, CallInv, CallInvOf, IdleStart, At, SemaIds
<1>2. TypeOK'
  <2>1. SchedulerTypeOK'
    BY DEF LockInv, TypeOK, SchedulerTypeOK, IdleStart
  <2>2. pc' \in [Threads -> PCs]
    BY <1>1 DEF LockInv, TypeOK, IdleStart, PCs
  <2> QED
    BY <2>1, <2>2 DEF LockInv, TypeOK, SchedulerTypeOK, IdleStart, schedulerVars,
       semaVars, lockVars, callVars, tidVars
<1>3. OthersSame(t)
  BY DEF LockInv, TypeOK, IdleStart, OthersSame, Same, lockVars, callVars
<1>4. /\ pc'[t] = "idle_up"
      /\ sema'[t] = sema[t]
      /\ op'[t] = op[t]
      /\ obj'[t] = obj[t]
      /\ held'[t] = held[t]
  BY <1>1, SemaAssumption DEF LockInv, TypeOK, IdleStart, lockVars, callVars
<1>5. CallInvOf(t)'
  BY <1>1, <1>4, SemaAssumption DEF LockInv, CallInv, CallInvOf, TypeOK
<1>6. MutualExclusion'
  <2>1. \A k \in Locks : value'[k] = value[k]
    BY SemaAssumption DEF LockInv, TypeOK, SemaIds, IdleStart, semaVars
  <2>2. \A k \in Locks : Owns(t, k)' <=> Owns(t, k)
    BY <1>1, <1>4, SemaAssumption DEF Owns, LockInv, CallInv, CallInvOf
  <2> QED
    BY <1>3, <2>1, <2>2, KeepOwners DEF LockInv
<1>7. HolderIsOwner'
  <2>1. holder' = holder
    BY DEF IdleStart, lockVars
  <2>2. \A k \in Locks : Holds(t, k)' <=> Holds(t, k)
    BY <1>1, <1>4 DEF Holds, LockInv, CallInv, CallInvOf
  <2> QED
    BY <1>3, <2>1, <2>2, KeepHolder DEF LockInv
<1> QED
  BY <1>2, <1>3, <1>5, <1>6, <1>7, KeepCalls DEF LockInv

\* idle() lets thread_start() go on.
LEMMA IdleUpStep ==
    ASSUME LockInv, IdleUp
    PROVE  LockInv'
<1> DEFINE t == Idle
<1> t \in Threads
  BY ThreadsAssumption
<1>1. pc[t] = "idle_up" /\ held[t] \subseteq Locks
  BY SemaAssumption DEF LockInv, TypeOK, CallInv, CallInvOf, IdleUp, At, SemaIds
<1>2. TypeOK'
  <2>1. SchedulerTypeOK'
    BY SemaUpType, SemaAssumption DEF LockInv, IdleUp, SemaIds
  <2>2. value' \in [SemaIds -> Nat]
    BY SemaUpType, SemaAssumption DEF LockInv, IdleUp, SemaIds
  <2>3. waiters' \in [SemaIds -> Seq(Threads)]
    BY SemaUpType, SemaAssumption DEF LockInv, IdleUp, SemaIds
  <2>4. pc' \in [Threads -> PCs]
    BY <1>1 DEF LockInv, TypeOK, IdleUp, PCs
  <2> QED
    BY <2>1, <2>2, <2>3, <2>4 DEF LockInv, TypeOK, SchedulerTypeOK, IdleUp,
       schedulerVars, semaVars, lockVars, callVars, tidVars
<1>3. OthersSame(t)
  BY DEF LockInv, TypeOK, IdleUp, OthersSame, Same, lockVars, callVars
<1>4. /\ pc'[t] = "idle_block"
      /\ sema'[t] = sema[t]
      /\ op'[t] = op[t]
      /\ obj'[t] = obj[t]
      /\ held'[t] = held[t]
  BY <1>1, SemaAssumption DEF LockInv, TypeOK, IdleUp, lockVars, callVars
<1>5. CallInvOf(t)'
  BY <1>1, <1>4, SemaAssumption DEF LockInv, CallInv, CallInvOf, TypeOK
<1>6. MutualExclusion'
  <2>1. \A k \in Locks : value'[k] = value[k]
    BY SemaAssumption DEF LockInv, TypeOK, SemaIds, IdleUp, SemaUp, Upped, semaVars
  <2>2. \A k \in Locks : Owns(t, k)' <=> Owns(t, k)
    BY <1>1, <1>4, SemaAssumption DEF Owns, LockInv, CallInv, CallInvOf
  <2> QED
    BY <1>3, <2>1, <2>2, KeepOwners DEF LockInv
<1>7. HolderIsOwner'
  <2>1. holder' = holder
    BY DEF IdleUp, lockVars
  <2>2. \A k \in Locks : Holds(t, k)' <=> Holds(t, k)
    BY <1>1, <1>4 DEF Holds, LockInv, CallInv, CallInvOf
  <2> QED
    BY <1>3, <2>1, <2>2, KeepHolder DEF LockInv
<1> QED
  BY <1>2, <1>3, <1>5, <1>6, <1>7, KeepCalls DEF LockInv

\* idle() blocks.
LEMMA IdleBlockStep ==
    ASSUME LockInv, IdleBlock
    PROVE  LockInv'
<1> DEFINE t == Idle
<1> t \in Threads
  BY ThreadsAssumption
<1>1. pc[t] = "idle_block" /\ held[t] \subseteq Locks
  BY SemaAssumption DEF LockInv, TypeOK, CallInv, CallInvOf, IdleBlock, At, SemaIds
<1>2. TypeOK'
  <2>1. SchedulerTypeOK'
    BY BlockType, ThreadsAssumption DEF LockInv, IdleBlock, At
  <2>2. pc' \in [Threads -> PCs]
    BY <1>1 DEF LockInv, TypeOK, IdleBlock, PCs
  <2> QED
    BY <2>1, <2>2 DEF LockInv, TypeOK, SchedulerTypeOK, IdleBlock, schedulerVars,
       semaVars, lockVars, callVars, tidVars
<1>3. OthersSame(t)
  BY DEF LockInv, TypeOK, IdleBlock, OthersSame, Same, lockVars, callVars
<1>4. /\ pc'[t] = "hlt"
      /\ sema'[t] = sema[t]
      /\ op'[t] = op[t]
      /\ obj'[t] = obj[t]
      /\ held'[t] = held[t]
  BY <1>1, SemaAssumption DEF LockInv, TypeOK, IdleBlock, lockVars, callVars
<1>5. CallInvOf(t)'
  BY <1>1, <1>4, SemaAssumption DEF LockInv, CallInv, CallInvOf, TypeOK
<1>6. MutualExclusion'
  <2>1. \A k \in Locks : value'[k] = value[k]
    BY SemaAssumption DEF LockInv, TypeOK, SemaIds, IdleBlock, semaVars
  <2>2. \A k \in Locks : Owns(t, k)' <=> Owns(t, k)
    BY <1>1, <1>4, SemaAssumption DEF Owns, LockInv, CallInv, CallInvOf
  <2> QED
    BY <1>3, <2>1, <2>2, KeepOwners DEF LockInv
<1>7. HolderIsOwner'
  <2>1. holder' = holder
    BY DEF IdleBlock, lockVars
  <2>2. \A k \in Locks : Holds(t, k)' <=> Holds(t, k)
    BY <1>1, <1>4 DEF Holds, LockInv, CallInv, CallInvOf
  <2> QED
    BY <1>3, <2>1, <2>2, KeepHolder DEF LockInv
<1> QED
  BY <1>2, <1>3, <1>5, <1>6, <1>7, KeepCalls DEF LockInv

\* The timer interrupt.
LEMMA TickStep ==
    ASSUME LockInv, NEW t \in Threads, t = current, Tick
    PROVE  LockInv'
<1>1. TRUE /\ held[t] \subseteq Locks
  BY SemaAssumption DEF LockInv, TypeOK, CallInv, CallInvOf, Tick, Interrupted, At,
     SemaIds
<1>2. TypeOK'
  <2>1. SchedulerTypeOK'
    BY TickType DEF LockInv, TypeOK, Tick
  <2>2. pc' \in [Threads -> PCs]
    BY <1>1 DEF LockInv, TypeOK, Tick, Interrupted, PCs
  <2> QED
    BY <2>1, <2>2 DEF LockInv, TypeOK, SchedulerTypeOK, Tick, Interrupted,
       schedulerVars, semaVars, lockVars, callVars, tidVars
<1>3. OthersSame(t)
  BY DEF LockInv, TypeOK, Tick, Interrupted, OthersSame, Same, lockVars, callVars
<1>4. /\ pc'[t] = (IF pc[t] = "hlt" THEN "idle_block" ELSE pc[t])
      /\ sema'[t] = sema[t]
      /\ op'[t] = op[t]
      /\ obj'[t] = obj[t]
      /\ held'[t] = held[t]
  BY <1>1, SemaAssumption DEF LockInv, TypeOK, Tick, Interrupted, lockVars, callVars
<1>5. CallInvOf(t)'
  BY <1>1, <1>4, SemaAssumption DEF LockInv, CallInv, CallInvOf, TypeOK
<1>6. MutualExclusion'
  <2>1. \A k \in Locks : value'[k] = value[k]
    BY SemaAssumption DEF LockInv, TypeOK, SemaIds, Tick, Interrupted, semaVars
  <2>2. \A k \in Locks : Owns(t, k)' <=> Owns(t, k)
    BY <1>1, <1>4, SemaAssumption DEF Owns, LockInv, CallInv, CallInvOf
  <2> QED
    BY <1>3, <2>1, <2>2, KeepOwners DEF LockInv
<1>7. HolderIsOwner'
  <2>1. holder' = holder
    BY DEF Tick, Interrupted, lockVars
  <2>2. \A k \in Locks : Holds(t, k)' <=> Holds(t, k)
    BY <1>1, <1>4 DEF Holds, LockInv, CallInv, CallInvOf
  <2> QED
    BY <1>3, <2>1, <2>2, KeepHolder DEF LockInv
<1> QED
  BY <1>2, <1>3, <1>5, <1>6, <1>7, KeepCalls DEF LockInv

\* A device interrupt.
LEMMA DeviceInterruptStep ==
    ASSUME LockInv, NEW s \in Semas, NEW t \in Threads, t = current, DeviceInterrupt(s)
    PROVE  LockInv'
<1>1. TRUE /\ held[t] \subseteq Locks
  BY SemaAssumption DEF LockInv, TypeOK, CallInv, CallInvOf, DeviceInterrupt,
     Interrupted, At, SemaIds
<1>2. TypeOK'
  <2>1. SchedulerTypeOK'
    BY SemaUpType DEF LockInv, DeviceInterrupt, SemaIds
  <2>2. value' \in [SemaIds -> Nat]
    BY SemaUpType DEF LockInv, DeviceInterrupt, SemaIds
  <2>3. waiters' \in [SemaIds -> Seq(Threads)]
    BY SemaUpType DEF LockInv, DeviceInterrupt, SemaIds
  <2>4. pc' \in [Threads -> PCs]
    BY <1>1 DEF LockInv, TypeOK, DeviceInterrupt, Interrupted, PCs
  <2> QED
    BY <2>1, <2>2, <2>3, <2>4 DEF LockInv, TypeOK, SchedulerTypeOK, DeviceInterrupt,
       Interrupted, schedulerVars, semaVars, lockVars, callVars, tidVars
<1>3. OthersSame(t)
  BY DEF LockInv, TypeOK, DeviceInterrupt, Interrupted, OthersSame, Same, lockVars,
     callVars
<1>4. /\ pc'[t] = (IF pc[t] = "hlt" THEN "idle_block" ELSE pc[t])
      /\ sema'[t] = sema[t]
      /\ op'[t] = op[t]
      /\ obj'[t] = obj[t]
      /\ held'[t] = held[t]
  BY <1>1, SemaAssumption DEF LockInv, TypeOK, DeviceInterrupt, Interrupted, lockVars,
     callVars
<1>5. CallInvOf(t)'
  BY <1>1, <1>4, SemaAssumption DEF LockInv, CallInv, CallInvOf, TypeOK
<1>6. MutualExclusion'
  <2>1. \A k \in Locks : value'[k] = value[k]
    BY SemaAssumption DEF LockInv, TypeOK, SemaIds, DeviceInterrupt, Interrupted,
       SemaUp, Upped, semaVars
  <2>2. \A k \in Locks : Owns(t, k)' <=> Owns(t, k)
    BY <1>1, <1>4, SemaAssumption DEF Owns, LockInv, CallInv, CallInvOf
  <2> QED
    BY <1>3, <2>1, <2>2, KeepOwners DEF LockInv
<1>7. HolderIsOwner'
  <2>1. holder' = holder
    BY DEF DeviceInterrupt, Interrupted, lockVars
  <2>2. \A k \in Locks : Holds(t, k)' <=> Holds(t, k)
    BY <1>1, <1>4 DEF Holds, LockInv, CallInv, CallInvOf
  <2> QED
    BY <1>3, <2>1, <2>2, KeepHolder DEF LockInv
<1> QED
  BY <1>2, <1>3, <1>5, <1>6, <1>7, KeepCalls DEF LockInv

\* sema_down() takes a unit; of a lock, t becomes the owner.
LEMMA SemaDownTakesStep ==
    ASSUME LockInv, NEW t \in Threads, SemaDown(t), SemaDownTakes(t)
    PROVE  LockInv'
<1>1. pc[t] \in {"down", "loop"} /\ sema[t] \in SemaIds /\ held[t] \subseteq Locks
  BY SemaAssumption DEF LockInv, TypeOK, CallInv, CallInvOf, SemaDownTakes, Downed,
     At, SemaIds, SemaDown
<1>2. TypeOK'
  <2>1. value' \in [SemaIds -> Nat]
    BY <1>1 DEF LockInv, TypeOK, SemaDownTakes, Downed, SemaIds
  <2>2. pc' \in [Threads -> PCs]
    BY <1>1 DEF LockInv, TypeOK, SemaDownTakes, Downed, PCs
  <2>3. sema' \in [Threads -> SemaIds \union {NULL}]
    <3>1. pc[t] \in {"down", "loop"} /\ (sema[t] = t => CondLock[obj[t]] \in Locks)
      BY SemaAssumption DEF LockInv, CallInv, CallInvOf, SemaDown, At
    <3> QED
      BY <3>1 DEF LockInv, TypeOK, SemaDownTakes, Downed, SemaIds
  <2> QED
    BY <2>1, <2>2, <2>3 DEF LockInv, TypeOK, SchedulerTypeOK, SemaDownTakes, Downed,
       SemaDown, schedulerVars, semaVars, lockVars, callVars, tidVars
<1>3. OthersSame(t)
  BY DEF LockInv, TypeOK, SemaDownTakes, Downed, SemaDown, OthersSame, Same, lockVars,
     callVars
<1>4. /\ pc'[t] = (IF sema[t] \in Locks THEN "holder" ELSE IF sema[t] = t THEN "down" ELSE "run")
      /\ sema'[t] = (IF sema[t] \in Locks THEN sema[t] ELSE IF sema[t] = t THEN CondLock[obj[t]] ELSE NULL)
      /\ op'[t] = op[t]
      /\ obj'[t] = obj[t]
      /\ held'[t] = held[t]
  BY <1>1, SemaAssumption DEF LockInv, TypeOK, SemaDownTakes, Downed, SemaDown,
     lockVars, callVars
<1>5. CallInvOf(t)'
  BY <1>1, <1>4, SemaAssumption DEF LockInv, CallInv, CallInvOf, TypeOK
<1>6. MutualExclusion'
  <2>1. CASE sema[t] \in Locks
    <3>1. \A k \in Locks : Owns(t, k)' <=> (Owns(t, k) \/ k = sema[t])
      BY <1>1, <1>4, <2>1 DEF Owns
    <3> QED
      BY <1>3, <2>1, <3>1, GainOwner DEF LockInv, TypeOK, SemaDownTakes
  <2>2. CASE sema[t] \notin Locks
    <3>1. \A k \in Locks : value'[k] = value[k]
      BY <1>1, <2>2 DEF LockInv, TypeOK, SemaIds, SemaDownTakes
    <3>2. \A k \in Locks : Owns(t, k)' <=> Owns(t, k)
      BY <1>1, <1>4, <2>2 DEF Owns
    <3> QED
      BY <1>3, <3>1, <3>2, KeepOwners DEF LockInv
  <2> QED
    BY <2>1, <2>2
<1>7. HolderIsOwner'
  <2>1. holder' = holder
    BY DEF SemaDownTakes, Downed, SemaDown, lockVars
  <2>2. \A k \in Locks : Holds(t, k)' <=> Holds(t, k)
    BY <1>1, <1>4 DEF Holds, LockInv, CallInv, CallInvOf
  <2> QED
    BY <1>3, <2>1, <2>2, KeepHolder DEF LockInv
<1> QED
  BY <1>2, <1>3, <1>5, <1>6, <1>7, KeepCalls DEF LockInv

\* sema_down() blocks.
LEMMA SemaDownBlocksStep ==
    ASSUME LockInv, NEW t \in Threads, SemaDown(t), SemaDownBlocks(t)
    PROVE  LockInv'
<1>1. pc[t] \in {"down", "loop"} /\ sema[t] \in SemaIds /\ held[t] \subseteq Locks
  BY SemaAssumption DEF LockInv, TypeOK, CallInv, CallInvOf, SemaDownBlocks, At,
     SemaIds, SemaDown
<1>2. TypeOK'
  <2>1. SchedulerTypeOK'
    BY BlockType DEF LockInv, SemaDown, SemaDownBlocks, At
  <2>2. waiters' \in [SemaIds -> Seq(Threads)]
    BY <1>1 DEF LockInv, TypeOK, SemaDownBlocks, SemaIds
  <2>3. pc' \in [Threads -> PCs]
    BY <1>1 DEF LockInv, TypeOK, SemaDownBlocks, PCs
  <2> QED
    BY <2>1, <2>2, <2>3 DEF LockInv, TypeOK, SchedulerTypeOK, SemaDownBlocks,
       SemaDown, schedulerVars, semaVars, lockVars, callVars, tidVars
<1>3. OthersSame(t)
  BY DEF LockInv, TypeOK, SemaDownBlocks, SemaDown, OthersSame, Same, lockVars, callVars
<1>4. /\ pc'[t] = "loop"
      /\ sema'[t] = sema[t]
      /\ op'[t] = op[t]
      /\ obj'[t] = obj[t]
      /\ held'[t] = held[t]
  BY <1>1, SemaAssumption DEF LockInv, TypeOK, SemaDownBlocks, SemaDown, lockVars,
     callVars
<1>5. CallInvOf(t)'
  BY <1>1, <1>4, SemaAssumption DEF LockInv, CallInv, CallInvOf, TypeOK
<1>6. MutualExclusion'
  <2>1. \A k \in Locks : value'[k] = value[k]
    BY SemaAssumption DEF LockInv, TypeOK, SemaIds, SemaDownBlocks, SemaDown, semaVars
  <2>2. \A k \in Locks : Owns(t, k)' <=> Owns(t, k)
    BY <1>1, <1>4, SemaAssumption DEF Owns, LockInv, CallInv, CallInvOf
  <2> QED
    BY <1>3, <2>1, <2>2, KeepOwners DEF LockInv
<1>7. HolderIsOwner'
  <2>1. holder' = holder
    BY DEF SemaDownBlocks, SemaDown, lockVars
  <2>2. \A k \in Locks : Holds(t, k)' <=> Holds(t, k)
    BY <1>1, <1>4 DEF Holds, LockInv, CallInv, CallInvOf
  <2> QED
    BY <1>3, <2>1, <2>2, KeepHolder DEF LockInv
<1> QED
  BY <1>2, <1>3, <1>5, <1>6, <1>7, KeepCalls DEF LockInv

\* The sema_up() in lock_release() and cond_signal().
LEMMA UpStepStep ==
    ASSUME LockInv, NEW t \in Threads, UpStep(t)
    PROVE  LockInv'
<1>0. sema[t] \in SemaIds
  BY DEF LockInv, CallInv, CallInvOf, UpStep, At, SemaIds
<1>1. /\ pc[t] = "up"
      /\ sema[t] \in Locks \union Threads
      /\ sema[t] \notin held[t]
      /\ sema[t] \in SemaIds
      /\ held[t] \subseteq Locks
  BY SemaAssumption DEF LockInv, TypeOK, CallInv, CallInvOf, UpStep, AfterUp, At,
     SemaIds
<1>2. TypeOK'
  <2>1. SchedulerTypeOK'
    BY <1>0, SemaUpType DEF LockInv, UpStep
  <2>2. value' \in [SemaIds -> Nat]
    BY <1>0, SemaUpType DEF LockInv, UpStep
  <2>3. waiters' \in [SemaIds -> Seq(Threads)]
    BY <1>0, SemaUpType DEF LockInv, UpStep
  <2>4. pc' \in [Threads -> PCs]
    BY <1>1 DEF LockInv, TypeOK, UpStep, AfterUp, PCs
  <2>5. sema' \in [Threads -> SemaIds \union {NULL}]
    BY <1>1, SemaAssumption DEF LockInv, TypeOK, UpStep, AfterUp, SemaIds
  <2>6. op' \in [Threads -> {"none", "create", "wait", "signal", "broadcast"}]
    BY <1>1 DEF LockInv, TypeOK, UpStep, AfterUp
  <2>7. obj' \in [Threads -> Threads \union Conds \union {NULL}]
    BY <1>1 DEF LockInv, TypeOK, UpStep, AfterUp
  <2> QED
    BY <2>1, <2>2, <2>3, <2>4, <2>5, <2>6, <2>7 DEF LockInv, TypeOK, SchedulerTypeOK,
       UpStep, AfterUp, schedulerVars, semaVars, lockVars, callVars, tidVars
<1>3. OthersSame(t)
  BY DEF LockInv, TypeOK, UpStep, AfterUp, OthersSame, Same, lockVars, callVars
<1>4. /\ pc'[t] = AfterUp(t)
      /\ sema'[t] = (IF op[t] = "wait" THEN t ELSE NULL)
      /\ op'[t] = (IF op[t] = "signal" THEN "none" ELSE op[t])
      /\ obj'[t] = (IF op[t] = "signal" THEN NULL ELSE obj[t])
      /\ held'[t] = held[t]
  BY <1>1, SemaAssumption DEF LockInv, TypeOK, UpStep, AfterUp, lockVars, callVars
<1>5. CallInvOf(t)'
  BY <1>1, <1>4, SemaAssumption DEF LockInv, CallInv, CallInvOf, TypeOK, AfterUp
<1>6. MutualExclusion'
  <2>0. \A k \in Locks : Owns(t, k)' <=> k \in held[t]
    BY <1>1, <1>4, SemaAssumption DEF Owns, AfterUp
  <2>1. CASE sema[t] \in Locks
    <3>1. Owns(t, sema[t]) /\ \A k \in Locks : Owns(t, k)' <=> (Owns(t, k) /\ k #
       sema[t])
      BY <1>1, <2>0, <2>1 DEF Owns
    <3>2. value' = [value EXCEPT ![sema[t]] = @ + 1]
      BY DEF UpStep, SemaUp, Upped
    <3> QED
      BY <1>3, <2>1, <3>1, <3>2, LoseOwner DEF LockInv, TypeOK
  <2>2. CASE sema[t] \notin Locks
    <3>1. \A k \in Locks : value'[k] = value[k]
      BY <1>1, <2>2 DEF LockInv, TypeOK, SemaIds, UpStep, SemaUp, Upped
    <3>2. \A k \in Locks : Owns(t, k)' <=> Owns(t, k)
      BY <1>1, <2>0, <2>2 DEF Owns
    <3> QED
      BY <1>3, <3>1, <3>2, KeepOwners DEF LockInv
  <2> QED
    BY <2>1, <2>2
<1>7. HolderIsOwner'
  <2>1. holder' = holder
    BY DEF UpStep, AfterUp, lockVars
  <2>2. \A k \in Locks : Holds(t, k)' <=> Holds(t, k)
    BY <1>1, <1>4 DEF Holds, AfterUp, LockInv, CallInv, CallInvOf
  <2> QED
    BY <1>3, <2>1, <2>2, KeepHolder DEF LockInv
<1> QED
  BY <1>2, <1>3, <1>5, <1>6, <1>7, KeepCalls DEF LockInv

-----------------------------------------------------------------------------
(* The theorems.                                                           *)

\* The initial state of the kernel satisfies the lock invariant.
LEMMA LockInvInit == Init => LockInv
<1> SUFFICES ASSUME Init PROVE LockInv
  OBVIOUS
<1>1. SchedulerTypeOK
  BY ThreadsAssumption, TimeSliceAssumption
  DEF Init, SchedulerInit, SchedulerTypeOK, Status
<1>2. TypeOK
  <2>1. value \in [SemaIds -> Nat]
    BY SemaAssumption DEF Init
  <2>2. sema \in [Threads -> SemaIds \union {NULL}]
    BY SemaAssumption DEF Init, SemaIds
  <2>3. pc \in [Threads -> PCs]
    BY DEF Init, PCs
  <2> QED
    BY <1>1, <2>1, <2>2, <2>3 DEF Init, TypeOK
<1>3. CallInv
  BY SemaAssumption, ThreadsAssumption DEF Init, CallInv, CallInvOf
<1>4. \A t \in Threads, l \in Locks : ~ Owns(t, l) /\ ~ Holds(t, l)
  BY DEF Init, Owns, Holds
<1>5. MutualExclusion
  <2>1. \A l \in Locks : value[l] = 1
    BY SemaAssumption DEF Init, SemaIds
  <2> QED
    BY <1>4, <2>1 DEF MutualExclusion
<1>6. HolderIsOwner
  BY <1>4, ThreadsAssumption DEF Init, HolderIsOwner
<1> QED
  BY <1>2, <1>3, <1>5, <1>6 DEF LockInv

\* A step that changes no variable keeps the lock invariant.
LEMMA LockInvStutter == ASSUME LockInv, UNCHANGED vars PROVE LockInv'
BY DEF vars, LockInv, TypeOK, SchedulerTypeOK, CallInv, CallInvOf, MutualExclusion, Owns,
   HolderIsOwner, Holds

\* Every step of the kernel keeps the lock invariant.
LEMMA LockInvNext == LockInv /\ [Next]_vars => LockInv'
<1> SUFFICES ASSUME LockInv, [Next]_vars PROVE LockInv'
  OBVIOUS
<1>1. ASSUME NEW t \in Threads, Continue(t) PROVE LockInv'
  <2>1. CASE SemaDown(t)
    BY <2>1, SemaDownTakesStep, SemaDownBlocksStep DEF SemaDown
  <2> QED
    BY <1>1, <2>1, LockSetHolderStep, LockClearHolderStep, UpStepStep, BroadcastNextStep,
       BroadcastDoneStep, AllocateTidStep, IncrementTidStep, CreateUnblockStep DEF Continue
<1>2. ASSUME NEW t \in Threads, Call(t) PROVE LockInv'
  BY <1>2, CallSemaDownStep, SemaTryDownStep, CallSemaUpStep, LockAcquireStep,
     LockTryAcquireStep, LockReleaseStep, CondWaitStep, CondSignalStep, CondBroadcastStep,
     ThreadCreateStep, CallYieldStep, ThreadExitStep DEF Call
<1>3. CASE IdleLoop
  BY <1>3, IdleStartStep, IdleUpStep, IdleBlockStep DEF IdleLoop
<1>4. CASE Tick
  <2>1. PICK t \in Threads : t = current
    BY <1>4 DEF LockInv, TypeOK, SchedulerTypeOK, Tick, InterruptsOn
  <2> QED
    BY <1>4, <2>1, TickStep
<1>5. ASSUME NEW s \in IntrSemas, DeviceInterrupt(s) PROVE LockInv'
  <2>1. PICK t \in Threads : t = current
    BY <1>5 DEF LockInv, TypeOK, SchedulerTypeOK, DeviceInterrupt, InterruptsOn
  <2> QED
    BY <1>5, <2>1, DeviceInterruptStep, SemaAssumption
<1> QED
  BY <1>1, <1>2, <1>3, <1>4, <1>5, LockInvStutter DEF Next

\* The lock invariant holds in every reachable state.
THEOREM LockInvariant == Spec => []LockInv
BY LockInvInit, LockInvNext, PTL DEF Spec

\* The model's variables keep to their types, whatever the threads call.
THEOREM TypeCorrectness == Spec => []TypeOK
<1>1. LockInv => TypeOK
  BY DEF LockInv
<1> QED
  BY <1>1, LockInvariant, PTL

\* lock_acquire() and lock_release() exclude: a lock has at most one owner, and
\* its semaphore is 1 exactly while it has none.
THEOREM LocksExclude == Spec => []MutualExclusion
<1>1. LockInv => MutualExclusion
  BY DEF LockInv
<1> QED
  BY <1>1, LockInvariant, PTL

\* lock_held_by_current_thread() answers correctly for every thread.
THEOREM HolderCorrect == Spec => []HolderIsOwner
<1>1. LockInv => HolderIsOwner
  BY DEF LockInv
<1> QED
  BY <1>1, LockInvariant, PTL

-----------------------------------------------------------------------------
(* The scheduler, the wait lists and the condition variables, on top of    *)
(* the lock invariant.                                                     *)

\* The places of idle(), which no other thread is at.
IdlePCs == {"idle_start", "idle_up", "idle_block", "hlt"}

\* Idle is ready, running, or blocked in its loop, and it is known to the scheduler
\* once it has begun to run.
IdleInv ==
    /\ \A t \in Threads : pc[t] \in IdlePCs <=> t = Idle
    /\ idle_thread = NULL <=> pc[Idle] = "idle_start"
    /\ status[Idle] \in {"READY", "RUNNING", "BLOCKED"}
    /\ status[Idle] = "BLOCKED" => pc[Idle] = "hlt"

\* The ready list has the ready threads, each once, idle excepted.
ReadyInv ==
    /\ NoDuplicates(ready_list)
    /\ \A t \in Threads :
          OnList(t, ready_list) <=> status[t] = "READY" /\ t # idle_thread

\* A wait list has the threads blocked in sema_down() of its semaphore, each once.
WaitersInv ==
    \A s \in SemaIds :
        /\ NoDuplicates(waiters[s])
        /\ \A t \in Threads : OnList(t, waiters[s]) <=>
               status[t] = "BLOCKED" /\ pc[t] = "loop" /\ sema[t] = s

\* The thread u is creating stays blocked, at its first instruction, and has no tid
\* until allocate_tid() has got it one.
BirthInvOf(u) ==
    op[u] = "create" =>
        /\ status[obj[u]] = "BLOCKED" /\ pc[obj[u]] = "run"
        /\ pc[u] \in {"down", "loop", "holder", "alloc"} => tid[obj[u]] = 0
        /\ pc[u] = "incr" => tid[obj[u]] = next_tid
        /\ \A v \in Threads : op[v] = "create" /\ obj[v] = obj[u] => v = u
BirthInv == \A u \in Threads : BirthInvOf(u)

\* Every tid given out is smaller than next_tid, but for the one whose increment is
\* still to come.
TidInv ==
    /\ next_tid > 2
    /\ \A t \in Threads : status[t] = "UNBORN" => pc[t] = "run" /\ tid[t] = 0
    /\ \A t \in Threads : tid[t] < next_tid
                            \/ \E u \in Threads : pc[u] = "incr" /\ obj[u] = t
    /\ UniqueTids

SchedulerInv ==
    /\ LockInv /\ OneRunning /\ IdleInv /\ ReadyInv /\ WaitersInv /\ BirthInv /\ TidInv

\* The signal of a waiter is on the condition's list, on its way or there.
SignalInvOf(t) ==
    \/ /\ InWaiterSema(t) /\ value[t] = 1 /\ Listed(t) = {} /\ Signallers(t) = {}
    \/ /\ InWaiterSema(t) /\ value[t] = 0 /\ Listed(t) = {obj[t]} /\ Signallers(t) = {}
    \/ /\ InWaiterSema(t) /\ value[t] = 0 /\ Listed(t) = {}
       /\ \E u \in Threads : Signallers(t) = {u}
    \/ /\ ~ InWaiterSema(t) /\ value[t] = 0 /\ Listed(t) = {} /\ Signallers(t) = {}
SignalInv ==
    /\ \A t \in Threads : SignalInvOf(t)
    /\ \A c \in Conds : NoDuplicates(cond_waiters[c])

-----------------------------------------------------------------------------
(* Lists.                                                                  *)

\* list_push_back() of a thread that is not on the list.
LEMMA PushBack ==
    ASSUME NEW l \in Seq(Threads), NoDuplicates(l), NEW x \in Threads, ~ OnList(x, l)
    PROVE  /\ NoDuplicates(Append(l, x))
           /\ \A t \in Threads : OnList(t, Append(l, x)) <=> OnList(t, l) \/ t = x
<1>1. DOMAIN l = 1 .. Len(l) /\ DOMAIN Append(l, x) = 1 .. Len(l) + 1 /\ Len(l) \in Nat
  OBVIOUS
<1>2. \A i \in 1 .. Len(l) : Append(l, x)[i] = l[i]
  OBVIOUS
<1>3. Append(l, x)[Len(l) + 1] = x
  OBVIOUS
<1>4. \A i \in 1 .. Len(l) + 1 : i \in 1 .. Len(l) \/ i = Len(l) + 1
  BY <1>1
<1>5. NoDuplicates(Append(l, x))
  BY <1>1, <1>2, <1>3, <1>4 DEF NoDuplicates, OnList
<1>6. Len(l) + 1 \in 1 .. Len(l) + 1 /\ \A i \in 1 .. Len(l) : i \in 1 .. Len(l) + 1
  BY <1>1
<1>7. ASSUME NEW t \in Threads PROVE OnList(t, Append(l, x)) <=> OnList(t, l) \/ t = x
  BY <1>1, <1>2, <1>3, <1>4, <1>6 DEF OnList
<1> QED
  BY <1>5, <1>7

\* list_pop_front().
LEMMA PopsFront ==
    ASSUME NEW l \in Seq(Threads), NoDuplicates(l), l # <<>>
    PROVE  /\ NoDuplicates(Tail(l))
           /\ Head(l) \in Threads /\ OnList(Head(l), l)
           /\ \A t \in Threads : OnList(t, Tail(l)) <=> OnList(t, l) /\ t # Head(l)
<1>1. Len(l) \in Nat /\ Len(l) > 0 /\ Head(l) = l[1] /\ DOMAIN l = 1 .. Len(l)
  OBVIOUS
<1>2. DOMAIN Tail(l) = 1 .. Len(l) - 1 /\ \A i \in 1 .. Len(l) - 1 : Tail(l)[i] = l[i + 1]
  OBVIOUS
<1>3. NoDuplicates(Tail(l))
  BY <1>1, <1>2 DEF NoDuplicates
<1>4. Head(l) \in Threads /\ OnList(Head(l), l)
  BY <1>1 DEF OnList
<1>5. ASSUME NEW t \in Threads, OnList(t, Tail(l)) PROVE OnList(t, l) /\ t # Head(l)
  <2>1. PICK i \in 1 .. Len(l) - 1 : l[i + 1] = t
    BY <1>2, <1>5 DEF OnList
  <2>2. i + 1 \in DOMAIN l /\ 1 \in DOMAIN l /\ i + 1 # 1
    BY <1>1
  <2> QED
    BY <1>1, <2>1, <2>2 DEF OnList, NoDuplicates
<1>6. ASSUME NEW t \in Threads, OnList(t, l), t # Head(l) PROVE OnList(t, Tail(l))
  <2>1. PICK i \in 1 .. Len(l) : l[i] = t
    BY <1>1, <1>6 DEF OnList
  <2>2. i - 1 \in 1 .. Len(l) - 1 /\ (i - 1) + 1 = i
    BY <1>1, <1>6, <2>1
  <2> QED
    BY <1>2, <2>1, <2>2 DEF OnList
<1> QED
  BY <1>3, <1>4, <1>5, <1>6

\* Nobody is on an empty list, and somebody on any other.
LEMMA EmptyList ==
    ASSUME NEW l \in Seq(Threads)
    PROVE  l = <<>> <=> \A t \in Threads : ~ OnList(t, l)
<1>1. l = <<>> => \A t \in Threads : ~ OnList(t, l)
  BY DEF OnList
<1>2. l # <<>> => Head(l) \in Threads /\ OnList(Head(l), l)
  <2>1. l # <<>> => Head(l) = l[1] /\ 1 \in DOMAIN l /\ l[1] \in Threads
    OBVIOUS
  <2> QED
    BY <2>1 DEF OnList
<1> QED
  BY <1>1, <1>2

-----------------------------------------------------------------------------
(* The scheduler.                                                          *)

\* The list rl and the statuses st, with which schedule() is called, agree.
Sound(rl, st) ==
    /\ NoDuplicates(rl)
    /\ \A t \in Threads : OnList(t, rl) <=> st[t] = "READY" /\ t # idle_thread

Runnable(t) == status[t] \in {"READY", "RUNNING"}

\* schedule() finds a thread, which becomes the only one that runs.
LEMMA ScheduleSound ==
    ASSUME SchedulerTypeOK, current \in Threads,
           NEW rl \in Seq(Threads), NEW st \in [Threads -> Status], Sound(rl, st),
           \A t \in Threads : st[t] # "RUNNING",
           st[Idle] \in {"READY", "BLOCKED"}, idle_thread = NULL => st[Idle] = "READY",
           Schedule(rl, st)
    PROVE  /\ OneRunning' /\ ReadyInv'
           /\ status'[Idle] \in {"READY", "RUNNING", "BLOCKED"}
           /\ status'[Idle] = "BLOCKED" => st[Idle] = "BLOCKED"
           /\ \A t \in Threads : t # Idle =>
                 /\ status'[t] = "BLOCKED" <=> st[t] = "BLOCKED"
                 /\ status'[t] = "UNBORN" <=> st[t] = "UNBORN"
                 /\ Runnable(t)' <=> st[t] = "READY"
<1> DEFINE next == NextThreadToRun(rl)
<1>1. /\ next \in Threads /\ next # NULL
      /\ next = Idle \/ st[next] = "READY"
      /\ rl # <<>> => st[next] = "READY" /\ next # idle_thread /\ next = Head(rl)
      /\ rl = <<>> => next = idle_thread
  <2>1. CASE rl = <<>>
    <3>1. idle_thread # NULL
      BY <2>1, EmptyList, ThreadsAssumption DEF Sound
    <3> QED
      BY <2>1, <3>1, ThreadsAssumption DEF SchedulerTypeOK, NextThreadToRun
  <2>2. CASE rl # <<>>
    BY <2>2, PopsFront, ThreadsAssumption DEF Sound, NextThreadToRun
  <2> QED
    BY <2>1, <2>2
<1> HIDE DEF next
<1>2. /\ current' = next /\ idle_thread' = idle_thread /\ ready_list' = PopFront(rl)
      /\ status' = [t \in Threads |-> IF t = next THEN "RUNNING"
                       ELSE IF t = current /\ st[t] = "DYING" /\ t # Main THEN "FREED"
                       ELSE st[t]]
  BY DEF Schedule, ScheduleTail, next
<1>3. OneRunning'
  BY <1>1, <1>2 DEF OneRunning
<1>4. /\ NoDuplicates(PopFront(rl))
      /\ \A t \in Threads : OnList(t, PopFront(rl)) <=> st[t] = "READY" /\ t # idle_thread
                                                      /\ t # next
  <2>1. CASE rl = <<>>
    BY <1>1, <2>1 DEF Sound, PopFront
  <2>2. CASE rl # <<>>
    BY <1>1, <2>2, PopsFront DEF Sound, PopFront
  <2> QED
    BY <2>1, <2>2
<1>5. ReadyInv'
  <2>1. \A t \in Threads : status'[t] = "READY" <=> st[t] = "READY" /\ t # next
    BY <1>2
  <2> QED
    BY <1>2, <1>4, <2>1 DEF ReadyInv
<1>6. /\ status'[Idle] \in {"READY", "RUNNING", "BLOCKED"}
      /\ status'[Idle] = "BLOCKED" => st[Idle] = "BLOCKED"
  BY <1>2, ThreadsAssumption
<1>7. ASSUME NEW t \in Threads, t # Idle
      PROVE  /\ status'[t] = "BLOCKED" <=> st[t] = "BLOCKED"
             /\ status'[t] = "UNBORN" <=> st[t] = "UNBORN"
             /\ Runnable(t)' <=> st[t] = "READY"
  BY <1>1, <1>2, <1>7 DEF Runnable
<1> QED
  BY <1>3, <1>5, <1>6, <1>7

\* What a step may do to the statuses of the threads but for those in B: a thread
\* stays blocked, unborn, or on its way to the CPU or on it; Idle does not block.
StatusesKept(B) ==
    /\ status'[Idle] \in {"READY", "RUNNING", "BLOCKED"}
    /\ status'[Idle] = "BLOCKED" /\ Idle \notin B => status[Idle] = "BLOCKED"
    /\ \A t \in Threads : t # Idle /\ t \notin B =>
          /\ status'[t] = "BLOCKED" <=> status[t] = "BLOCKED"
          /\ status'[t] = "UNBORN" <=> status[t] = "UNBORN"
          /\ Runnable(t)' <=> Runnable(t)

\* thread_yield(): the thread that ran stays runnable.
LEMMA YieldKeeps ==
    ASSUME SchedulerInv, ThreadYield
    PROVE  OneRunning' /\ ReadyInv' /\ StatusesKept({})
<1> DEFINE st == [status EXCEPT ![current] = "READY"]
<1>1. /\ SchedulerTypeOK /\ current \in Threads /\ st \in [Threads -> Status]
      /\ YieldedList \in Seq(Threads)
  BY DEF SchedulerInv, LockInv, TypeOK, OneRunning, SchedulerTypeOK, Status, YieldedList
<1>2. /\ \A t \in Threads : st[t] = IF t = current THEN "READY" ELSE status[t]
      /\ \A t \in Threads : status[t] = "RUNNING" <=> t = current
  BY <1>1 DEF SchedulerTypeOK, SchedulerInv, OneRunning
<1>3. Sound(YieldedList, st)
  <2>1. ~ OnList(current, ready_list)
    BY <1>1, <1>2 DEF SchedulerInv, ReadyInv
  <2> QED
    BY <1>1, <1>2, <2>1, PushBack
    DEF SchedulerInv, ReadyInv, Sound, YieldedList, SchedulerTypeOK
<1>4. st[Idle] \in {"READY", "BLOCKED"} /\ (idle_thread = NULL => st[Idle] = "READY")
  BY <1>2, ThreadsAssumption DEF SchedulerInv, IdleInv
<1>5. Schedule(YieldedList, st) /\ \A t \in Threads : st[t] # "RUNNING"
  BY <1>2 DEF ThreadYield
<1> HIDE DEF st
<1> QED
  BY <1>1, <1>2, <1>3, <1>4, <1>5, ScheduleSound, ThreadsAssumption
  DEF StatusesKept, Runnable

\* thread_block(): only the thread that calls it blocks.
LEMMA BlockKeeps ==
    ASSUME SchedulerInv, ThreadBlock(ready_list, status), current = Idle => idle_thread # NULL
    PROVE  /\ OneRunning' /\ ReadyInv' /\ StatusesKept({current})
           /\ current # Idle => status'[current] = "BLOCKED"
<1> DEFINE st == [status EXCEPT ![current] = "BLOCKED"]
<1>1. /\ SchedulerTypeOK /\ current \in Threads /\ st \in [Threads -> Status]
      /\ ready_list \in Seq(Threads)
  BY DEF SchedulerInv, LockInv, TypeOK, OneRunning, SchedulerTypeOK, Status
<1>2. /\ \A t \in Threads : st[t] = IF t = current THEN "BLOCKED" ELSE status[t]
      /\ \A t \in Threads : status[t] = "RUNNING" <=> t = current
  BY <1>1 DEF SchedulerTypeOK, SchedulerInv, OneRunning
<1>3. Sound(ready_list, st)
  BY <1>1, <1>2 DEF SchedulerInv, ReadyInv, Sound
<1>4. st[Idle] \in {"READY", "BLOCKED"} /\ (idle_thread = NULL => st[Idle] = "READY")
  BY <1>2, ThreadsAssumption DEF SchedulerInv, IdleInv
<1>5. Schedule(ready_list, st) /\ \A t \in Threads : st[t] # "RUNNING"
  BY <1>2 DEF ThreadBlock
<1> HIDE DEF st
<1> QED
  BY <1>1, <1>2, <1>3, <1>4, <1>5, ScheduleSound, ThreadsAssumption
  DEF StatusesKept, Runnable

\* sema_up(s) wakes t.
Wakes(s, t) == waiters[s] # <<>> /\ t = Head(waiters[s])

\* The lists and statuses sema_up() leaves agree, and the one it wakes was waiting.
LEMMA UpSound ==
    ASSUME SchedulerInv, NEW s \in SemaIds
    PROVE  /\ UppedList(s) \in Seq(Threads) /\ UppedStatus(s) \in [Threads -> Status]
           /\ Sound(UppedList(s), UppedStatus(s))
           /\ \A t \in Threads : UppedStatus(s)[t] = IF Wakes(s, t) THEN "READY" ELSE status[t]
           /\ \A t \in Threads : Wakes(s, t) =>
                 status[t] = "BLOCKED" /\ pc[t] = "loop" /\ sema[t] = s /\ t # Idle
           /\ waiters[s] # <<>> => \E t \in Threads : Wakes(s, t)
           /\ NoDuplicates(PopFront(waiters[s]))
           /\ \A t \in Threads : OnList(t, PopFront(waiters[s])) <=>
                                      OnList(t, waiters[s]) /\ ~ Wakes(s, t)
<1>1. /\ waiters[s] \in Seq(Threads) /\ ready_list \in Seq(Threads)
      /\ status \in [Threads -> Status] /\ NoDuplicates(waiters[s])
  BY DEF SchedulerInv, LockInv, TypeOK, SchedulerTypeOK, WaitersInv
<1>2. UppedList(s) \in Seq(Threads) /\ UppedStatus(s) \in [Threads -> Status]
  BY UppedType DEF SchedulerInv, LockInv
<1>3. CASE waiters[s] = <<>>
  BY <1>1, <1>2, <1>3 DEF UppedList, UppedStatus, Wakes, PopFront, Sound, SchedulerInv,
     ReadyInv
<1>4. CASE waiters[s] # <<>>
  <2> DEFINE h == Head(waiters[s])
  <2>1. /\ h \in Threads /\ OnList(h, waiters[s]) /\ NoDuplicates(Tail(waiters[s]))
        /\ \A t \in Threads : OnList(t, Tail(waiters[s])) <=> OnList(t, waiters[s]) /\ t # h
    BY <1>1, <1>4, PopsFront
  <2>2. /\ PopFront(waiters[s]) = Tail(waiters[s]) /\ UppedList(s) = Append(ready_list, h)
        /\ UppedStatus(s) = [status EXCEPT ![h] = "READY"]
        /\ \A t : Wakes(s, t) <=> t = h
    BY <1>4 DEF UppedList, UppedStatus, UnblockedList, UnblockedStatus, PopFront, Wakes
  <2> HIDE DEF h
  <2>3. status[h] = "BLOCKED" /\ pc[h] = "loop" /\ sema[h] = s /\ h # Idle
    BY <2>1 DEF SchedulerInv, WaitersInv, IdleInv, IdlePCs
  <2>4. ~ OnList(h, ready_list) /\ h # idle_thread
    BY <2>1, <2>3, ThreadsAssumption DEF SchedulerInv, ReadyInv, LockInv, TypeOK,
       SchedulerTypeOK
  <2>5. Sound(UppedList(s), UppedStatus(s))
    BY <1>1, <2>1, <2>2, <2>4, PushBack DEF SchedulerInv, ReadyInv, Sound
  <2> QED
    BY <1>1, <1>2, <1>4, <2>1, <2>2, <2>3, <2>5
<1> QED
  BY <1>3, <1>4

\* sema_up() as a step of its own: the woken thread is ready, nobody else changes.
LEMMA UpKeeps ==
    ASSUME SchedulerInv, NEW s \in SemaIds, SemaUp(s)
    PROVE  /\ OneRunning' /\ ReadyInv'
           /\ StatusesKept({t \in Threads : Wakes(s, t)})
           /\ \A t \in Threads : Wakes(s, t) => status'[t] = "READY"
<1>1. /\ current' = current /\ idle_thread' = idle_thread
      /\ status' = UppedStatus(s) /\ ready_list' = UppedList(s)
  BY DEF SemaUp
<1>2. OneRunning'
  BY <1>1, UpSound DEF SchedulerInv, OneRunning
<1>3. ReadyInv'
  BY <1>1, UpSound DEF ReadyInv, Sound
<1> QED
  BY <1>1, <1>2, <1>3, UpSound, ThreadsAssumption DEF StatusesKept, Runnable,
     SchedulerInv, IdleInv

-----------------------------------------------------------------------------
(* What a step of the running thread t keeps.                              *)

\* If t is creating a thread, it still is, and no further back in allocate_tid().
NoTid == {"down", "loop", "holder", "alloc"}
CreationGoesOn(t) ==
    /\ tid' = tid /\ next_tid' = next_tid
    /\ op'[t] = "create" => op[t] = "create" /\ obj'[t] = obj[t]
                              /\ (pc'[t] \in NoTid => pc[t] \in NoTid)
    /\ pc'[t] = "incr" <=> pc[t] = "incr"
    /\ pc[t] = "incr" => obj'[t] = obj[t]

\* The threads being created stay as they are, and so do the tids.
LEMMA BirthsKept ==
    ASSUME SchedulerInv, NEW t \in Threads, t = current, OthersSame(t), CreationGoesOn(t),
           NEW B, StatusesKept(B),
           \A x \in B : status'[x] # "UNBORN" /\ (x = t \/ pc[x] = "loop")
    PROVE  BirthInv' /\ TidInv'
<1>1. status[t] = "RUNNING" /\ \A u \in Threads : u # t => Same(u)
  BY DEF SchedulerInv, OneRunning, OthersSame
<1>2. \A u \in Threads : op'[u] = "create" =>
          /\ op[u] = "create" /\ obj'[u] = obj[u]
          /\ pc'[u] \in NoTid => pc[u] \in NoTid
          /\ pc'[u] = "incr" => pc[u] = "incr"
  BY <1>1 DEF Same, CreationGoesOn
<1>3. \A u \in Threads : op[u] = "create" =>
          /\ obj[u] \in Threads /\ status[obj[u]] = "BLOCKED" /\ pc[obj[u]] = "run"
          /\ pc[u] \in NoTid => tid[obj[u]] = 0
          /\ pc[u] = "incr" => tid[obj[u]] = next_tid
          /\ \A v \in Threads : op[v] = "create" /\ obj[v] = obj[u] => v = u
  BY DEF SchedulerInv, BirthInv, BirthInvOf, LockInv, CallInv, CallInvOf, NoTid
<1>4. \A x \in Threads : status[x] = "BLOCKED" /\ pc[x] = "run" =>
                            status'[x] = "BLOCKED" /\ pc'[x] = "run"
  <2>1. \A x \in Threads : status[x] = "BLOCKED" /\ pc[x] = "run" => x # t /\ x # Idle /\ x \notin B
    BY <1>1 DEF SchedulerInv, IdleInv, IdlePCs
  <2> QED
    BY <1>1, <2>1 DEF StatusesKept, Same
<1>5. BirthInv'
  BY <1>2, <1>3, <1>4 DEF BirthInv, BirthInvOf, CreationGoesOn, NoTid
<1>6. \A x \in Threads : status'[x] = "UNBORN" => status[x] = "UNBORN" /\ x # t
  <2>1. Runnable(t)
    BY <1>1 DEF Runnable
  <2> QED
    BY <1>1, <2>1 DEF StatusesKept, Runnable
<1>7. \A x \in Threads : status'[x] = "UNBORN" => pc'[x] = "run" /\ tid[x] = 0
  BY <1>1, <1>6 DEF SchedulerInv, TidInv, Same
<1>8. \A u \in Threads : pc[u] = "incr" => pc'[u] = "incr" /\ obj'[u] = obj[u]
  BY <1>1 DEF Same, CreationGoesOn
<1>9. TidInv'
  BY <1>7, <1>8 DEF SchedulerInv, TidInv, UniqueTids, CreationGoesOn
<1> QED
  BY <1>5, <1>9

\* The wait lists agree with the statuses as long as they do not change.
LEMMA WaitersKept ==
    ASSUME SchedulerInv, IdleInv', NEW t \in Threads, t = current, OthersSame(t),
           waiters' = waiters, StatusesKept({})
    PROVE  WaitersInv'
<1>1. status[t] = "RUNNING" /\ \A u \in Threads : u # t => Same(u)
  BY DEF SchedulerInv, OneRunning, OthersSame
<1>2. \A x \in Threads : x # Idle /\ x # t =>
         /\ status'[x] = "BLOCKED" <=> status[x] = "BLOCKED"
         /\ pc'[x] = pc[x] /\ sema'[x] = sema[x]
  BY <1>1 DEF StatusesKept, Same
<1>3. pc[Idle] # "loop" /\ pc'[Idle] # "loop"
  BY ThreadsAssumption DEF SchedulerInv, IdleInv, IdlePCs
<1>4. t # Idle => status'[t] # "BLOCKED"
  BY <1>1 DEF StatusesKept, Runnable
<1>5. \A x \in Threads, s \in SemaIds :
         status'[x] = "BLOCKED" /\ pc'[x] = "loop" /\ sema'[x] = s <=>
         status[x] = "BLOCKED" /\ pc[x] = "loop" /\ sema[x] = s
  BY <1>1, <1>2, <1>3, <1>4
<1> QED
  BY <1>5 DEF SchedulerInv, WaitersInv

\* A step of a thread other than Idle leaves Idle alone.
LEMMA IdleKept ==
    ASSUME SchedulerInv, NEW t \in Threads, t # Idle, OthersSame(t), pc'[t] \notin IdlePCs,
           idle_thread' = idle_thread, NEW B, Idle \notin B, StatusesKept(B)
    PROVE  IdleInv'
BY ThreadsAssumption DEF SchedulerInv, IdleInv, OthersSame, Same, StatusesKept

\* A step that touches neither the scheduler nor a wait list keeps the invariant.
LEMMA LocalKept ==
    ASSUME SchedulerInv, LockInv', NEW t \in Threads, t = current, t # Idle, OthersSame(t),
           pc'[t] \notin IdlePCs, UNCHANGED <<schedulerVars, waiters>>, CreationGoesOn(t)
    PROVE  SchedulerInv'
<1>1. StatusesKept({})
  BY DEF StatusesKept, schedulerVars, SchedulerInv, IdleInv, Runnable
<1>2. OneRunning' /\ ReadyInv'
  BY DEF SchedulerInv, OneRunning, ReadyInv, schedulerVars
<1>3. IdleInv'
  BY <1>1, IdleKept DEF schedulerVars
<1>4. WaitersInv'
  BY <1>1, <1>3, WaitersKept
<1>5. BirthInv' /\ TidInv'
  BY <1>1, BirthsKept
<1> QED
  BY <1>2, <1>3, <1>4, <1>5 DEF SchedulerInv

\* A step that is a sema_up(), whatever t goes on to do.
LEMMA UpStepKept ==
    ASSUME SchedulerInv, LockInv', NEW t \in Threads, t = current, OthersSame(t), IdleInv',
           NEW s \in SemaIds, SemaUp(s), CreationGoesOn(t)
    PROVE  SchedulerInv'
<1> DEFINE B == {x \in Threads : Wakes(s, x)}
<1>1. OneRunning' /\ ReadyInv' /\ StatusesKept(B) /\ \A x \in B : status'[x] = "READY"
  BY UpKeeps
<1>2. \A x \in B : status[x] = "BLOCKED" /\ pc[x] = "loop" /\ sema[x] = s /\ x # Idle
  BY UpSound
<1>3. BirthInv' /\ TidInv'
  <2> HIDE DEF B
  <2> QED
    BY <1>1, <1>2, BirthsKept
<1>4. status[t] = "RUNNING" /\ \A u \in Threads : u # t => Same(u)
  BY DEF SchedulerInv, OneRunning, OthersSame
<1>5. pc[Idle] # "loop" /\ pc'[Idle] # "loop"
  BY ThreadsAssumption DEF SchedulerInv, IdleInv, IdlePCs
<1>6. t \notin B /\ (t # Idle => status'[t] # "BLOCKED")
  BY <1>1, <1>2, <1>4 DEF StatusesKept, Runnable
<1>7. \A x \in Threads, r \in SemaIds :
         status'[x] = "BLOCKED" /\ pc'[x] = "loop" /\ sema'[x] = r <=>
         status[x] = "BLOCKED" /\ pc[x] = "loop" /\ sema[x] = r /\ x \notin B
  BY <1>1, <1>2, <1>4, <1>5, <1>6 DEF StatusesKept, Same
<1>8. \A r \in SemaIds : waiters'[r] = IF r = s THEN PopFront(waiters[s]) ELSE waiters[r]
  BY DEF SemaUp, Upped, SchedulerInv, LockInv, TypeOK
<1>9. WaitersInv'
  <2> SUFFICES ASSUME NEW r \in SemaIds
               PROVE  /\ NoDuplicates(waiters'[r])
                      /\ \A x \in Threads : OnList(x, waiters'[r]) <=>
                            status'[x] = "BLOCKED" /\ pc'[x] = "loop" /\ sema'[x] = r
    BY DEF WaitersInv
  <2>1. CASE r = s
    BY <1>7, <1>8, <2>1, UpSound DEF SchedulerInv, WaitersInv
  <2>2. CASE r # s
    BY <1>2, <1>7, <1>8, <2>2 DEF SchedulerInv, WaitersInv
  <2> QED
    BY <2>1, <2>2
<1> QED
  BY <1>1, <1>3, <1>9 DEF SchedulerInv

\* A step in which t is preempted or yields.
LEMMA YieldStepKept ==
    ASSUME SchedulerInv, LockInv', NEW t \in Threads, t = current, OthersSame(t), IdleInv',
           ThreadYield, waiters' = waiters, CreationGoesOn(t)
    PROVE  SchedulerInv'
<1>1. OneRunning' /\ ReadyInv' /\ StatusesKept({})
  BY YieldKeeps
<1>2. WaitersInv'
  BY <1>1, WaitersKept
<1>3. BirthInv' /\ TidInv'
  BY <1>1, BirthsKept
<1> QED
  BY <1>1, <1>2, <1>3 DEF SchedulerInv

-----------------------------------------------------------------------------
(* The actions, for the scheduler invariant.                               *)

\* The steps that touch neither the scheduler nor the wait lists nor the tids.
LocalStep(t) ==
    \/ SemaDown(t) /\ SemaDownTakes(t)
    \/ LockSetHolder(t) \/ LockClearHolder(t) \/ BroadcastNext(t) \/ BroadcastDone(t)
    \/ \E s \in Semas \ {IdleStarted} : CallSemaDown(t, s) \/ SemaTryDown(t, s)
    \/ \E l \in Locks \ {TidLock} :
          LockAcquire(t, l) \/ LockTryAcquire(t, l) \/ LockRelease(t, l)
    \/ \E c \in Conds : CondWait(t, c) \/ CondSignal(t, c) \/ CondBroadcast(t, c)

\* The facts LocalKept asks for.
Local(t) == /\ t = current /\ t # Idle /\ OthersSame(t) /\ pc'[t] \notin IdlePCs
            /\ UNCHANGED <<schedulerVars, waiters>> /\ CreationGoesOn(t)

\* They do: such a step is one of the running thread, which is not Idle.
LEMMA LocalSteps ==
    ASSUME SchedulerInv, NEW t \in Threads, LocalStep(t)
    PROVE  Local(t)
<1> USE DEF SchedulerInv, LockInv, TypeOK, Local, OthersSame, Same, IdlePCs, CreationGoesOn, NoTid,
        At, Calling, schedulerVars, semaVars, lockVars, callVars, tidVars
<1>0. pc[t] \in IdlePCs <=> t = Idle
  BY DEF IdleInv
<1>0a. CallInvOf(t)
  BY DEF CallInv
<1> USE <1>0, <1>0a
<1>1. CASE SemaDown(t) /\ SemaDownTakes(t)
  BY <1>1 DEF SemaDown, SemaDownTakes, Downed, CallInvOf
<1>2. CASE LockSetHolder(t)
  BY <1>2 DEF LockSetHolder, CallInvOf
<1>3. CASE LockClearHolder(t)
  BY <1>3 DEF LockClearHolder
<1>4. CASE BroadcastNext(t)
  BY <1>4 DEF BroadcastNext, SignalPops, CallInvOf
<1>5. CASE BroadcastDone(t)
  BY <1>5 DEF BroadcastDone
<1>6. ASSUME NEW s \in Semas, CallSemaDown(t, s) PROVE Local(t)
  BY <1>6 DEF CallSemaDown, CallInvOf
<1>7. ASSUME NEW s \in Semas, SemaTryDown(t, s) PROVE Local(t)
  BY <1>7 DEF SemaTryDown, CallInvOf
<1>8. ASSUME NEW l \in Locks, LockAcquire(t, l) PROVE Local(t)
  BY <1>8 DEF LockAcquire, CallInvOf
<1>9. ASSUME NEW l \in Locks, LockTryAcquire(t, l) PROVE Local(t)
  BY <1>9 DEF LockTryAcquire, CallInvOf
<1>10. ASSUME NEW l \in Locks, LockRelease(t, l) PROVE Local(t)
  BY <1>10 DEF LockRelease, CallInvOf
<1>11. ASSUME NEW c \in Conds, CondWait(t, c) PROVE Local(t)
  <2>1. t \in SemaIds /\ waiters[t] \in Seq(Threads) /\ status[t] = "RUNNING"
    BY <1>11 DEF CondWait, SemaIds, OneRunning
  <2>2. ASSUME NEW x \in Threads PROVE ~ OnList(x, waiters[t])
    <3>1. pc[x] = "loop" /\ sema[x] = t => x = t
      BY SemaAssumption DEF CallInv, CallInvOf
    <3> QED
      BY <2>1, <3>1 DEF WaitersInv
  <2>3. waiters' = waiters
    BY <1>11, <2>1, <2>2, EmptyList DEF CondWait
  <2> QED
    BY <1>11, <2>3 DEF CondWait, CallInvOf
<1>12. ASSUME NEW c \in Conds, CondSignal(t, c) PROVE Local(t)
  BY <1>12 DEF CondSignal, SignalPops, CallInvOf
<1>13. ASSUME NEW c \in Conds, CondBroadcast(t, c) PROVE Local(t)
  BY <1>13 DEF CondBroadcast, CallInvOf
<1> QED
  BY <1>1, <1>2, <1>3, <1>4, <1>5, <1>6, <1>7, <1>8, <1>9, <1>10, <1>11, <1>12, <1>13
  DEF LocalStep

\* sema_down() finds no unit: t joins the wait list and blocks.
LEMMA SemaDownBlocksSched ==
    ASSUME SchedulerInv, LockInv', NEW t \in Threads, SemaDown(t), SemaDownBlocks(t)
    PROVE  SchedulerInv'
<1>1. /\ t = current /\ status[t] = "RUNNING" /\ pc[t] \in {"down", "loop"} /\ t # Idle
      /\ sema[t] \in SemaIds
  BY DEF SemaDown, At, SchedulerInv, OneRunning, IdleInv, IdlePCs, LockInv, CallInv,
     CallInvOf, SemaIds
<1>2. OthersSame(t) /\ pc'[t] = "loop" /\ sema'[t] = sema[t] /\ CreationGoesOn(t)
  BY <1>1 DEF SemaDown, SemaDownBlocks, SchedulerInv, LockInv, TypeOK, OthersSame, Same,
              CreationGoesOn, NoTid, lockVars, tidVars
<1>3. OneRunning' /\ ReadyInv' /\ StatusesKept({t}) /\ status'[t] = "BLOCKED"
  BY <1>1, BlockKeeps DEF SemaDownBlocks
<1>4. IdleInv'
  BY <1>1, <1>2, <1>3, IdleKept DEF SemaDownBlocks, ThreadBlock, Schedule, IdlePCs
<1>5. BirthInv' /\ TidInv'
  BY <1>1, <1>2, <1>3, BirthsKept
<1>6. \A r \in SemaIds : waiters'[r] = IF r = sema[t] THEN Append(waiters[r], t) ELSE waiters[r]
  BY DEF SemaDownBlocks, SchedulerInv, LockInv, TypeOK
<1>7. pc[Idle] # "loop" /\ pc'[Idle] # "loop"
  BY <1>4, ThreadsAssumption DEF SchedulerInv, IdleInv, IdlePCs
<1>8. \A x \in Threads : x # t => /\ pc'[x] = pc[x] /\ sema'[x] = sema[x]
                                  /\ x # Idle => (status'[x] = "BLOCKED" <=> status[x] = "BLOCKED")
  BY <1>2, <1>3 DEF OthersSame, Same, StatusesKept
<1>9. WaitersInv'
  <2> SUFFICES ASSUME NEW r \in SemaIds
               PROVE  /\ NoDuplicates(waiters'[r])
                      /\ \A x \in Threads : OnList(x, waiters'[r]) <=>
                            status'[x] = "BLOCKED" /\ pc'[x] = "loop" /\ sema'[x] = r
    BY DEF WaitersInv
  <2>1. waiters[r] \in Seq(Threads) /\ ~ OnList(t, waiters[r])
    BY <1>1 DEF SchedulerInv, WaitersInv, LockInv, TypeOK
  <2>2. CASE r = sema[t]
    BY <1>2, <1>3, <1>6, <1>7, <1>8, <2>1, <2>2, PushBack DEF SchedulerInv, WaitersInv
  <2>3. CASE r # sema[t]
    BY <1>2, <1>6, <1>7, <1>8, <2>1, <2>3 DEF SchedulerInv, WaitersInv
  <2> QED
    BY <2>2, <2>3
<1> QED
  BY <1>3, <1>4, <1>5, <1>9 DEF SchedulerInv

\* The sema_up() in lock_release() and cond_signal().
LEMMA UpStepSched ==
    ASSUME SchedulerInv, LockInv', NEW t \in Threads, UpStep(t)
    PROVE  SchedulerInv'
<1>1. t = current /\ pc[t] = "up" /\ t # Idle /\ sema[t] \in SemaIds /\ SemaUp(sema[t])
  BY DEF UpStep, At, SchedulerInv, IdleInv, IdlePCs, LockInv, CallInv, CallInvOf,
     SemaIds
<1>2. OthersSame(t) /\ pc'[t] \notin IdlePCs /\ CreationGoesOn(t)
  BY <1>1 DEF UpStep, AfterUp, SchedulerInv, LockInv, TypeOK, OthersSame, Same,
     CreationGoesOn, NoTid, IdlePCs, lockVars, tidVars
<1>3. IdleInv'
  <2>1. StatusesKept({x \in Threads : Wakes(sema[t], x)}) /\ ~ Wakes(sema[t], Idle)
    BY <1>1, UpKeeps, UpSound, ThreadsAssumption
  <2> QED
    BY <1>1, <1>2, <2>1, IdleKept DEF SemaUp
<1> QED
  BY <1>1, <1>2, <1>3, UpStepKept

\* A caller's sema_up().
LEMMA CallSemaUpSched ==
    ASSUME SchedulerInv, LockInv', NEW t \in Threads, NEW s \in Semas, CallSemaUp(t, s)
    PROVE  SchedulerInv'
<1>1. t = current /\ t # Idle /\ s \in SemaIds /\ SemaUp(s) /\ UNCHANGED callVars
  BY DEF CallSemaUp, Calling, At, SemaIds
<1>2. OthersSame(t) /\ pc'[t] \notin IdlePCs /\ CreationGoesOn(t)
  BY <1>1 DEF CallSemaUp, SchedulerInv, IdleInv, OthersSame, Same, CreationGoesOn,
     callVars, lockVars, tidVars
<1>3. IdleInv'
  <2>1. StatusesKept({x \in Threads : Wakes(s, x)}) /\ ~ Wakes(s, Idle)
    BY <1>1, UpKeeps, UpSound, ThreadsAssumption
  <2> QED
    BY <1>1, <1>2, <2>1, IdleKept DEF SemaUp
<1> QED
  BY <1>1, <1>2, <1>3, UpStepKept

\* thread_create() up to allocate_tid(): an unborn thread becomes a blocked one.
LEMMA ThreadCreateSched ==
    ASSUME SchedulerInv, LockInv', NEW t \in Threads, NEW u \in Threads, ThreadCreate(t, u)
    PROVE  SchedulerInv'
<1>1. /\ t = current /\ t # Idle /\ status[t] = "RUNNING" /\ pc[t] = "run"
      /\ status[u] = "UNBORN" /\ pc[u] = "run" /\ tid[u] = 0 /\ u # t /\ u # Idle
  BY DEF ThreadCreate, Calling, At, SchedulerInv, OneRunning, IdleInv, TidInv
<1>2. /\ OthersSame(t) /\ pc'[t] = "down" /\ op'[t] = "create" /\ obj'[t] = u
      /\ \A x \in Threads : status'[x] = IF x = u THEN "BLOCKED" ELSE status[x]
      /\ UNCHANGED <<current, ready_list, idle_thread, waiters, tid, next_tid>>
  BY <1>1 DEF ThreadCreate, SchedulerInv, LockInv, TypeOK, SchedulerTypeOK, OthersSame,
     Same, lockVars, semaVars, tidVars
<1>3. OneRunning' /\ ReadyInv' /\ StatusesKept({u})
  BY <1>1, <1>2, ThreadsAssumption
  DEF SchedulerInv, OneRunning, ReadyInv, StatusesKept, Runnable, IdleInv
<1>4. IdleInv'
  BY <1>1, <1>2, <1>3, IdleKept DEF IdlePCs
<1>5. WaitersInv'
  BY <1>1, <1>2 DEF SchedulerInv, WaitersInv, OthersSame, Same
<1>6. \A v \in Threads : op[v] = "create" => obj[v] # u /\ v # t /\ obj[v] \in Threads
  BY <1>1 DEF SchedulerInv, BirthInv, BirthInvOf, LockInv, CallInv, CallInvOf
<1>7. BirthInv'
  <2> SUFFICES ASSUME NEW v \in Threads PROVE BirthInvOf(v)'
    BY DEF BirthInv
  <2>1. CASE v = t
    BY <1>1, <1>2, <1>6, <2>1 DEF BirthInvOf, OthersSame, Same
  <2>2. CASE v # t
    <3>1. obj[v] # t \/ op[v] # "create"
      BY <1>1 DEF SchedulerInv, BirthInv, BirthInvOf
    <3>2. op'[v] = op[v] /\ obj'[v] = obj[v] /\ pc'[v] = pc[v]
      BY <1>2, <2>2 DEF OthersSame, Same
    <3> QED
      BY <1>2, <1>6, <2>2, <3>1, <3>2 DEF SchedulerInv, BirthInv, BirthInvOf,
         OthersSame, Same
  <2> QED
    BY <2>1, <2>2
<1>8. TidInv'
  <2>1. \A x \in Threads : pc[x] = "incr" => pc'[x] = "incr" /\ obj'[x] = obj[x]
    BY <1>1, <1>2 DEF OthersSame, Same
  <2>2. \A x \in Threads : status'[x] = "UNBORN" => pc'[x] = "run" /\ tid[x] = 0
    BY <1>1, <1>2 DEF SchedulerInv, TidInv, OthersSame, Same
  <2> QED
    BY <1>2, <2>1, <2>2 DEF SchedulerInv, TidInv, UniqueTids
<1> QED
  BY <1>3, <1>4, <1>5, <1>7, <1>8 DEF SchedulerInv

\* Only one thread at a time is between the load and the store of next_tid++.
LEMMA OneAllocates ==
    ASSUME SchedulerInv, NEW t \in Threads, NEW u \in Threads,
           pc[t] \in {"alloc", "incr"}, pc[u] \in {"alloc", "incr"}
    PROVE  u = t
BY SemaAssumption DEF SchedulerInv, LockInv, CallInv, CallInvOf, MutualExclusion, Owns

\* tid = next_tid.
LEMMA AllocateTidSched ==
    ASSUME SchedulerInv, LockInv', NEW t \in Threads, AllocateTid(t)
    PROVE  SchedulerInv'
<1> DEFINE x == obj[t]
<1>1. /\ t = current /\ t # Idle /\ pc[t] = "alloc" /\ op[t] = "create" /\ x \in Threads
      /\ tid[x] = 0 /\ next_tid \in Nat
  BY DEF AllocateTid, At, SchedulerInv, IdleInv, IdlePCs, BirthInv, BirthInvOf, LockInv,
     TypeOK, CallInv, CallInvOf
<1>2. /\ OthersSame(t) /\ pc'[t] = "incr" /\ op'[t] = op[t] /\ obj'[t] = x
      /\ \A y \in Threads : tid'[y] = IF y = x THEN next_tid ELSE tid[y]
      /\ UNCHANGED <<schedulerVars, waiters, next_tid>>
  BY <1>1 DEF AllocateTid, SchedulerInv, LockInv, TypeOK, OthersSame, Same, lockVars,
     semaVars
<1>3. StatusesKept({})
  BY <1>2 DEF StatusesKept, schedulerVars, SchedulerInv, IdleInv, Runnable
<1>4. OneRunning' /\ ReadyInv'
  BY <1>2 DEF SchedulerInv, OneRunning, ReadyInv, schedulerVars
<1>5. IdleInv'
  BY <1>1, <1>2, <1>3, IdleKept DEF schedulerVars, IdlePCs
<1>6. WaitersInv'
  BY <1>1, <1>2, <1>3, <1>5, WaitersKept
<1>7. BirthInv'
  <2> SUFFICES ASSUME NEW v \in Threads, op'[v] = "create" PROVE BirthInvOf(v)'
    BY DEF BirthInv, BirthInvOf
  <2>1. op[v] = "create" /\ obj'[v] = obj[v] /\ obj[v] \in Threads /\ BirthInvOf(v)
    BY <1>1, <1>2 DEF OthersSame, Same, SchedulerInv, BirthInv, LockInv, CallInv,
       CallInvOf
  <2>2. \A w \in Threads : op'[w] = op[w] /\ obj'[w] = obj[w] /\ (w # t => pc'[w] = pc[w])
    BY <1>2 DEF OthersSame, Same
  <2>3. obj[v] # t
    BY <1>1, <2>1 DEF BirthInvOf
  <2>4. CASE v = t
    BY <1>2, <2>1, <2>2, <2>3, <2>4 DEF BirthInvOf, schedulerVars
  <2>5. CASE v # t
    <3>1. obj[v] # x /\ pc[v] # "incr"
      BY <1>1, <2>1, <2>5, OneAllocates DEF BirthInvOf
    <3> QED
      BY <1>2, <2>1, <2>2, <2>3, <2>5, <3>1 DEF BirthInvOf, schedulerVars
  <2> QED
    BY <2>4, <2>5
<1>8. TidInv'
  <2>1. \A y \in Threads : tid[y] \in Nat /\ tid[y] < next_tid
    BY <1>1, OneAllocates DEF SchedulerInv, TidInv, LockInv, TypeOK
  <2>2. \A y \in Threads : status'[y] = "UNBORN" => pc'[y] = "run" /\ tid'[y] = 0
    BY <1>1, <1>2
    DEF SchedulerInv, TidInv, OthersSame, Same, schedulerVars, BirthInv, BirthInvOf
  <2>3. UniqueTids'
    BY <1>1, <1>2, <2>1 DEF SchedulerInv, TidInv, UniqueTids
  <2> QED
    BY <1>1, <1>2, <2>1, <2>2, <2>3 DEF SchedulerInv, TidInv
<1> QED
  BY <1>4, <1>5, <1>6, <1>7, <1>8 DEF SchedulerInv

\* next_tid = tid + 1, and the release of tid_lock begins.
LEMMA IncrementTidSched ==
    ASSUME SchedulerInv, LockInv', NEW t \in Threads, IncrementTid(t)
    PROVE  SchedulerInv'
<1> DEFINE x == obj[t]
<1>1. /\ t = current /\ t # Idle /\ pc[t] = "incr" /\ op[t] = "create" /\ x \in Threads
      /\ tid[x] = next_tid /\ next_tid \in Nat
  <2>1. t = current /\ pc[t] = "incr"  BY DEF IncrementTid, At
  <2>2. t # Idle  BY <2>1 DEF SchedulerInv, IdleInv, IdlePCs
  <2>3. op[t] = "create" /\ x \in Threads /\ next_tid \in Nat
    BY <2>1 DEF SchedulerInv, LockInv, TypeOK, CallInv, CallInvOf
  <2>4. tid[x] = next_tid  BY <2>1, <2>3 DEF SchedulerInv, BirthInv, BirthInvOf
  <2> QED BY <2>1, <2>2, <2>3, <2>4
<1>2. /\ OthersSame(t) /\ pc'[t] = "release" /\ op'[t] = op[t] /\ obj'[t] = x
      /\ next_tid' = next_tid + 1
      /\ UNCHANGED <<schedulerVars, waiters, tid>>
  BY <1>1 DEF IncrementTid, SchedulerInv, LockInv, TypeOK, OthersSame, Same, lockVars,
     semaVars
<1>3. StatusesKept({})
  BY <1>2 DEF StatusesKept, schedulerVars, SchedulerInv, IdleInv, Runnable
<1>4. OneRunning' /\ ReadyInv'
  BY <1>2 DEF SchedulerInv, OneRunning, ReadyInv, schedulerVars
<1>5. IdleInv'
  BY <1>1, <1>2, <1>3, IdleKept DEF schedulerVars, IdlePCs
<1>6. WaitersInv'
  BY <1>1, <1>2, <1>3, <1>5, WaitersKept
<1>7. BirthInv'
  <2> SUFFICES ASSUME NEW v \in Threads, op'[v] = "create" PROVE BirthInvOf(v)'
    BY DEF BirthInv, BirthInvOf
  <2>1. op[v] = "create" /\ obj'[v] = obj[v] /\ obj[v] \in Threads /\ BirthInvOf(v)
    BY <1>1, <1>2 DEF OthersSame, Same, SchedulerInv, BirthInv, LockInv, CallInv,
       CallInvOf
  <2>2. \A w \in Threads : op'[w] = op[w] /\ obj'[w] = obj[w] /\ (w # t => pc'[w] = pc[w])
    BY <1>2 DEF OthersSame, Same
  <2>3. obj[v] # t /\ (pc[v] = "incr" => v = t)
    BY <1>1, <2>1, OneAllocates DEF BirthInvOf
  <2> QED
    BY <1>2, <2>1, <2>2, <2>3 DEF BirthInvOf, schedulerVars
<1>8. TidInv'
  <2>1. ASSUME NEW y \in Threads PROVE tid[y] \in Nat /\ tid[y] < next_tid + 1
    <3>1. tid[y] \in Nat /\ (tid[y] < next_tid \/ \E u \in Threads : pc[u] = "incr" /\ obj[u] = y)
      BY DEF SchedulerInv, TidInv, LockInv, TypeOK
    <3>2. \A u \in Threads : pc[u] = "incr" => u = t
      BY <1>1, OneAllocates
    <3> QED
      BY <1>1, <3>1, <3>2
  <2>2. \A y \in Threads : status'[y] = "UNBORN" => pc'[y] = "run" /\ tid'[y] = 0
    BY <1>1, <1>2 DEF SchedulerInv, TidInv, OthersSame, Same, schedulerVars
  <2> QED
    BY <1>1, <1>2, <2>1, <2>2 DEF SchedulerInv, TidInv, UniqueTids
<1> QED
  BY <1>4, <1>5, <1>6, <1>7, <1>8 DEF SchedulerInv

\* The new thread is made ready.
LEMMA CreateUnblockSched ==
    ASSUME SchedulerInv, LockInv', NEW t \in Threads, CreateUnblock(t)
    PROVE  SchedulerInv'
<1> DEFINE x == obj[t]
<1>1. /\ t = current /\ t # Idle /\ pc[t] = "unblock" /\ op[t] = "create" /\ x \in Threads
      /\ status[x] = "BLOCKED" /\ pc[x] = "run" /\ x # Idle /\ x # idle_thread
      /\ status[t] = "RUNNING" /\ x # t
  BY ThreadsAssumption
  DEF CreateUnblock, At, SchedulerInv, OneRunning, IdleInv, IdlePCs, BirthInv,
     BirthInvOf, LockInv, TypeOK, CallInv, CallInvOf, SchedulerTypeOK
<1>2. /\ OthersSame(t) /\ pc'[t] = "run" /\ op'[t] = "none"
      /\ ready_list' = Append(ready_list, x)
      /\ \A y \in Threads : status'[y] = IF y = x THEN "READY" ELSE status[y]
      /\ UNCHANGED <<current, idle_thread, waiters, tid, next_tid>>
  BY <1>1 DEF CreateUnblock, UnblockedList, UnblockedStatus, SchedulerInv, LockInv,
     TypeOK, SchedulerTypeOK, OthersSame, Same, lockVars, semaVars, tidVars
<1>3. StatusesKept({x}) /\ OneRunning'
  BY <1>1, <1>2, ThreadsAssumption DEF StatusesKept, SchedulerInv, IdleInv, OneRunning,
     Runnable
<1>4. ReadyInv'
  <2>1. ready_list \in Seq(Threads) /\ ~ OnList(x, ready_list)
    BY <1>1 DEF SchedulerInv, ReadyInv, LockInv, TypeOK, SchedulerTypeOK
  <2> HIDE DEF x
  <2> QED
    BY <1>1, <1>2, <2>1, PushBack DEF SchedulerInv, ReadyInv
<1>5. IdleInv'
  BY <1>1, <1>2, <1>3, IdleKept DEF IdlePCs
<1>6. WaitersInv'
  BY <1>1, <1>2 DEF SchedulerInv, WaitersInv, OthersSame, Same
<1>7. BirthInv'
  <2> SUFFICES ASSUME NEW v \in Threads, op'[v] = "create" PROVE BirthInvOf(v)'
    BY DEF BirthInv, BirthInvOf
  <2>1. v # t /\ op[v] = "create" /\ obj'[v] = obj[v] /\ obj[v] \in Threads /\ BirthInvOf(v)
    BY <1>1, <1>2 DEF OthersSame, Same, SchedulerInv, BirthInv, LockInv, CallInv,
       CallInvOf
  <2>2. obj[v] # x /\ obj[v] # t
    BY <1>1, <2>1 DEF BirthInvOf
  <2> QED
    BY <1>2, <2>1, <2>2 DEF BirthInvOf, OthersSame, Same
<1>8. TidInv'
  <2>1. \A y \in Threads : pc[y] = "incr" => pc'[y] = "incr" /\ obj'[y] = obj[y]
    BY <1>1, <1>2 DEF OthersSame, Same
  <2>2. \A y \in Threads : status'[y] = "UNBORN" => pc'[y] = "run" /\ tid[y] = 0
    BY <1>1, <1>2 DEF SchedulerInv, TidInv, OthersSame, Same
  <2> QED
    BY <1>2, <2>1, <2>2 DEF SchedulerInv, TidInv, UniqueTids
<1> QED
  BY <1>3, <1>4, <1>5, <1>6, <1>7, <1>8 DEF SchedulerInv

\* thread_yield().
LEMMA CallYieldSched ==
    ASSUME SchedulerInv, LockInv', NEW t \in Threads, CallYield(t)
    PROVE  SchedulerInv'
<1>1. /\ t = current /\ t # Idle /\ OthersSame(t) /\ pc'[t] \notin IdlePCs /\ ThreadYield
      /\ waiters' = waiters /\ CreationGoesOn(t)
  BY DEF CallYield, Calling, At, SchedulerInv, IdleInv, OthersSame, Same,
     CreationGoesOn, callVars, semaVars, lockVars, tidVars
<1>2. IdleInv'
  BY <1>1, YieldKeeps, IdleKept DEF ThreadYield, Schedule
<1> QED
  BY <1>1, <1>2, YieldStepKept

\* thread_exit() wakes the waiter, and t never runs again.
LEMMA ExitKeeps ==
    ASSUME SchedulerInv, NEW t \in Threads, ThreadExit(t)
    PROVE  /\ OneRunning' /\ ReadyInv'
           /\ StatusesKept({x \in Threads : Wakes(WaitingSema[t], x)} \union {t})
           /\ \A x \in Threads : Wakes(WaitingSema[t], x) => Runnable(x)'
           /\ status'[t] \notin {"UNBORN", "BLOCKED"}
<1> DEFINE s == WaitingSema[t]
           B == {x \in Threads : Wakes(s, x)}
           st == [UppedStatus(s) EXCEPT ![t] = "DYING"]
<1>1. t = current /\ t # Idle /\ status[t] = "RUNNING" /\ s \in SemaIds
  BY SemaAssumption DEF ThreadExit, Calling, At, SchedulerInv, OneRunning, SemaIds
<1> HIDE DEF s
<1>2. /\ UppedList(s) \in Seq(Threads) /\ UppedStatus(s) \in [Threads -> Status]
      /\ Sound(UppedList(s), UppedStatus(s))
      /\ \A x \in Threads : UppedStatus(s)[x] = IF x \in B THEN "READY" ELSE status[x]
      /\ \A x \in B : status[x] = "BLOCKED" /\ x # Idle /\ x # t
  BY <1>1, UpSound
<1>3. /\ st \in [Threads -> Status]
      /\ \A x \in Threads : st[x] = IF x = t THEN "DYING" ELSE IF x \in B THEN "READY" ELSE status[x]
  BY <1>2 DEF Status
<1>4. Sound(UppedList(s), st)
  BY <1>1, <1>2, <1>3 DEF Sound
<1>5. /\ \A x \in Threads : st[x] # "RUNNING"
      /\ st[Idle] \in {"READY", "BLOCKED"} /\ (idle_thread = NULL => st[Idle] = "READY")
  BY <1>1, <1>2, <1>3, ThreadsAssumption DEF SchedulerInv, OneRunning, IdleInv
<1>6. Schedule(UppedList(s), st) /\ SchedulerTypeOK /\ current \in Threads
  BY <1>1 DEF ThreadExit, s, SchedulerInv, LockInv, TypeOK
<1>7. B \subseteq Threads
  OBVIOUS
<1> HIDE DEF st, B
<1>8. /\ OneRunning' /\ ReadyInv' /\ status'[Idle] \in {"READY", "RUNNING", "BLOCKED"}
      /\ status'[Idle] = "BLOCKED" => st[Idle] = "BLOCKED"
      /\ \A x \in Threads : x # Idle =>
            /\ status'[x] = "BLOCKED" <=> st[x] = "BLOCKED"
            /\ status'[x] = "UNBORN" <=> st[x] = "UNBORN"
            /\ Runnable(x)' <=> st[x] = "READY"
  BY <1>2, <1>3, <1>4, <1>5, <1>6, ScheduleSound
<1>9. \A x \in Threads : x # t => (Runnable(x) <=> status[x] = "READY")
  BY <1>1 DEF SchedulerInv, OneRunning, Runnable
<1>10. StatusesKept(B \union {t})
  BY <1>1, <1>2, <1>3, <1>7, <1>8, <1>9, ThreadsAssumption DEF StatusesKept
<1>11. (\A x \in B : Runnable(x)') /\ status'[t] \notin {"UNBORN", "BLOCKED"}
  BY <1>1, <1>2, <1>3, <1>7, <1>8
<1> QED
  BY <1>8, <1>10, <1>11 DEF B, s

\* thread_exit().
LEMMA ThreadExitSched ==
    ASSUME SchedulerInv, LockInv', NEW t \in Threads, ThreadExit(t)
    PROVE  SchedulerInv'
<1> DEFINE s == WaitingSema[t]
           B == {x \in Threads : Wakes(s, x)}
<1>1. /\ t = current /\ t # Idle /\ pc[t] = "run" /\ status[t] = "RUNNING" /\ s \in SemaIds
      /\ UNCHANGED callVars /\ idle_thread' = idle_thread
  BY SemaAssumption DEF ThreadExit, Calling, At, Schedule, SchedulerInv, OneRunning,
     SemaIds
<1>2. OthersSame(t) /\ pc'[t] \notin IdlePCs /\ CreationGoesOn(t)
  BY <1>1 DEF ThreadExit, SchedulerInv, IdleInv, OthersSame, Same, CreationGoesOn,
     callVars, lockVars, tidVars
<1>3. \A x \in B : status[x] = "BLOCKED" /\ pc[x] = "loop" /\ sema[x] = s /\ x # Idle /\ x # t
  BY <1>1, UpSound
<1>4. /\ OneRunning' /\ ReadyInv' /\ StatusesKept(B \union {t})
      /\ \A x \in B \union {t} : status'[x] # "UNBORN" /\ status'[x] # "BLOCKED"
  BY ExitKeeps DEF Runnable
<1> HIDE DEF B
<1>5. IdleInv'
  BY <1>1, <1>2, <1>3, <1>4, IdleKept
<1>6. BirthInv' /\ TidInv'
  BY <1>1, <1>2, <1>3, <1>4, BirthsKept
<1>7. \A x \in Threads, r \in SemaIds :
         status'[x] = "BLOCKED" /\ pc'[x] = "loop" /\ sema'[x] = r <=>
         status[x] = "BLOCKED" /\ pc[x] = "loop" /\ sema[x] = r /\ x \notin B
  <2>1. pc' = pc /\ sema' = sema /\ pc[Idle] # "loop"
    BY <1>1, ThreadsAssumption DEF callVars, SchedulerInv, IdleInv, IdlePCs
  <2> QED
    BY <1>1, <1>3, <1>4, <2>1 DEF StatusesKept
<1>8. \A r \in SemaIds : waiters'[r] = IF r = s THEN PopFront(waiters[s]) ELSE waiters[r]
  BY DEF ThreadExit, Upped, SchedulerInv, LockInv, TypeOK
<1>9. WaitersInv'
  <2> SUFFICES ASSUME NEW r \in SemaIds
               PROVE  /\ NoDuplicates(waiters'[r])
                      /\ \A x \in Threads : OnList(x, waiters'[r]) <=>
                            status'[x] = "BLOCKED" /\ pc'[x] = "loop" /\ sema'[x] = r
    BY DEF WaitersInv
  <2>1. CASE r = s
    BY <1>7, <1>8, <2>1, UpSound DEF SchedulerInv, WaitersInv, B
  <2>2. CASE r # s
    BY <1>3, <1>7, <1>8, <2>2 DEF SchedulerInv, WaitersInv
  <2> QED
    BY <2>1, <2>2
<1> QED
  BY <1>4, <1>5, <1>6, <1>9 DEF SchedulerInv

\* idle() makes itself known to the scheduler.
LEMMA IdleStartSched ==
    ASSUME SchedulerInv, LockInv', IdleStart
    PROVE  SchedulerInv'
<1>1. /\ Idle = current /\ status[Idle] = "RUNNING" /\ pc[Idle] = "idle_start" /\ Idle \in Threads
      /\ pc'[Idle] = "idle_up" /\ OthersSame(Idle) /\ idle_thread' = Idle
      /\ UNCHANGED <<current, status, ready_list, waiters, tid, next_tid, op, obj, sema>>
  BY ThreadsAssumption DEF IdleStart, At, SchedulerInv, OneRunning, OthersSame, Same,
     lockVars, tidVars, semaVars, LockInv, TypeOK
<1>2. StatusesKept({}) /\ OneRunning'
  BY <1>1 DEF StatusesKept, SchedulerInv, OneRunning, IdleInv, Runnable
<1>3. ReadyInv'
  BY <1>1, ThreadsAssumption DEF SchedulerInv, ReadyInv, IdleInv
<1>4. IdleInv'
  BY <1>1, ThreadsAssumption DEF SchedulerInv, IdleInv, IdlePCs, OthersSame, Same
<1>5. WaitersInv'
  BY <1>1, <1>2, <1>4, WaitersKept
<1>6. BirthInv' /\ TidInv'
  BY <1>1, <1>2, BirthsKept DEF CreationGoesOn, NoTid
<1> QED
  BY <1>2, <1>3, <1>4, <1>5, <1>6 DEF SchedulerInv

\* idle() lets thread_start() go on.
LEMMA IdleUpSched ==
    ASSUME SchedulerInv, LockInv', IdleUp
    PROVE  SchedulerInv'
<1>1. /\ Idle = current /\ status[Idle] = "RUNNING" /\ pc[Idle] = "idle_up" /\ Idle \in Threads
      /\ pc'[Idle] = "idle_block" /\ OthersSame(Idle) /\ IdleStarted \in SemaIds
      /\ SemaUp(IdleStarted) /\ UNCHANGED <<tid, next_tid, op, obj, sema>>
  BY ThreadsAssumption, SemaAssumption
  DEF IdleUp, At, SchedulerInv, OneRunning, OthersSame, Same, lockVars, tidVars,
     LockInv, TypeOK, SemaIds
<1>2. status'[Idle] = "RUNNING" /\ idle_thread' = idle_thread
  BY <1>1, UpKeeps DEF SemaUp, OneRunning
<1>3. IdleInv'
  BY <1>1, <1>2, ThreadsAssumption DEF SchedulerInv, IdleInv, IdlePCs, OthersSame, Same
<1> QED
  BY <1>1, <1>3, UpStepKept DEF CreationGoesOn, NoTid

\* idle() blocks.
LEMMA IdleBlockSched ==
    ASSUME SchedulerInv, LockInv', IdleBlock
    PROVE  SchedulerInv'
<1>1. /\ Idle = current /\ status[Idle] = "RUNNING" /\ pc[Idle] = "idle_block" /\ Idle \in Threads
      /\ pc'[Idle] = "hlt" /\ OthersSame(Idle) /\ idle_thread # NULL
      /\ ThreadBlock(ready_list, status) /\ UNCHANGED <<idle_thread, waiters, tid, next_tid, op, obj, sema>>
  BY ThreadsAssumption
  DEF IdleBlock, ThreadBlock, Schedule, At, SchedulerInv, IdleInv, OneRunning,
     OthersSame, Same, lockVars, tidVars, semaVars, LockInv, TypeOK
<1>2. OneRunning' /\ ReadyInv' /\ StatusesKept({Idle})
  BY <1>1, BlockKeeps
<1>3. IdleInv'
  BY <1>1, <1>2, ThreadsAssumption DEF SchedulerInv, IdleInv, IdlePCs, OthersSame, Same,
     StatusesKept
<1>4. WaitersInv'
  <2>1. \A x \in Threads : x # Idle => /\ pc'[x] = pc[x] /\ sema'[x] = sema[x]
                                       /\ status'[x] = "BLOCKED" <=> status[x] = "BLOCKED"
    BY <1>1, <1>2 DEF OthersSame, Same, StatusesKept
  <2> QED
    BY <1>1, <2>1 DEF SchedulerInv, WaitersInv
<1>5. BirthInv' /\ TidInv'
  <2>1. CreationGoesOn(Idle) /\ \A x \in {Idle} : status'[x] # "UNBORN"
    BY <1>1, <1>2 DEF CreationGoesOn, NoTid, StatusesKept
  <2> QED
    BY <1>1, <1>2, <2>1, BirthsKept
<1> QED
  BY <1>2, <1>3, <1>4, <1>5 DEF SchedulerInv

\* The interrupted thread goes on where it was; "hlt" is over.
LEMMA InterruptedLocals ==
    ASSUME SchedulerInv, NEW t \in Threads, t = current, pc' = Interrupted,
           UNCHANGED <<lockVars, sema, op, obj, tidVars>>, idle_thread' = idle_thread,
           status'[Idle] \in {"READY", "RUNNING", "BLOCKED"},
           status'[Idle] = "BLOCKED" => status[Idle] = "BLOCKED" /\ t # Idle
    PROVE  OthersSame(t) /\ CreationGoesOn(t) /\ IdleInv'
<1>1. /\ \A x \in Threads : pc'[x] = IF x = t /\ pc[x] = "hlt" THEN "idle_block" ELSE pc[x]
      /\ pc[t] = "hlt" => t = Idle
  BY DEF Interrupted, SchedulerInv, LockInv, TypeOK, IdleInv, IdlePCs
<1>2. OthersSame(t)
  BY <1>1 DEF OthersSame, Same, lockVars
<1>3. CreationGoesOn(t)
  BY <1>1 DEF CreationGoesOn, NoTid, SchedulerInv, LockInv, CallInv, CallInvOf,
     BirthInv, BirthInvOf, IdleInv, IdlePCs, tidVars
<1>4. IdleInv'
  BY <1>1, ThreadsAssumption DEF SchedulerInv, IdleInv, IdlePCs
<1> QED
  BY <1>2, <1>3, <1>4

\* The timer interrupt.
LEMMA TickSched ==
    ASSUME SchedulerInv, LockInv', Tick
    PROVE  SchedulerInv'
<1> DEFINE t == current
<1>1. /\ t \in Threads /\ status[t] = "RUNNING" /\ pc' = Interrupted /\ waiters' = waiters
      /\ UNCHANGED <<lockVars, sema, op, obj, tidVars>>
  BY DEF Tick, SchedulerInv, OneRunning, LockInv, TypeOK, SchedulerTypeOK, semaVars
<1>2. CASE ThreadYield
  <2>1. StatusesKept({}) /\ idle_thread' = idle_thread
    BY <1>2, YieldKeeps DEF ThreadYield, Schedule
  <2>2. OthersSame(t) /\ CreationGoesOn(t) /\ IdleInv'
    <3>1. status'[Idle] \in {"READY", "RUNNING", "BLOCKED"}
          /\ (status'[Idle] = "BLOCKED" => status[Idle] = "BLOCKED" /\ t # Idle)
      BY <1>1, <2>1 DEF StatusesKept
    <3> QED
      BY <1>1, <2>1, <3>1, InterruptedLocals
  <2> QED
    BY <1>1, <1>2, <2>2, YieldStepKept
<1>3. CASE UNCHANGED <<current, status, ready_list, idle_thread>>
  <2>1. OthersSame(t) /\ CreationGoesOn(t) /\ IdleInv'
    <3>1. status'[Idle] \in {"READY", "RUNNING", "BLOCKED"}
          /\ (status'[Idle] = "BLOCKED" => status[Idle] = "BLOCKED" /\ t # Idle)
      BY <1>1, <1>3 DEF SchedulerInv, IdleInv
    <3> QED
      BY <1>1, <1>3, <3>1, InterruptedLocals
  <2>2. StatusesKept({}) /\ OneRunning' /\ ReadyInv'
    BY <1>3 DEF SchedulerInv, OneRunning, ReadyInv, StatusesKept, IdleInv, Runnable
  <2>3. WaitersInv' /\ BirthInv' /\ TidInv'
    BY <1>1, <2>1, <2>2, WaitersKept, BirthsKept
  <2> QED
    BY <2>1, <2>2, <2>3 DEF SchedulerInv
<1> QED
  BY <1>2, <1>3 DEF Tick, ThreadTick

\* An interrupt handler's sema_up().
LEMMA DeviceInterruptSched ==
    ASSUME SchedulerInv, LockInv', NEW s \in Semas, DeviceInterrupt(s)
    PROVE  SchedulerInv'
<1> DEFINE t == current
<1>1. /\ t \in Threads /\ status[t] = "RUNNING" /\ pc' = Interrupted /\ s \in SemaIds /\ SemaUp(s)
      /\ UNCHANGED <<lockVars, sema, op, obj, tidVars>>
  BY DEF DeviceInterrupt, SchedulerInv, OneRunning, LockInv, TypeOK, SchedulerTypeOK,
     SemaIds
<1>2. StatusesKept({x \in Threads : Wakes(s, x)}) /\ ~ Wakes(s, Idle)
      /\ idle_thread' = idle_thread
  BY <1>1, UpKeeps, UpSound, ThreadsAssumption DEF SemaUp
<1>3. OthersSame(t) /\ CreationGoesOn(t) /\ IdleInv'
  <2>1. status'[Idle] \in {"READY", "RUNNING", "BLOCKED"}
        /\ (status'[Idle] = "BLOCKED" => status[Idle] = "BLOCKED" /\ t # Idle)
    BY <1>1, <1>2 DEF StatusesKept
  <2> QED
    BY <1>1, <1>2, <2>1, InterruptedLocals
<1> QED
  BY <1>1, <1>3, UpStepKept

-----------------------------------------------------------------------------
(* The theorem about the scheduler.                                        *)

\* Main runs and Idle is ready when thread_start() is about to wait.
LEMMA SchedulerInvInit == Init => SchedulerInv
<1> SUFFICES ASSUME Init PROVE SchedulerInv
  OBVIOUS
<1> USE ThreadsAssumption, SemaAssumption
<1>1. LockInv
  BY LockInvInit
<1>2. OneRunning
  BY DEF Init, SchedulerInit, OneRunning
<1>3. IdleInv
  BY DEF Init, SchedulerInit, IdleInv, IdlePCs
<1>4. ReadyInv
  <2>1. ready_list = <<Idle>> /\ DOMAIN ready_list = {1} /\ ready_list[1] = Idle
    BY DEF Init, SchedulerInit
  <2>2. \A t \in Threads : status[t] = "READY" <=> t = Idle
    BY DEF Init, SchedulerInit
  <2>3. idle_thread = NULL
    BY DEF Init, SchedulerInit
  <2> QED
    BY <2>1, <2>2, <2>3 DEF ReadyInv, NoDuplicates, OnList
<1>5. WaitersInv
  BY DEF Init, WaitersInv, NoDuplicates, OnList
<1>6. BirthInv
  BY DEF Init, BirthInv, BirthInvOf
<1>7. TidInv
  BY DEF Init, SchedulerInit, TidInv, UniqueTids
<1> QED
  BY <1>1, <1>2, <1>3, <1>4, <1>5, <1>6, <1>7 DEF SchedulerInv

\* Every step of the kernel keeps the scheduler invariant.
LEMMA SchedulerInvNext == SchedulerInv /\ [Next]_vars => SchedulerInv'
<1> SUFFICES ASSUME SchedulerInv, [Next]_vars PROVE SchedulerInv'
  OBVIOUS
<1>1. LockInv'
  BY LockInvNext DEF SchedulerInv
<1>2. ASSUME NEW t \in Threads, LocalStep(t) PROVE SchedulerInv'
  BY <1>1, <1>2, LocalSteps, LocalKept DEF Local
<1>3. ASSUME NEW t \in Threads, Continue(t) PROVE SchedulerInv'
  BY <1>1, <1>2, <1>3, SemaDownBlocksSched, UpStepSched, AllocateTidSched,
     IncrementTidSched, CreateUnblockSched
  DEF Continue, LocalStep, SemaDown
<1>4. ASSUME NEW t \in Threads, Call(t) PROVE SchedulerInv'
  BY <1>1, <1>2, <1>4, CallSemaUpSched, ThreadCreateSched, CallYieldSched,
     ThreadExitSched
  DEF Call, LocalStep
<1>5. CASE IdleLoop
  BY <1>1, <1>5, IdleStartSched, IdleUpSched, IdleBlockSched DEF IdleLoop
<1>6. CASE Tick
  BY <1>1, <1>6, TickSched
<1>7. ASSUME NEW s \in IntrSemas, DeviceInterrupt(s) PROVE SchedulerInv'
  BY <1>1, <1>7, DeviceInterruptSched, SemaAssumption
<1>8. CASE UNCHANGED vars
  BY <1>1, <1>8 DEF vars, SchedulerInv, OneRunning, IdleInv, ReadyInv, WaitersInv,
     BirthInv, BirthInvOf, TidInv, UniqueTids
<1> QED
  BY <1>3, <1>4, <1>5, <1>6, <1>7, <1>8 DEF Next

\* The scheduler's inductive invariant holds in every reachable state.
THEOREM SchedulerInvariant == Spec => []SchedulerInv
BY SchedulerInvInit, SchedulerInvNext, PTL DEF Spec

\* Whatever is created, blocked, woken or preempted, a thread is on the one list its
\* state calls for, one thread runs, and no two threads share a tid.
THEOREM SchedulerIsSound == Spec => []SchedulerSound
<1>1. SchedulerInv => SchedulerSound
  BY DEF SchedulerInv, ReadyInv, WaitersInv, TidInv, SchedulerSound, ElemOnOneList
<1> QED
  BY <1>1, SchedulerInvariant, PTL

-----------------------------------------------------------------------------
(* No wakeup is lost.                                                      *)

NoLostOf(s) == waiters[s] # <<>> => value[s] <= Cardinality(Woken(s))

\* A woken thread other than t is still on its way to its test of the value.
WokenStay(t) == \A x \in Threads : x # t /\ pc[x] = "loop" /\ Runnable(x) => Runnable(x)'

\* A semaphore whose value does not grow and whose woken threads stay.
LEMMA WokenKept ==
    ASSUME SchedulerInv, SchedulerInv', NEW s \in SemaIds, NoLostOf(s),
           value'[s] <= value[s] \/ value'[s] = 0,
           waiters'[s] # <<>> => waiters[s] # <<>> \/ value'[s] = 0, Woken(s) \subseteq Woken(s)'
    PROVE  NoLostOf(s)'
<1>1. IsFiniteSet(Woken(s)) /\ IsFiniteSet(Woken(s)')
  BY FS_Subset, ThreadsAssumption DEF Woken
<1>2. Cardinality(Woken(s)) \in Nat /\ Cardinality(Woken(s)') \in Nat
      /\ Cardinality(Woken(s)) <= Cardinality(Woken(s)')
  BY <1>1, FS_Subset, FS_CardinalityType
<1>3. value[s] \in Nat /\ value'[s] \in Nat
  BY DEF SchedulerInv, LockInv, TypeOK
<1> QED
  BY <1>2, <1>3 DEF NoLostOf

\* The threads on their way to semaphore s stay so, if t is not one of them.
LEMMA OthersWoken ==
    ASSUME SchedulerInv, NEW t \in Threads, OthersSame(t), WokenStay(t), NEW s \in SemaIds,
           pc[t] # "loop" \/ sema[t] # s
    PROVE  Woken(s) \subseteq Woken(s)'
BY DEF Woken, OthersSame, Same, WokenStay, Runnable

\* sema_up(s): if threads wait, the new unit comes with a newly woken thread.
LEMMA UppedNoLost ==
    ASSUME SchedulerInv, SchedulerInv', NoLostWakeup, NEW t \in Threads, pc[t] # "loop",
           OthersSame(t), NEW s \in SemaIds, Upped(s), WokenStay(t),
           \A x \in Threads : Wakes(s, x) => Runnable(x)'
    PROVE  NoLostWakeup'
<1>1. /\ \A r \in SemaIds : value'[r] = IF r = s THEN value[r] + 1 ELSE value[r]
      /\ \A r \in SemaIds : waiters'[r] = IF r = s THEN PopFront(waiters[r]) ELSE waiters[r]
      /\ \A r \in SemaIds : value[r] \in Nat /\ waiters[r] \in Seq(Threads)
  BY DEF Upped, SchedulerInv, LockInv, TypeOK
<1>2. ASSUME NEW r \in SemaIds, r # s PROVE NoLostOf(r)'
  BY <1>1, <1>2, WokenKept, OthersWoken DEF NoLostWakeup, NoLostOf
<1>3. NoLostOf(s)'
  <2> SUFFICES ASSUME waiters'[s] # <<>> PROVE value'[s] <= Cardinality(Woken(s)')
    BY DEF NoLostOf
  <2>1. waiters[s] # <<>>
    BY <1>1 DEF PopFront
  <2>2. PICK h \in Threads : Wakes(s, h)
    BY <2>1, UpSound
  <2>3. h \notin Woken(s) /\ h # t /\ h \in Woken(s)'
    BY <2>2, UpSound DEF Woken, OthersSame, Same, Runnable
  <2>4. Woken(s) \union {h} \subseteq Woken(s)'
    BY <2>3, OthersWoken
  <2>5. IsFiniteSet(Woken(s)) /\ IsFiniteSet(Woken(s)')
    BY FS_Subset, ThreadsAssumption DEF Woken
  <2>6. Cardinality(Woken(s) \union {h}) = Cardinality(Woken(s)) + 1
        /\ Cardinality(Woken(s) \union {h}) <= Cardinality(Woken(s)')
        /\ Cardinality(Woken(s)) \in Nat /\ Cardinality(Woken(s)') \in Nat
    BY <2>3, <2>4, <2>5, FS_AddElement, FS_Subset, FS_CardinalityType
  <2> QED
    BY <1>1, <2>1, <2>6 DEF NoLostWakeup
<1> QED
  BY <1>2, <1>3 DEF NoLostWakeup, NoLostOf

\* A step that is no sema_up() and in which t, if it was woken, does not leave the loop.
LEMMA QuietNoLost ==
    ASSUME SchedulerInv, SchedulerInv', NoLostWakeup, NEW t \in Threads, pc[t] # "loop",
           OthersSame(t), WokenStay(t), waiters' = waiters,
           \A s \in SemaIds : value'[s] <= value[s] \/ value'[s] = 0
    PROVE  NoLostWakeup'
BY WokenKept, OthersWoken DEF NoLostWakeup, NoLostOf

\* The steps that neither block nor wake leave the values or take a unit.
LEMMA LocalValues ==
    ASSUME SchedulerInv, NEW t \in Threads, LocalStep(t)
    PROVE  \A s \in SemaIds : value'[s] <= value[s] \/ value'[s] = 0
<1>1. \A s \in SemaIds : value[s] \in Nat
  BY DEF SchedulerInv, LockInv, TypeOK
<1>2. value' = value \/ \E s \in SemaIds : \/ value' = [value EXCEPT ![s] = @ - 1]
                                           \/ value' = [value EXCEPT ![s] = 0]
  <2>1. Semas \subseteq SemaIds /\ Locks \subseteq SemaIds /\ t \in SemaIds
    BY DEF SemaIds
  <2>2. pc[t] \in {"down", "loop"} => sema[t] \in SemaIds
    BY DEF SemaIds, SchedulerInv, LockInv, CallInv, CallInvOf
  <2> QED
    BY <2>1, <2>2
    DEF LocalStep, SemaDown, At, SemaDownTakes, LockSetHolder, LockClearHolder,
       BroadcastNext, BroadcastDone, CallSemaDown, SemaTryDown, LockAcquire,
       LockTryAcquire, LockRelease, CondWait, CondSignal, CondBroadcast, SignalPops,
       semaVars
<1> QED
  BY <1>1, <1>2 DEF SchedulerInv, LockInv, TypeOK

\* What schedule() and sema_up() do to the statuses takes no woken thread out of the way.
LEMMA StatusesStay ==
    ASSUME SchedulerInv, NEW t \in Threads, NEW B, StatusesKept(B),
           \A x \in B : x = t \/ ~ Runnable(x)
    PROVE  WokenStay(t)
BY DEF WokenStay, StatusesKept, SchedulerInv, IdleInv, IdlePCs

\* sema_down() after a wakeup: t takes a unit, or blocks again when there is none.
LEMMA DownNoLost ==
    ASSUME SchedulerInv, SchedulerInv', NoLostWakeup, NEW t \in Threads, SemaDown(t)
    PROVE  NoLostWakeup'
<1>0. /\ t = current /\ pc[t] \in {"down", "loop"} /\ sema[t] \in SemaIds /\ t # Idle
  BY DEF SemaDown, At, SchedulerInv, LockInv, CallInv, CallInvOf, SemaIds, IdleInv,
     IdlePCs
<1>1. OthersSame(t)
  BY DEF SemaDown, SemaDownTakes, SemaDownBlocks, Downed, SchedulerInv, LockInv, TypeOK,
     OthersSame, Same, lockVars
<1>s. PICK s \in SemaIds : s = sema[t]
  BY <1>0
<1>2. CASE SemaDownTakes(t)
  <2>1. /\ value[s] > 0 /\ WokenStay(t) /\ waiters' = waiters
        /\ \A r \in SemaIds : value'[r] = IF r = s THEN value[r] - 1 ELSE value[r]
        /\ \A r \in SemaIds : value[r] \in Nat
    BY <1>s, <1>2 DEF SemaDownTakes, WokenStay, Runnable, schedulerVars, SchedulerInv,
       LockInv, TypeOK
  <2>2. ASSUME NEW r \in SemaIds, r # s PROVE NoLostOf(r)'
    BY <1>1, <1>s, <2>1, <2>2, WokenKept, OthersWoken DEF NoLostWakeup, NoLostOf
  <2>3. NoLostOf(s)'
    <3>1. Woken(s) \ {t} \subseteq Woken(s)'
      BY <1>1, <2>1 DEF Woken, OthersSame, Same, WokenStay, Runnable
    <3>2. IsFiniteSet(Woken(s)) /\ IsFiniteSet(Woken(s)')
      BY FS_Subset, ThreadsAssumption DEF Woken
    <3>3. Cardinality(Woken(s) \ {t}) >= Cardinality(Woken(s)) - 1
          /\ Cardinality(Woken(s) \ {t}) <= Cardinality(Woken(s)')
          /\ Cardinality(Woken(s)) \in Nat /\ Cardinality(Woken(s)') \in Nat
          /\ Cardinality(Woken(s) \ {t}) \in Nat
      BY <3>1, <3>2, FS_RemoveElement, FS_Subset, FS_CardinalityType
    <3> QED
      BY <2>1, <3>3 DEF NoLostWakeup, NoLostOf
  <2> QED
    BY <2>2, <2>3 DEF NoLostWakeup, NoLostOf
<1>3. CASE SemaDownBlocks(t)
  <2>1. StatusesKept({t}) /\ value[s] = 0 /\ value' = value
        /\ \A r \in SemaIds : r # s => waiters'[r] = waiters[r]
    BY <1>0, <1>s, <1>3, BlockKeeps DEF SemaDownBlocks, SchedulerInv, LockInv, TypeOK
  <2>2. WokenStay(t)
    BY <2>1, StatusesStay
  <2>3. ASSUME NEW r \in SemaIds, r # s PROVE NoLostOf(r)'
    <3>1. value'[r] <= value[r]
      BY <2>1 DEF SchedulerInv, LockInv, TypeOK
    <3> QED
      BY <1>1, <1>s, <2>1, <2>2, <2>3, <3>1, WokenKept, OthersWoken DEF NoLostWakeup,
         NoLostOf
  <2>4. NoLostOf(s)'
    <3>1. Cardinality(Woken(s)') \in Nat
      BY FS_Subset, FS_CardinalityType, ThreadsAssumption DEF Woken
    <3> QED
      BY <2>1, <3>1 DEF NoLostOf
  <2> QED
    BY <2>3, <2>4 DEF NoLostWakeup, NoLostOf
<1> QED
  BY <1>2, <1>3 DEF SemaDown

\* No step of the kernel loses a wakeup.
LEMMA NoLostNext ==
    ASSUME SchedulerInv, SchedulerInv', NoLostWakeup, [Next]_vars
    PROVE  NoLostWakeup'
<1>0. \A s \in SemaIds : value[s] \in Nat /\ value[s] <= value[s]
  BY DEF SchedulerInv, LockInv, TypeOK
<1>1. ASSUME NEW t \in Threads, NEW s \in SemaIds, OthersSame(t), pc[t] # "loop", SemaUp(s)
      PROVE  NoLostWakeup'
  <2>1. StatusesKept({x \in Threads : Wakes(s, x)})
        /\ \A x \in Threads : Wakes(s, x) => status'[x] = "READY"
    BY <1>1, UpKeeps
  <2>2. \A x \in Threads : Wakes(s, x) => ~ Runnable(x)
    BY UpSound DEF Runnable
  <2>3. WokenStay(t)
    BY <2>1, <2>2, StatusesStay
  <2>4. \A x \in Threads : Wakes(s, x) => Runnable(x)'
    BY <2>1 DEF Runnable
  <2> QED
    BY <1>1, <2>3, <2>4, UppedNoLost DEF SemaUp
<1>2. ASSUME NEW t \in Threads, pc[t] # "loop", OthersSame(t), UNCHANGED semaVars,
             NEW B, StatusesKept(B), \A x \in B : x = t \/ ~ Runnable(x)
      PROVE  NoLostWakeup'
  BY <1>0, <1>2, QuietNoLost, StatusesStay DEF semaVars
<1>3. ASSUME NEW t \in Threads, LocalStep(t) PROVE NoLostWakeup'
  <2>1. CASE SemaDown(t)
    BY <2>1, DownNoLost
  <2>2. CASE ~ SemaDown(t)
    <3>1. pc[t] # "loop"
      BY <1>3, <2>2 DEF LocalStep, LockSetHolder, LockClearHolder, BroadcastNext,
         BroadcastDone, CallSemaDown, SemaTryDown, LockAcquire, LockTryAcquire,
         LockRelease, CondWait, CondSignal, CondBroadcast, Calling, At
    <3>2. OthersSame(t) /\ waiters' = waiters /\ WokenStay(t)
      BY <1>3, LocalSteps DEF Local, WokenStay, Runnable, schedulerVars
    <3> QED
      BY <1>3, <3>1, <3>2, LocalValues, QuietNoLost
  <2> QED
    BY <2>1, <2>2
<1>4. ASSUME NEW t \in Threads, UpStep(t) PROVE NoLostWakeup'
  <2>1. sema[t] \in SemaIds /\ OthersSame(t) /\ pc[t] # "loop" /\ SemaUp(sema[t])
    BY <1>4 DEF UpStep, At, SchedulerInv, LockInv, TypeOK, CallInv, CallInvOf, SemaIds,
       OthersSame, Same, lockVars
  <2> QED
    BY <1>1, <2>1
<1>5. ASSUME NEW t \in Threads, NEW s \in Semas, CallSemaUp(t, s) PROVE NoLostWakeup'
  <2>1. s \in SemaIds /\ OthersSame(t) /\ pc[t] # "loop" /\ SemaUp(s)
    BY <1>5 DEF CallSemaUp, Calling, At, SemaIds, OthersSame, Same, lockVars, callVars
  <2> QED
    BY <1>1, <2>1
<1>6. ASSUME NEW t \in Threads, NEW u \in Threads, ThreadCreate(t, u) PROVE NoLostWakeup'
  <2>1. /\ pc[t] # "loop" /\ OthersSame(t) /\ UNCHANGED semaVars /\ ~ Runnable(u)
        /\ status' = [status EXCEPT ![u] = "BLOCKED"]
    BY <1>6 DEF ThreadCreate, Calling, At, SchedulerInv, LockInv, TypeOK, OthersSame,
       Same, lockVars, Runnable
  <2>2. StatusesKept({u})
    BY <2>1, ThreadsAssumption
    DEF StatusesKept, Runnable, SchedulerInv, IdleInv, LockInv, TypeOK, SchedulerTypeOK
  <2> QED
    BY <1>2, <2>1, <2>2
<1>7. ASSUME NEW t \in Threads, AllocateTid(t) \/ IncrementTid(t) PROVE NoLostWakeup'
  <2>1. pc[t] # "loop" /\ OthersSame(t) /\ UNCHANGED <<semaVars, status>>
    BY <1>7 DEF AllocateTid, IncrementTid, At, SchedulerInv, LockInv, TypeOK,
       OthersSame, Same, lockVars, schedulerVars
  <2>2. StatusesKept({})
    BY <2>1 DEF StatusesKept, Runnable, SchedulerInv, IdleInv
  <2> QED
    BY <1>2, <2>1, <2>2
<1>8. ASSUME NEW t \in Threads, CreateUnblock(t) PROVE NoLostWakeup'
  <2>1. /\ pc[t] # "loop" /\ OthersSame(t) /\ UNCHANGED semaVars /\ obj[t] \in Threads
        /\ status[obj[t]] = "BLOCKED" /\ obj[t] # Idle /\ status' = [status EXCEPT ![obj[t]] = "READY"]
    BY <1>8 DEF CreateUnblock, UnblockedStatus, At, SchedulerInv, LockInv, TypeOK,
       OthersSame, Same, lockVars, CallInv, CallInvOf, BirthInv, BirthInvOf, IdleInv,
       IdlePCs
  <2>2. StatusesKept({obj[t]}) /\ ~ Runnable(obj[t])
    BY <2>1, ThreadsAssumption
    DEF StatusesKept, Runnable, SchedulerInv, IdleInv, LockInv, TypeOK, SchedulerTypeOK
  <2> QED
    BY <1>2, <2>1, <2>2
<1>9. ASSUME NEW t \in Threads, CallYield(t) PROVE NoLostWakeup'
  <2>1. pc[t] # "loop" /\ OthersSame(t) /\ UNCHANGED semaVars /\ StatusesKept({})
    BY <1>9, YieldKeeps DEF CallYield, Calling, At, OthersSame, Same, lockVars, callVars
  <2> QED
    BY <1>2, <2>1
<1>10. ASSUME NEW t \in Threads, ThreadExit(t) PROVE NoLostWakeup'
  <2> DEFINE s == WaitingSema[t]
  <2>1. s \in SemaIds /\ pc[t] # "loop" /\ OthersSame(t) /\ Upped(s)
    BY <1>10, SemaAssumption
    DEF ThreadExit, Calling, At, SemaIds, OthersSame, Same, lockVars, callVars
  <2>2. /\ StatusesKept({x \in Threads : Wakes(s, x)} \union {t})
        /\ \A x \in Threads : Wakes(s, x) => Runnable(x)'
    BY <1>10, ExitKeeps
  <2>3. \A x \in Threads : Wakes(s, x) => ~ Runnable(x)
    BY <2>1, UpSound DEF Runnable
  <2>4. WokenStay(t)
    BY <2>2, <2>3, StatusesStay
  <2> QED
    BY <2>1, <2>2, <2>4, UppedNoLost
<1>11. CASE IdleStart
  <2>1. Idle \in Threads /\ pc[Idle] # "loop" /\ OthersSame(Idle) /\ UNCHANGED <<semaVars, status>>
    BY <1>11, ThreadsAssumption DEF IdleStart, At, OthersSame, Same, lockVars,
       SchedulerInv, LockInv, TypeOK
  <2>2. StatusesKept({})
    BY <2>1 DEF StatusesKept, Runnable, SchedulerInv, IdleInv
  <2> QED
    BY <1>2, <2>1, <2>2
<1>12. CASE IdleUp
  <2>1. /\ Idle \in Threads /\ pc[Idle] # "loop" /\ OthersSame(Idle) /\ SemaUp(IdleStarted)
        /\ IdleStarted \in SemaIds
    BY <1>12, ThreadsAssumption, SemaAssumption
    DEF IdleUp, At, OthersSame, Same, lockVars, SchedulerInv, LockInv, TypeOK, SemaIds
  <2> QED
    BY <1>1, <2>1
<1>13. CASE IdleBlock
  <2>1. /\ Idle \in Threads /\ Idle = current /\ pc[Idle] = "idle_block" /\ OthersSame(Idle)
        /\ UNCHANGED semaVars /\ ThreadBlock(ready_list, status)
    BY <1>13, ThreadsAssumption DEF IdleBlock, At, OthersSame, Same, lockVars,
       SchedulerInv, LockInv, TypeOK
  <2>2. StatusesKept({Idle})
    BY <2>1, BlockKeeps DEF SchedulerInv, IdleInv
  <2> QED
    BY <1>2, <2>1, <2>2
<1>14. InterruptsOn /\ pc' = Interrupted /\ UNCHANGED <<lockVars, sema, op, obj>> =>
          current \in Threads /\ pc[current] # "loop" /\ OthersSame(current)
  BY DEF InterruptsOn, Interrupted, OthersSame, Same, lockVars, SchedulerInv, LockInv,
     TypeOK, SchedulerTypeOK
<1>15. CASE Tick
  <2>1. current \in Threads /\ pc[current] # "loop" /\ OthersSame(current) /\ UNCHANGED semaVars
    BY <1>14, <1>15 DEF Tick
  <2>2. StatusesKept({})
    <3>1. CASE ThreadYield
      BY <3>1, YieldKeeps
    <3>2. CASE status' = status
      BY <3>2 DEF StatusesKept, Runnable, SchedulerInv, IdleInv
    <3> QED
      BY <1>15, <3>1, <3>2 DEF Tick, ThreadTick
  <2> QED
    BY <1>2, <2>1, <2>2
<1>16. ASSUME NEW s \in IntrSemas, DeviceInterrupt(s) PROVE NoLostWakeup'
  <2>1. /\ current \in Threads /\ pc[current] # "loop" /\ OthersSame(current)
        /\ s \in SemaIds /\ SemaUp(s)
    BY <1>14, <1>16, SemaAssumption DEF DeviceInterrupt, SemaIds
  <2> QED
    BY <1>1, <2>1
<1>17. CASE UNCHANGED vars
  BY <1>17 DEF vars, NoLostWakeup, Woken
<1>18. ASSUME NEW t \in Threads, Continue(t) \/ Call(t) PROVE NoLostWakeup'
  BY <1>3, <1>4, <1>5, <1>6, <1>7, <1>8, <1>9, <1>10, <1>18, DownNoLost DEF Continue,
     Call, LocalStep
<1> QED
  BY <1>11, <1>12, <1>13, <1>15, <1>16, <1>17, <1>18 DEF Next, IdleLoop

\* sema_up() and sema_down() lose no wakeup, for any number of threads: while threads
\* wait, every unit of the semaphore has a thread on its way to take it.
THEOREM WakeupsNotLost == Spec => []NoLostWakeup
<1>1. Init => NoLostWakeup
  BY DEF Init, NoLostWakeup
<1>2. SchedulerInv /\ SchedulerInv' /\ NoLostWakeup /\ [Next]_vars => NoLostWakeup'
  BY NoLostNext
<1> QED
  BY <1>1, <1>2, SchedulerInvariant, PTL DEF Spec

-----------------------------------------------------------------------------
(* Condition variables.                                                    *)

\* A step of t that has nothing to do with the semaphores of cond_wait().
Quiet(t) ==
    /\ OthersSame(t) /\ cond_waiters' = cond_waiters /\ \A x \in Threads : value'[x] = value[x]
    /\ InWaiterSema(t)' <=> InWaiterSema(t)
    /\ InWaiterSema(t) => obj'[t] = obj[t]
    /\ \A x \in Threads : pc'[t] = "up" /\ sema'[t] = x <=> pc[t] = "up" /\ sema[t] = x

\* Such a step leaves every waiter and its signal as they are.
LEMMA QuietKept ==
    ASSUME SignalInv, NEW t \in Threads, Quiet(t)
    PROVE  SignalInv'
<1> SUFFICES ASSUME NEW x \in Threads PROVE SignalInvOf(x)'
  BY DEF SignalInv, Quiet
<1>1. Listed(x)' = Listed(x)
  BY DEF Quiet, Listed
<1>2. Signallers(x)' = Signallers(x)
  BY DEF Quiet, Signallers, OthersSame, Same
<1>3. /\ InWaiterSema(x)' <=> InWaiterSema(x)
      /\ InWaiterSema(x) => obj'[x] = obj[x]
  BY DEF Quiet, InWaiterSema, OthersSame, Same
<1>4. value'[x] = value[x] /\ SignalInvOf(x)
  BY DEF Quiet, SignalInv
<1> QED
  BY <1>1, <1>2, <1>3, <1>4 DEF SignalInvOf

\* cond_wait(): t puts its semaphore, unused so far, on the condition's list.
LEMMA CondWaitSignal ==
    ASSUME LockInv, SignalInv, NEW t \in Threads, NEW c \in Conds, CondWait(t, c)
    PROVE  SignalInv'
<1>1. ~ InWaiterSema(t) /\ pc[t] = "run"
  BY DEF CondWait, Calling, At, LockInv, CallInv, CallInvOf, InWaiterSema
<1>2. value[t] = 0 /\ Listed(t) = {} /\ Signallers(t) = {}
  BY <1>1 DEF SignalInv, SignalInvOf
<1>3. /\ OthersSame(t) /\ pc'[t] = "release" /\ op'[t] = "wait" /\ obj'[t] = c
      /\ \A x \in Threads : value'[x] = value[x]
      /\ \A d \in Conds : cond_waiters'[d] = IF d = c THEN Append(cond_waiters[d], t) ELSE cond_waiters[d]
  <2>1. \A x \in Threads : value'[x] = value[x]
    BY <1>2 DEF CondWait, LockInv, TypeOK, SemaIds
  <2> QED
    BY <2>1 DEF CondWait, LockInv, TypeOK, OthersSame, Same
<1>4. \A d \in Conds : /\ cond_waiters[d] \in Seq(Threads) /\ NoDuplicates(cond_waiters[d])
                       /\ ~ OnList(t, cond_waiters[d])
  BY <1>2 DEF SignalInv, LockInv, TypeOK, Listed
<1>5. /\ \A d \in Conds : NoDuplicates(cond_waiters'[d])
      /\ \A d \in Conds, x \in Threads :
            OnList(x, cond_waiters'[d]) <=> OnList(x, cond_waiters[d]) \/ (d = c /\ x = t)
  BY <1>3, <1>4, PushBack
<1>6. ASSUME NEW x \in Threads PROVE SignalInvOf(x)'
  <2>1. Signallers(x)' = Signallers(x)
    BY <1>1, <1>3 DEF Signallers, OthersSame, Same
  <2>2. CASE x = t
    <3>1. Listed(t)' = {c}
      BY <1>4, <1>5 DEF Listed
    <3> QED
      BY <1>2, <1>3, <2>1, <2>2, <3>1 DEF SignalInvOf, InWaiterSema
  <2>3. CASE x # t
    <3>1. Listed(x)' = Listed(x)
      BY <1>5, <2>3 DEF Listed
    <3>2. InWaiterSema(x)' <=> InWaiterSema(x)
      BY <1>3, <2>3 DEF InWaiterSema, OthersSame, Same
    <3>3. obj'[x] = obj[x] /\ value'[x] = value[x] /\ SignalInvOf(x)
      BY <1>3, <2>3 DEF OthersSame, Same, SignalInv
    <3> QED
      BY <2>1, <3>1, <3>2, <3>3 DEF SignalInvOf
  <2> QED
    BY <2>2, <2>3
<1> QED
  BY <1>5, <1>6 DEF SignalInv

\* cond_signal() and each round of cond_broadcast(): the waiter that is taken off the
\* list has its signal on the way.
LEMMA PopSignal ==
    ASSUME LockInv, LockInv', SignalInv, NEW t \in Threads, NEW c \in Conds, SignalPops(t, c),
           OthersSame(t), pc[t] # "up", op[t] # "wait", op'[t] # "wait"
    PROVE  SignalInv'
<1>0. PICK h : h = Head(cond_waiters[c])
  OBVIOUS
<1>1. /\ pc'[t] = "up" /\ sema'[t] = h /\ cond_waiters[c] # <<>> /\ value' = value
      /\ \A d \in Conds : cond_waiters'[d] = IF d = c THEN Tail(cond_waiters[d]) ELSE cond_waiters[d]
      /\ \A d \in Conds : cond_waiters[d] \in Seq(Threads) /\ NoDuplicates(cond_waiters[d])
  BY <1>0 DEF SignalPops, LockInv, TypeOK, semaVars, SignalInv
<1>2. /\ h \in Threads /\ OnList(h, cond_waiters[c]) /\ NoDuplicates(Tail(cond_waiters[c]))
      /\ \A x \in Threads : OnList(x, Tail(cond_waiters[c])) <=> OnList(x, cond_waiters[c]) /\ x # h
  BY <1>0, <1>1, PopsFront
<1>3. /\ \A d \in Conds : NoDuplicates(cond_waiters'[d])
      /\ \A d \in Conds, x \in Threads :
            OnList(x, cond_waiters'[d]) <=> OnList(x, cond_waiters[d]) /\ ~ (d = c /\ x = h)
  BY <1>1, <1>2
<1>4. InWaiterSema(h) /\ Listed(h) = {c} /\ value[h] = 0 /\ Signallers(h) = {}
  BY <1>2 DEF SignalInv, SignalInvOf, Listed
<1>5. ASSUME NEW x \in Threads PROVE SignalInvOf(x)'
  <2>1. InWaiterSema(x)' <=> InWaiterSema(x)
    BY DEF InWaiterSema, OthersSame, Same
  <2>2. CASE x = h
    <3>1. Listed(h)' = {}
      BY <1>2, <1>3, <1>4 DEF Listed
    <3>2. Signallers(h)' = {t}
      BY <1>1, <1>4 DEF Signallers, OthersSame, Same
    <3> QED
      BY <1>1, <1>4, <2>1, <2>2, <3>1, <3>2 DEF SignalInvOf
  <2>3. CASE x # h
    <3>1. Listed(x)' = Listed(x)
      BY <1>3, <2>3 DEF Listed
    <3>2. Signallers(x)' = Signallers(x)
      BY <1>1, <2>3 DEF Signallers, OthersSame, Same
    <3>3. InWaiterSema(x) => obj'[x] = obj[x]
      BY DEF InWaiterSema, OthersSame, Same
    <3>4. value'[x] = value[x] /\ SignalInvOf(x)
      BY <1>1 DEF SignalInv
    <3> QED
      BY <2>1, <3>1, <3>2, <3>3, <3>4 DEF SignalInvOf
  <2> QED
    BY <2>2, <2>3
<1> QED
  BY <1>3, <1>5 DEF SignalInv

\* The signal arrives.
LEMMA UpSignal ==
    ASSUME LockInv, LockInv', SignalInv, NEW t \in Threads, UpStep(t)
    PROVE  SignalInv'
<1>1. pc[t] = "up" /\ pc'[t] # "up" /\ OthersSame(t) /\ cond_waiters' = cond_waiters
  BY DEF UpStep, At, AfterUp, LockInv, TypeOK, OthersSame, Same, lockVars
<1>2. /\ InWaiterSema(t)' <=> InWaiterSema(t)
      /\ InWaiterSema(t) => obj'[t] = obj[t]
  BY DEF UpStep, At, AfterUp, LockInv, TypeOK, InWaiterSema
<1>3. sema[t] \in Locks \union Threads /\ value' = [value EXCEPT ![sema[t]] = @ + 1]
  BY DEF UpStep, At, SemaUp, Upped, LockInv, CallInv, CallInvOf
<1>4. CASE sema[t] \in Locks
  <2>1. sema[t] \notin Threads /\ \A x \in Threads : value'[x] = value[x]
    BY <1>3, <1>4, SemaAssumption DEF LockInv, TypeOK, SemaIds
  <2>2. Quiet(t)
    BY <1>1, <1>2, <2>1 DEF Quiet
  <2> QED
    BY <2>2, QuietKept
<1>5. CASE sema[t] \in Threads
  <2>0. PICK h \in Threads : h = sema[t]
    BY <1>5
  <2>1. InWaiterSema(h) /\ value[h] = 0 /\ Listed(h) = {} /\ Signallers(h) = {t}
    BY <1>1, <2>0 DEF SignalInv, SignalInvOf, Signallers
  <2>2. \A x \in Threads : value'[x] = IF x = h THEN 1 ELSE value[x]
    BY <1>3, <2>0, <2>1 DEF LockInv, TypeOK, SemaIds
  <2>3. ASSUME NEW x \in Threads PROVE SignalInvOf(x)'
    <3>1. Listed(x)' = Listed(x)
      BY <1>1 DEF Listed
    <3>2. /\ InWaiterSema(x)' <=> InWaiterSema(x)
          /\ InWaiterSema(x) => obj'[x] = obj[x]
      BY <1>1, <1>2 DEF InWaiterSema, OthersSame, Same
    <3>3. CASE x = h
      <4>1. Signallers(x)' = {}
        BY <1>1, <2>1, <3>3 DEF Signallers, OthersSame, Same
      <4> QED
        BY <2>1, <2>2, <3>1, <3>2, <3>3, <4>1 DEF SignalInvOf
    <3>4. CASE x # h
      <4>1. Signallers(x)' = Signallers(x)
        BY <1>1, <2>0, <3>4 DEF Signallers, OthersSame, Same
      <4>2. value'[x] = value[x] /\ SignalInvOf(x)
        BY <2>2, <3>4 DEF SignalInv
      <4> QED
        BY <3>1, <3>2, <4>1, <4>2 DEF SignalInvOf
    <3> QED
      BY <3>3, <3>4
  <2> QED
    BY <1>1, <2>3 DEF SignalInv
<1> QED
  BY <1>3, <1>4, <1>5

\* sema_down() in cond_wait(): the waiter takes its signal, and its semaphore is done with.
LEMMA DownSignal ==
    ASSUME LockInv, LockInv', SignalInv, NEW t \in Threads, SemaDown(t)
    PROVE  SignalInv'
<1>1. /\ pc[t] \in {"down", "loop"} /\ OthersSame(t) /\ cond_waiters' = cond_waiters
      /\ pc'[t] # "up" /\ op'[t] = op[t] /\ obj'[t] = obj[t] /\ sema[t] \in Semas \union Locks \union {t}
  BY DEF SemaDown, At, SemaDownTakes, SemaDownBlocks, Downed, LockInv, TypeOK, CallInv,
     CallInvOf, OthersSame, Same, lockVars
<1>2. CASE SemaDownTakes(t) /\ sema[t] = t
  <2>1. InWaiterSema(t) /\ value[t] = 1 /\ Listed(t) = {} /\ Signallers(t) = {}
    BY <1>1, <1>2 DEF LockInv, CallInv, CallInvOf, InWaiterSema, SignalInv, SignalInvOf,
       SemaDownTakes
  <2>2. \A x \in Threads : value'[x] = IF x = t THEN 0 ELSE value[x]
    BY <1>2, <2>1 DEF SemaDownTakes, LockInv, TypeOK, SemaIds
  <2>3. ~ InWaiterSema(t)'
    <3>1. t \notin Locks /\ obj[t] \in Conds
      BY <2>1, SemaAssumption DEF InWaiterSema, LockInv, CallInv, CallInvOf
    <3>2. sema'[t] = CondLock[obj[t]] /\ CondLock[obj[t]] # t /\ pc'[t] = "down"
      BY <1>2, <3>1, SemaAssumption DEF SemaDownTakes, Downed, LockInv, TypeOK
    <3> QED
      BY <3>2 DEF InWaiterSema
  <2>4. ASSUME NEW x \in Threads PROVE SignalInvOf(x)'
    <3>1. Listed(x)' = Listed(x) /\ Signallers(x)' = Signallers(x)
      BY <1>1 DEF Listed, Signallers, OthersSame, Same
    <3>2. CASE x = t
      BY <2>1, <2>2, <2>3, <3>1, <3>2 DEF SignalInvOf
    <3>3. CASE x # t
      <4>1. (InWaiterSema(x)' <=> InWaiterSema(x)) /\ obj'[x] = obj[x]
        BY <1>1, <3>3 DEF InWaiterSema, OthersSame, Same
      <4>2. value'[x] = value[x] /\ SignalInvOf(x)
        BY <2>2, <3>3 DEF SignalInv
      <4> QED
        BY <3>1, <4>1, <4>2 DEF SignalInvOf
    <3> QED
      BY <3>2, <3>3
  <2> QED
    BY <1>1, <2>4 DEF SignalInv
<1>3. CASE SemaDownTakes(t) /\ sema[t] # t
  <2>0. sema[t] \in Semas \union Locks /\ sema[t] \notin Threads
    BY <1>1, <1>3, SemaAssumption
  <2>1. sema'[t] # t /\ \A x \in Threads : value'[x] = value[x]
    <3>1. \A x \in Threads : value'[x] = value[x]
      BY <1>3, <2>0 DEF SemaDownTakes, LockInv, TypeOK, SemaIds
    <3>2. sema'[t] # t
      BY <1>3, <2>0, SemaAssumption, ThreadsAssumption DEF SemaDownTakes, Downed,
         LockInv, TypeOK
    <3> QED
      BY <3>1, <3>2
  <2>2. Quiet(t)
    <3>1. pc'[t] \notin {"release", "up"}
      BY <1>3 DEF SemaDownTakes, Downed, LockInv, TypeOK
    <3> QED
      BY <1>1, <1>3, <2>1, <3>1 DEF Quiet, InWaiterSema
  <2> QED
    BY <2>2, QuietKept
<1>4. CASE SemaDownBlocks(t)
  <2>1. Quiet(t)
    BY <1>1, <1>4 DEF Quiet, InWaiterSema, SemaDownBlocks, LockInv, TypeOK
  <2> QED
    BY <2>1, QuietKept
<1> QED
  BY <1>2, <1>3, <1>4 DEF SemaDown

\* The other steps of a thread, and those of idle() and the interrupts.
LEMMA OtherStepsQuiet ==
    ASSUME LockInv, NEW t \in Threads
    PROVE  /\ LockSetHolder(t) \/ LockClearHolder(t) \/ BroadcastDone(t) => Quiet(t)
           /\ AllocateTid(t) \/ IncrementTid(t) \/ CreateUnblock(t) => Quiet(t)
           /\ \A s \in Semas : CallSemaDown(t, s) \/ SemaTryDown(t, s) \/ CallSemaUp(t, s) => Quiet(t)
           /\ \A l \in Locks : LockAcquire(t, l) \/ LockTryAcquire(t, l) \/ LockRelease(t, l) => Quiet(t)
           /\ \A c \in Conds : CondBroadcast(t, c) => Quiet(t)
           /\ \A u \in Threads : ThreadCreate(t, u) => Quiet(t)
           /\ CallYield(t) \/ ThreadExit(t) => Quiet(t)
<1> USE SemaAssumption DEF LockInv, TypeOK, Quiet, InWaiterSema, OthersSame, Same, At, Calling,
        lockVars, callVars, semaVars, SemaIds
<1>0. CallInvOf(t)
  BY DEF CallInv
<1> USE <1>0 DEF CallInvOf
<1>1. LockSetHolder(t) => Quiet(t)
  BY ThreadsAssumption DEF LockSetHolder
<1>2. LockClearHolder(t) => Quiet(t)
  BY DEF LockClearHolder
<1>3. BroadcastDone(t) => Quiet(t)
  BY DEF BroadcastDone
<1>4. AllocateTid(t) => Quiet(t)
  BY DEF AllocateTid
<1>5. IncrementTid(t) => Quiet(t)
  BY DEF IncrementTid
<1>6. CreateUnblock(t) => Quiet(t)
  BY DEF CreateUnblock
<1>7. ASSUME NEW s \in Semas PROVE CallSemaDown(t, s) => Quiet(t)
  BY DEF CallSemaDown
<1>8. ASSUME NEW s \in Semas PROVE SemaTryDown(t, s) => Quiet(t)
  BY DEF SemaTryDown
<1>9. ASSUME NEW s \in Semas PROVE CallSemaUp(t, s) => Quiet(t)
  BY DEF CallSemaUp, SemaUp, Upped
<1>10. ASSUME NEW l \in Locks PROVE LockAcquire(t, l) => Quiet(t)
  BY DEF LockAcquire
<1>11. ASSUME NEW l \in Locks PROVE LockTryAcquire(t, l) => Quiet(t)
  BY DEF LockTryAcquire
<1>12. ASSUME NEW l \in Locks PROVE LockRelease(t, l) => Quiet(t)
  BY DEF LockRelease
<1>13. ASSUME NEW c \in Conds PROVE CondBroadcast(t, c) => Quiet(t)
  BY DEF CondBroadcast
<1>14. ASSUME NEW u \in Threads PROVE ThreadCreate(t, u) => Quiet(t)
  BY DEF ThreadCreate
<1>15. CallYield(t) => Quiet(t)
  BY DEF CallYield
<1>16. ThreadExit(t) => Quiet(t)
  BY DEF ThreadExit, Upped
<1> QED
  BY <1>1, <1>2, <1>3, <1>4, <1>5, <1>6, <1>7, <1>8, <1>9, <1>10, <1>11, <1>12, <1>13,
     <1>14,
     <1>15, <1>16

\* Every step of the kernel keeps track of the signals.
LEMMA SignalInvNext ==
    ASSUME SchedulerInv, SchedulerInv', SignalInv, [Next]_vars
    PROVE  SignalInv'
<1> USE DEF SchedulerInv
<1>1. ASSUME NEW t \in Threads, Continue(t) PROVE SignalInv'
  <2>1. CASE BroadcastNext(t)
    <3>1. /\ obj[t] \in Conds /\ SignalPops(t, obj[t]) /\ OthersSame(t) /\ pc[t] # "up"
          /\ op[t] # "wait" /\ op'[t] # "wait"
      BY <2>1 DEF BroadcastNext, SignalPops, At, LockInv, TypeOK, CallInv, CallInvOf,
         OthersSame, Same, lockVars
    <3> QED
      BY <3>1, PopSignal
  <2> QED
    BY <1>1, <2>1, DownSignal, UpSignal, OtherStepsQuiet, QuietKept DEF Continue
<1>2. ASSUME NEW t \in Threads, Call(t) PROVE SignalInv'
  <2>1. ASSUME NEW c \in Conds, CondSignal(t, c) PROVE SignalInv'
    <3>1. /\ SignalPops(t, c) /\ OthersSame(t) /\ pc[t] # "up" /\ op[t] # "wait" /\ op'[t] # "wait"
      BY <2>1 DEF CondSignal, SignalPops, Calling, At, LockInv, TypeOK, CallInv,
         CallInvOf, OthersSame, Same, lockVars
    <3> QED
      BY <3>1, PopSignal
  <2> QED
    BY <1>2, <2>1, CondWaitSignal, OtherStepsQuiet, QuietKept DEF Call
<1>3. CASE IdleLoop
  <2> USE ThreadsAssumption DEF At, Quiet, InWaiterSema, OthersSame, Same, LockInv, TypeOK, lockVars,
                                semaVars
  <2>1. CASE IdleStart
    <3>1. Quiet(Idle)
      BY <2>1 DEF IdleStart
    <3> QED
      BY <3>1, QuietKept
  <2>2. CASE IdleUp
    <3>1. \A x \in Threads : value'[x] = value[x]
      BY <2>2, SemaAssumption DEF IdleUp, SemaUp, Upped, SemaIds
    <3>2. Quiet(Idle)
      BY <2>2, <3>1 DEF IdleUp
    <3> QED
      BY <3>2, QuietKept
  <2>3. CASE IdleBlock
    <3>1. Quiet(Idle)
      BY <2>3 DEF IdleBlock
    <3> QED
      BY <3>1, QuietKept
  <2> QED
    BY <1>3, <2>1, <2>2, <2>3 DEF IdleLoop
<1>4. ASSUME InterruptsOn, pc' = Interrupted, UNCHANGED <<lockVars, cond_waiters, sema, op, obj>>,
             \A x \in Threads : value'[x] = value[x]
      PROVE  SignalInv'
  <2>1. PICK t \in Threads : t = current
    BY <1>4 DEF InterruptsOn, LockInv, TypeOK, SchedulerTypeOK
  <2>2. \A x \in Threads : /\ x # t => pc'[x] = pc[x]
                           /\ pc'[x] \in {"release", "up"} <=> pc[x] \in {"release", "up"}
                           /\ pc'[x] = "up" <=> pc[x] = "up"
    BY <1>4, <2>1 DEF Interrupted, LockInv, TypeOK
  <2>3. Quiet(t)
    BY <1>4, <2>2 DEF Quiet, InWaiterSema, OthersSame, Same, lockVars
  <2> QED
    BY <2>3, QuietKept
<1>5. CASE Tick
  BY <1>4, <1>5 DEF Tick, semaVars
<1>6. ASSUME NEW s \in IntrSemas, DeviceInterrupt(s) PROVE SignalInv'
  <2>1. \A x \in Threads : value'[x] = value[x]
    BY <1>6, SemaAssumption DEF DeviceInterrupt, SemaUp, Upped, LockInv, TypeOK, SemaIds
  <2> QED
    BY <1>4, <1>6, <2>1 DEF DeviceInterrupt
<1>7. CASE UNCHANGED vars
  BY <1>7 DEF vars, SignalInv, SignalInvOf, InWaiterSema, Listed, Signallers
<1> QED
  BY <1>1, <1>2, <1>3, <1>5, <1>6, <1>7 DEF Next

\* At first nobody waits and no signal is on its way.
LEMMA SignalInvInit == Init => SignalInv
<1> SUFFICES ASSUME Init PROVE SignalInv
  OBVIOUS
<1>1. \A c \in Conds : NoDuplicates(cond_waiters[c]) /\ \A t \in Threads : ~ OnList(t, cond_waiters[c])
  BY DEF Init, NoDuplicates, OnList
<1>2. ASSUME NEW t \in Threads PROVE SignalInvOf(t)
  <2>1. value[t] = 0
    BY SemaAssumption DEF Init, SemaIds
  <2>2. ~ InWaiterSema(t) /\ Signallers(t) = {} /\ Listed(t) = {}
    BY <1>1 DEF Init, InWaiterSema, Signallers, Listed
  <2> QED
    BY <2>1, <2>2 DEF SignalInvOf
<1> QED
  BY <1>1, <1>2 DEF SignalInv

\* Every waiter is queued, or its one signal is on its way or has arrived, and the lists
\* of the conditions hold every waiter once.
THEOREM SignalInvariant == Spec => []SignalInv
<1>1. SchedulerInv /\ SchedulerInv' /\ SignalInv /\ [Next]_vars => SignalInv'
  BY SignalInvNext
<1> QED
  BY <1>1, SignalInvInit, SchedulerInvariant, PTL DEF Spec

\* cond_wait() and cond_signal(), for any number of threads and conditions: a waiter is
\* queued, or its one signal is on its way, or the signal has arrived.
THEOREM SignalsDelivered == Spec => []SignalDelivered
<1>1. SignalInv => SignalDelivered
  <2>1. Cardinality({}) = 0 /\ \A x : Cardinality({x}) = 1
    BY FS_EmptySet, FS_Singleton
  <2> SUFFICES ASSUME SignalInv, NEW t \in Threads
               PROVE  value[t] + Cardinality(Listed(t)) + Cardinality(Signallers(t))
                          = IF InWaiterSema(t) THEN 1 ELSE 0
    BY DEF SignalDelivered
  <2>2. SignalInvOf(t)
    BY DEF SignalInv
  <2>3. CASE InWaiterSema(t) /\ value[t] = 1 /\ Listed(t) = {} /\ Signallers(t) = {}
    BY <2>1, <2>3
  <2>4. CASE InWaiterSema(t) /\ value[t] = 0 /\ Listed(t) = {obj[t]} /\ Signallers(t) = {}
    <3>1. Cardinality(Signallers(t)) = 0 /\ Cardinality(Listed(t)) = 1
      BY <2>1, <2>4
    <3> QED
      BY <2>4, <3>1
  <2>5. CASE /\ InWaiterSema(t) /\ value[t] = 0 /\ Listed(t) = {}
             /\ \E u \in Threads : Signallers(t) = {u}
    <3>1. Cardinality(Signallers(t)) = 1 /\ Cardinality(Listed(t)) = 0
      BY <2>1, <2>5
    <3> QED
      BY <2>5, <3>1
  <2>6. CASE ~ InWaiterSema(t) /\ value[t] = 0 /\ Listed(t) = {} /\ Signallers(t) = {}
    BY <2>1, <2>6
  <2> QED
    BY <2>2, <2>3, <2>4, <2>5, <2>6 DEF SignalInvOf
<1> QED
  BY <1>1, SignalInvariant, PTL

-----------------------------------------------------------------------------
(* synch.c implements the abstract monitor.                                *)

\* t is in cond_wait() and has yet to give the lock back.
Leaving(t) == op[t] = "wait" /\ pc[t] \in {"release", "up"}

\* The semaphores of a thread in cond_wait(); who still has the lock joined last; who
\* signals has the lock.
CondInvOf(t) ==
    /\ op[t] = "wait" => /\ pc[t] \in {"release", "up", "down", "loop", "holder"}
                         /\ sema[t] \in {t, CondLock[obj[t]]}
                         /\ sema[t] = t => pc[t] \in {"down", "loop"}
    /\ Leaving(t) => LET q == cond_waiters[obj[t]] IN q # <<>> /\ q[Len(q)] = t
    /\ op[t] \in {"signal", "broadcast"} => CondLock[obj[t]] \in held[t]
    /\ pc[t] = "up" => (op[t] \in {"signal", "broadcast"} <=> sema[t] \in Threads)
CondInv == \A t \in Threads : CondInvOf(t)

\* A step of t that leaves the lists and the other threads' locals alone keeps CondInv if
\* t's part of it holds again.
LEMMA CondKept ==
    ASSUME CondInv, NEW t \in Threads, OthersSame(t), cond_waiters' = cond_waiters, CondInvOf(t)'
    PROVE  CondInv'
<1> SUFFICES ASSUME NEW u \in Threads, u # t PROVE CondInvOf(u)'
  BY DEF CondInv
<1>1. CondInvOf(u) /\ Same(u)
  BY DEF CondInv, OthersSame
<1> QED
  BY <1>1 DEF CondInvOf, Leaving, Same

\* While somebody else has the lock of c, nobody in cond_wait() on c has it.
LEMMA NobodyLeaves ==
    ASSUME LockInv, CondInv, NEW t \in Threads, NEW c \in Conds, Owns(t, CondLock[c]), ~ Leaving(t)
    PROVE  \A u \in Threads : Leaving(u) => obj[u] # c
<1> SUFFICES ASSUME NEW u \in Threads, Leaving(u), obj[u] = c PROVE FALSE
  OBVIOUS
<1>1. sema[u] = CondLock[c] /\ pc[u] \in {"release", "up"}
  BY DEF CondInv, CondInvOf, Leaving
<1>2. Owns(u, CondLock[c]) /\ CondLock[c] \in Locks
  BY <1>1, SemaAssumption DEF Owns
<1> QED
  BY <1>2 DEF LockInv, MutualExclusion

\* The steps inside a primitive that have nothing to do with the lists, and the calls.
LEMMA OtherStepsCond ==
    ASSUME LockInv, CondInv, NEW t \in Threads
    PROVE  /\ LockSetHolder(t) \/ LockClearHolder(t) \/ BroadcastDone(t) => CondInvOf(t)'
           /\ AllocateTid(t) \/ IncrementTid(t) \/ CreateUnblock(t) => CondInvOf(t)'
           /\ \A s \in Semas : CallSemaDown(t, s) \/ SemaTryDown(t, s) \/ CallSemaUp(t, s) => CondInvOf(t)'
           /\ \A l \in Locks : LockAcquire(t, l) \/ LockTryAcquire(t, l) \/ LockRelease(t, l) => CondInvOf(t)'
           /\ \A c \in Conds : CondBroadcast(t, c) => CondInvOf(t)'
           /\ \A u \in Threads : ThreadCreate(t, u) => CondInvOf(t)'
           /\ CallYield(t) \/ ThreadExit(t) => CondInvOf(t)'
<1> USE SemaAssumption DEF LockInv, TypeOK, Leaving, At, Calling, lockVars, callVars, semaVars, CondInvOf
<1>0. CallInvOf(t) /\ CondInvOf(t)
  BY DEF CallInv, CondInv
<1> USE <1>0 DEF CallInvOf
<1>1. LockSetHolder(t) => CondInvOf(t)'
  BY DEF LockSetHolder
<1>2. LockClearHolder(t) => CondInvOf(t)'
  BY DEF LockClearHolder
<1>3. BroadcastDone(t) => CondInvOf(t)'
  BY DEF BroadcastDone
<1>4. AllocateTid(t) => CondInvOf(t)'
  BY DEF AllocateTid
<1>5. IncrementTid(t) => CondInvOf(t)'
  BY DEF IncrementTid
<1>6. CreateUnblock(t) => CondInvOf(t)'
  BY DEF CreateUnblock
<1>7. ASSUME NEW s \in Semas PROVE CallSemaDown(t, s) => CondInvOf(t)'
  BY DEF CallSemaDown
<1>8. ASSUME NEW s \in Semas PROVE SemaTryDown(t, s) => CondInvOf(t)'
  BY DEF SemaTryDown
<1>9. ASSUME NEW s \in Semas PROVE CallSemaUp(t, s) => CondInvOf(t)'
  BY DEF CallSemaUp
<1>10. ASSUME NEW l \in Locks PROVE LockAcquire(t, l) => CondInvOf(t)'
  BY DEF LockAcquire
<1>11. ASSUME NEW l \in Locks PROVE LockTryAcquire(t, l) => CondInvOf(t)'
  BY DEF LockTryAcquire
<1>12. ASSUME NEW l \in Locks PROVE LockRelease(t, l) => CondInvOf(t)'
  BY DEF LockRelease
<1>13. ASSUME NEW c \in Conds PROVE CondBroadcast(t, c) => CondInvOf(t)'
  BY DEF CondBroadcast
<1>14. ASSUME NEW u \in Threads PROVE ThreadCreate(t, u) => CondInvOf(t)'
  BY DEF ThreadCreate
<1>15. CallYield(t) => CondInvOf(t)'
  BY DEF CallYield
<1>16. ThreadExit(t) => CondInvOf(t)'
  BY DEF ThreadExit
<1> QED
  BY <1>1, <1>2, <1>3, <1>4, <1>5, <1>6, <1>7, <1>8, <1>9, <1>10, <1>11, <1>12, <1>13,
     <1>14, <1>15, <1>16

\* sema_down(): from the waiter's own semaphore to that of the lock.
LEMMA DownCond ==
    ASSUME LockInv, CondInv, NEW t \in Threads, SemaDown(t)
    PROVE  OthersSame(t) /\ cond_waiters' = cond_waiters /\ CondInvOf(t)'
<1>1. CallInvOf(t) /\ CondInvOf(t)
  BY DEF LockInv, CallInv, CondInv
<1>2. /\ OthersSame(t) /\ cond_waiters' = cond_waiters /\ pc[t] \in {"down", "loop"}
      /\ op'[t] = op[t] /\ obj'[t] = obj[t] /\ held'[t] = held[t]
  BY DEF SemaDown, At, SemaDownTakes, SemaDownBlocks, Downed, LockInv, TypeOK, OthersSame, Same, lockVars
<1>3. CASE SemaDownTakes(t)
  <2>1. /\ pc'[t] = IF sema[t] \in Locks THEN "holder" ELSE IF sema[t] = t THEN "down" ELSE "run"
        /\ sema'[t] = IF sema[t] \in Locks THEN sema[t]
                      ELSE IF sema[t] = t THEN CondLock[obj[t]] ELSE NULL
    BY <1>3 DEF SemaDownTakes, Downed, LockInv, TypeOK
  <2>2. CASE op[t] = "wait"
    <3>1. sema[t] \in {t, CondLock[obj[t]]} /\ CondLock[obj[t]] \in Locks /\ t \notin Locks
      BY <1>1, <2>2, SemaAssumption DEF CallInvOf, CondInvOf
    <3> QED
      BY <1>2, <2>1, <2>2, <3>1 DEF CondInvOf, Leaving
  <2>3. CASE op[t] # "wait"
    BY <1>1, <1>2, <2>1, <2>3 DEF CondInvOf, Leaving
  <2> QED
    BY <1>2, <2>2, <2>3
<1>4. CASE SemaDownBlocks(t)
  <2>1. pc'[t] = "loop" /\ sema'[t] = sema[t]
    BY <1>4 DEF SemaDownBlocks, LockInv, TypeOK
  <2> QED
    BY <1>1, <1>2, <2>1 DEF CondInvOf, Leaving
<1> QED
  BY <1>3, <1>4 DEF SemaDown

\* sema_up() at the end of lock_release() and cond_signal().
LEMMA UpCond ==
    ASSUME LockInv, CondInv, NEW t \in Threads, UpStep(t)
    PROVE  OthersSame(t) /\ cond_waiters' = cond_waiters /\ CondInvOf(t)'
<1>1. CondInvOf(t) /\ pc[t] = "up"
  BY DEF CondInv, UpStep, At
<1>2. OthersSame(t) /\ cond_waiters' = cond_waiters /\ held'[t] = held[t]
  BY DEF UpStep, LockInv, TypeOK, OthersSame, Same, lockVars
<1>3. /\ pc'[t] = AfterUp(t) /\ sema'[t] = IF op[t] = "wait" THEN t ELSE NULL
      /\ op'[t] = IF op[t] = "signal" THEN "none" ELSE op[t]
      /\ obj'[t] = IF op[t] = "signal" THEN NULL ELSE obj[t]
  BY DEF UpStep, LockInv, TypeOK
<1> QED
  BY <1>1, <1>2, <1>3 DEF AfterUp, CondInvOf, Leaving

\* cond_wait(): the caller, who has the lock, joins last.
LEMMA CondWaitCond ==
    ASSUME LockInv, CondInv, NEW t \in Threads, NEW c \in Conds, CondWait(t, c)
    PROVE  CondInv'
<1>1. /\ OthersSame(t) /\ pc'[t] = "release" /\ op'[t] = "wait" /\ obj'[t] = c /\ sema'[t] = CondLock[c]
      /\ cond_waiters' = [cond_waiters EXCEPT ![c] = Append(@, t)]
  BY DEF CondWait, LockInv, TypeOK, OthersSame, Same
<1>2. CondLock[c] \in Locks /\ CondLock[c] # t
  BY SemaAssumption
<1>2a. /\ cond_waiters[c] \in Seq(Threads)
       /\ \A d \in Conds : cond_waiters'[d] = IF d = c THEN Append(cond_waiters[c], t) ELSE cond_waiters[d]
  BY <1>1 DEF LockInv, TypeOK
<1>3. CondInvOf(t)'
  <2>1. PICK q : q = Append(cond_waiters[c], t)
    OBVIOUS
  <2>2. q # <<>> /\ q[Len(q)] = t
    BY <1>2a, <2>1
  <2>3. cond_waiters'[c] = q
    BY <1>2a, <2>1
  <2> QED
    BY <1>1, <1>2, <2>2, <2>3, SemaAssumption DEF CondInvOf, Leaving
<1>4. \A u \in Threads : Leaving(u) => obj[u] # c
  <2>1. Owns(t, CondLock[c]) /\ ~ Leaving(t)
    BY DEF CondWait, Calling, At, Owns, Leaving
  <2> QED
    BY <2>1, NobodyLeaves
<1>5. ASSUME NEW u \in Threads, u # t PROVE CondInvOf(u)'
  <2>1. CondInvOf(u) /\ Same(u) /\ CallInvOf(u)
    BY <1>1, <1>5 DEF CondInv, OthersSame, LockInv, CallInv
  <2>2. Leaving(u) => obj[u] \in Conds /\ cond_waiters'[obj[u]] = cond_waiters[obj[u]]
    BY <1>2a, <1>4, <2>1 DEF CallInvOf, Leaving
  <2> QED
    BY <2>1, <2>2 DEF CondInvOf, Leaving, Same
<1> QED
  BY <1>3, <1>5 DEF CondInv

\* The list_pop_front() of cond_signal(): who signals has the lock.
LEMMA PopCond ==
    ASSUME LockInv, CondInv, NEW t \in Threads, NEW c \in Conds, SignalPops(t, c), OthersSame(t),
           CondLock[c] \in held[t], op[t] # "wait", op'[t] \in {"signal", "broadcast"}, obj'[t] = c,
           SignalInv
    PROVE  CondInv'
<1>1. /\ pc'[t] = "up" /\ sema'[t] = Head(cond_waiters[c]) /\ held' = held
      /\ cond_waiters[c] # <<>> /\ cond_waiters[c] \in Seq(Threads)
      /\ \A d \in Conds : d # c => cond_waiters'[d] = cond_waiters[d]
  BY DEF SignalPops, LockInv, TypeOK, lockVars
<1>2. Head(cond_waiters[c]) \in Threads
  BY <1>1, PopsFront DEF SignalInv
<1>3. CondInvOf(t)'
  BY <1>1, <1>2 DEF CondInvOf, Leaving
<1>4. \A u \in Threads : Leaving(u) => obj[u] # c
  <2>1. Owns(t, CondLock[c]) /\ ~ Leaving(t)
    BY DEF Owns, Leaving
  <2> QED
    BY <2>1, NobodyLeaves
<1>5. ASSUME NEW u \in Threads, u # t PROVE CondInvOf(u)'
  <2>1. CondInvOf(u) /\ Same(u) /\ CallInvOf(u)
    BY <1>5 DEF CondInv, OthersSame, LockInv, CallInv
  <2>2. Leaving(u) => obj[u] \in Conds /\ cond_waiters'[obj[u]] = cond_waiters[obj[u]]
    BY <1>1, <1>4, <2>1 DEF CallInvOf, Leaving
  <2> QED
    BY <2>1, <2>2 DEF CondInvOf, Leaving, Same
<1> QED
  BY <1>3, <1>5 DEF CondInv

\* Every step of the kernel keeps CondInv.
LEMMA CondInvNext ==
    ASSUME SchedulerInv, SignalInv, CondInv, [Next]_vars
    PROVE  CondInv'
<1>0. LockInv
  BY DEF SchedulerInv
<1>1. ASSUME NEW t \in Threads, Continue(t) PROVE CondInv'
  <2>1. CASE BroadcastNext(t)
    <3>1. CallInvOf(t) /\ CondInvOf(t) /\ pc[t] = "bcast"
      BY <1>0, <2>1 DEF LockInv, CallInv, CondInv, BroadcastNext, At
    <3>2. op[t] = "broadcast" /\ obj[t] \in Conds /\ CondLock[obj[t]] \in held[t]
      BY <3>1 DEF CallInvOf, CondInvOf
    <3>3. SignalPops(t, obj[t]) /\ OthersSame(t) /\ op'[t] = op[t] /\ obj'[t] = obj[t]
      BY <1>0, <2>1 DEF BroadcastNext, SignalPops, LockInv, TypeOK, OthersSame, Same, lockVars
    <3>4. op[t] # "wait" /\ op'[t] \in {"signal", "broadcast"}
      BY <3>2, <3>3
    <3> QED
      BY <1>0, <3>2, <3>3, <3>4, PopCond
  <2>2. CASE SemaDown(t)
    BY <1>0, <2>2, DownCond, CondKept
  <2>3. CASE UpStep(t)
    BY <1>0, <2>3, UpCond, CondKept
  <2>4. CASE LockSetHolder(t) \/ LockClearHolder(t) \/ BroadcastDone(t)
             \/ AllocateTid(t) \/ IncrementTid(t) \/ CreateUnblock(t)
    <3>1. OthersSame(t) /\ cond_waiters' = cond_waiters
      BY <1>0, <2>4, OtherStepsQuiet DEF Quiet
    <3> QED
      BY <1>0, <2>4, <3>1, OtherStepsCond, CondKept
  <2> QED
    BY <1>1, <2>1, <2>2, <2>3, <2>4 DEF Continue
<1>2. ASSUME NEW t \in Threads, Call(t) PROVE CondInv'
  <2>1. ASSUME NEW c \in Conds, CondSignal(t, c) PROVE CondInv'
    <3>1. CallInvOf(t) /\ pc[t] = "run" /\ CondLock[c] \in held[t]
      BY <1>0, <2>1 DEF LockInv, CallInv, CondSignal, Calling, At
    <3>2. op[t] # "wait"
      BY <3>1 DEF CallInvOf
    <3>3. SignalPops(t, c) /\ OthersSame(t) /\ op'[t] \in {"signal", "broadcast"} /\ obj'[t] = c
      BY <1>0, <2>1 DEF CondSignal, SignalPops, LockInv, TypeOK, OthersSame, Same, lockVars
    <3> QED
      BY <1>0, <3>1, <3>2, <3>3, PopCond
  <2>2. ASSUME NEW c \in Conds, CondBroadcast(t, c) PROVE CondInv'
    BY <1>0, <2>2, OtherStepsQuiet, OtherStepsCond, CondKept DEF Quiet
  <2>3. ASSUME NEW s \in Semas, CallSemaDown(t, s) \/ SemaTryDown(t, s) \/ CallSemaUp(t, s)
        PROVE  CondInv'
    BY <1>0, <2>3, OtherStepsQuiet, OtherStepsCond, CondKept DEF Quiet
  <2>4. ASSUME NEW l \in Locks, LockAcquire(t, l) \/ LockTryAcquire(t, l) \/ LockRelease(t, l)
        PROVE  CondInv'
    BY <1>0, <2>4, OtherStepsQuiet, OtherStepsCond, CondKept DEF Quiet
  <2>5. ASSUME NEW u \in Threads, ThreadCreate(t, u) PROVE CondInv'
    BY <1>0, <2>5, OtherStepsQuiet, OtherStepsCond, CondKept DEF Quiet
  <2>6. CASE CallYield(t) \/ ThreadExit(t)
    BY <1>0, <2>6, OtherStepsQuiet, OtherStepsCond, CondKept DEF Quiet
  <2> QED
    BY <1>0, <1>2, <2>1, <2>2, <2>3, <2>4, <2>5, <2>6, CondWaitCond DEF Call
<1>3. ASSUME NEW t \in Threads, OthersSame(t), cond_waiters' = cond_waiters, sema'[t] = sema[t],
             op'[t] = op[t], obj'[t] = obj[t], held'[t] = held[t],
             pc'[t] = pc[t] \/ (pc[t] \in IdlePCs /\ pc'[t] \in IdlePCs)
      PROVE  CondInv'
  <2>1. CondInvOf(t)
    BY DEF CondInv
  <2>2. CondInvOf(t)'
    BY <1>3, <2>1 DEF CondInvOf, Leaving, IdlePCs
  <2> QED
    BY <1>3, <2>2, CondKept
<1>4. CASE IdleLoop
  <2>1. Idle \in Threads
    BY ThreadsAssumption
  <2>2. /\ OthersSame(Idle) /\ cond_waiters' = cond_waiters /\ sema'[Idle] = sema[Idle]
        /\ op'[Idle] = op[Idle] /\ obj'[Idle] = obj[Idle] /\ held'[Idle] = held[Idle]
        /\ pc[Idle] \in IdlePCs /\ pc'[Idle] \in IdlePCs
    BY <1>0, <1>4, <2>1 DEF IdleLoop, IdleStart, IdleUp, IdleBlock, At, OthersSame, Same,
       LockInv, TypeOK, lockVars, IdlePCs
  <2> QED
    BY <1>3, <2>1, <2>2
<1>5. ASSUME InterruptsOn, pc' = Interrupted, UNCHANGED <<lockVars, cond_waiters, sema, op, obj>>
      PROVE  CondInv'
  <2>1. PICK t \in Threads : t = current
    BY <1>0, <1>5 DEF InterruptsOn, LockInv, TypeOK, SchedulerTypeOK
  <2>2. /\ \A x \in Threads : x # t => pc'[x] = pc[x]
        /\ pc'[t] = pc[t] \/ (pc[t] \in IdlePCs /\ pc'[t] \in IdlePCs)
    BY <1>0, <1>5, <2>1 DEF Interrupted, LockInv, TypeOK, IdlePCs
  <2>3. OthersSame(t)
    BY <1>5, <2>2 DEF OthersSame, Same, lockVars
  <2> QED
    BY <1>3, <1>5, <2>2, <2>3 DEF lockVars
<1>6. CASE Tick
  BY <1>5, <1>6 DEF Tick
<1>7. ASSUME NEW s \in IntrSemas, DeviceInterrupt(s) PROVE CondInv'
  BY <1>5, <1>7 DEF DeviceInterrupt
<1>8. CASE UNCHANGED vars
  BY <1>8 DEF vars, CondInv, CondInvOf, Leaving
<1> QED
  BY <1>1, <1>2, <1>4, <1>6, <1>7, <1>8 DEF Next

\* It holds at first: nobody is in cond_wait().
LEMMA CondInvInit == Init => CondInv
BY DEF Init, CondInv, CondInvOf, Leaving

-----------------------------------------------------------------------------
(* The state of the monitor, from what each thread owns, waits for and leaves. *)

\* The owner of a lock is the one thread that owns it.
OwnersKnown ==
    \A l \in Locks : /\ \A t \in Threads : Owns(t, l) => OwnerOf(l) = t
                     /\ (\A t \in Threads : ~ Owns(t, l)) => OwnerOf(l) = NULL

\* Mutual exclusion makes the CHOOSE of OwnerOf the owner.
LEMMA OwnerIs == LockInv => OwnersKnown
<1> SUFFICES ASSUME LockInv, NEW l \in Locks
             PROVE  /\ \A t \in Threads : Owns(t, l) => OwnerOf(l) = t
                    /\ (\A t \in Threads : ~ Owns(t, l)) => OwnerOf(l) = NULL
  BY DEF OwnersKnown
<1>1. \A t, u \in Threads : Owns(t, l) /\ Owns(u, l) => t = u
  BY DEF LockInv, MutualExclusion
<1>2. (\A t \in Threads : ~ Owns(t, l)) => OwnerOf(l) = NULL
  BY DEF OwnerOf
<1>3. ASSUME NEW t \in Threads, Owns(t, l) PROVE OwnerOf(l) = t
  <2>1. PICK u : u = CHOOSE x \in Threads : Owns(x, l)
    OBVIOUS
  <2>2. u \in Threads /\ Owns(u, l)
    BY <1>3, <2>1
  <2>3. OwnerOf(l) = u
    BY <1>3, <2>1 DEF OwnerOf
  <2> QED
    BY <1>1, <1>3, <2>2, <2>3
<1> QED
  BY <1>2, <1>3

\* A thread on the list of a condition is in cond_wait() on it.
ListedWait ==
    \A c \in Conds, t \in Threads : OnList(t, cond_waiters[c]) => InWaiterSema(t) /\ obj[t] = c

\* SignalInv counts the lists a thread is on: none outside cond_wait(), at most its own inside.
LEMMA ListedIs == SignalInv => ListedWait
<1> SUFFICES ASSUME SignalInv, NEW c \in Conds, NEW t \in Threads, OnList(t, cond_waiters[c])
             PROVE  InWaiterSema(t) /\ obj[t] = c
  BY DEF ListedWait
<1>1. c \in Listed(t)
  BY DEF Listed
<1> QED
  BY <1>1 DEF SignalInv, SignalInvOf

\* The queue of a condition is its list without the last to join, if that one leaves.
Last(c) == cond_waiters[c][Len(cond_waiters[c])]
Joining(c) == cond_waiters[c] # <<>> /\ Leaving(Last(c))
QueuesKnown ==
    \A c \in Conds :
        /\ Joining(c) => Waiting(c) = SubSeq(cond_waiters[c], 1, Len(cond_waiters[c]) - 1)
        /\ ~ Joining(c) => Waiting(c) = cond_waiters[c]
        /\ cond_waiters[c] # <<>> => Last(c) \in Threads /\ OnList(Last(c), cond_waiters[c])

\* Only a thread in cond_wait() is ever on a list, so that its place tells whether it leaves.
LEMMA QueueIs == LockInv /\ SignalInv => QueuesKnown
<1> SUFFICES ASSUME LockInv, SignalInv, NEW c \in Conds
             PROVE  /\ Joining(c) => Waiting(c) = SubSeq(cond_waiters[c], 1, Len(cond_waiters[c]) - 1)
                    /\ ~ Joining(c) => Waiting(c) = cond_waiters[c]
                    /\ cond_waiters[c] # <<>> => Last(c) \in Threads /\ OnList(Last(c), cond_waiters[c])
  BY DEF QueuesKnown
<1>1. cond_waiters[c] \in Seq(Threads)
  BY DEF LockInv, TypeOK
<1>2. cond_waiters[c] # <<>> => Last(c) \in Threads /\ OnList(Last(c), cond_waiters[c])
  <2>1. PICK q \in Seq(Threads) : q = cond_waiters[c]
    BY <1>1
  <2>2. q # <<>> => Len(q) \in DOMAIN q /\ q[Len(q)] \in Threads
    OBVIOUS
  <2> QED
    BY <2>1, <2>2 DEF Last, OnList
<1>3. cond_waiters[c] # <<>> => op[Last(c)] = "wait"
  BY <1>2, ListedIs DEF ListedWait, InWaiterSema
<1>4. cond_waiters[c] # <<>> => (Leaving(Last(c)) <=> pc[Last(c)] \in {"release", "up"})
  BY <1>3 DEF Leaving
<1> QED
  BY <1>2, <1>4 DEF Joining, Waiting, Last

\* What a step of t that means nothing to the monitor leaves alone.
Unseen(t) ==
    /\ OthersSame(t) /\ cond_waiters' = cond_waiters
    /\ Leaving(t)' <=> Leaving(t)
    /\ \A l \in Locks : Owns(t, l)' <=> Owns(t, l)
    /\ WokenOn(t)' = WokenOn(t)

\* The invariants before and after a step.
Known == LockInv /\ SignalInv /\ CondInv

\* The owners stay when nobody gains or loses a lock.
LEMMA OwnersStay ==
    ASSUME LockInv, LockInv', NEW t \in Threads, OthersSame(t), NEW l \in Locks,
           Owns(t, l)' <=> Owns(t, l)
    PROVE  OwnerOf(l)' = OwnerOf(l)
<1>1. OwnersKnown /\ OwnersKnown'
  BY OwnerIs, PTL
<1>2. \A u \in Threads : Owns(u, l)' <=> Owns(u, l)
  BY OthersOwn
<1> QED
  BY <1>1, <1>2 DEF OwnersKnown

\* A queue stays when its list does and nobody begins or ends to leave.
LEMMA QueueStays ==
    ASSUME Known, Known', NEW t \in Threads, OthersSame(t), Leaving(t)' <=> Leaving(t),
           NEW c \in Conds, cond_waiters'[c] = cond_waiters[c]
    PROVE  Waiting(c)' = Waiting(c)
<1>1. QueuesKnown /\ QueuesKnown'
  BY QueueIs, PTL DEF Known
<1>2. \A u \in Threads : Leaving(u)' <=> Leaving(u)
  BY DEF OthersSame, Same, Leaving
<1>3. cond_waiters[c] # <<>> => Last(c) \in Threads
  BY <1>1 DEF QueuesKnown
<1>4. Joining(c)' <=> Joining(c)
  BY <1>2, <1>3 DEF Joining, Last
<1> QED
  BY <1>1, <1>4 DEF QueuesKnown

\* Nobody else returns from a wait, or begins to, while the lists stay.
LEMMA ReturningStays ==
    ASSUME NEW t \in Threads, OthersSame(t), cond_waiters' = cond_waiters,
           NEW u \in Threads, u # t
    PROVE  WokenOn(u)' = WokenOn(u)
BY DEF OthersSame, Same, WokenOn

\* Such a step is a stuttering step of the monitor.
LEMMA Stutters ==
    ASSUME Known, Known', NEW t \in Threads, Unseen(t)
    PROVE  UNCHANGED <<Owners, Queues, Returning>>
<1>0. LockInv /\ LockInv'
  BY DEF Known
<1>1. \A l \in Locks : OwnerOf(l)' = OwnerOf(l)
  BY <1>0, OwnersStay DEF Unseen
<1>2. \A c \in Conds : Waiting(c)' = Waiting(c)
  BY QueueStays DEF Unseen
<1>3. \A u \in Threads : WokenOn(u)' = WokenOn(u)
  BY ReturningStays DEF Unseen
<1> QED
  BY <1>1, <1>2, <1>3 DEF Owners, Queues, Returning

-----------------------------------------------------------------------------
(* The steps that mean nothing to the monitor.                             *)

\* Outside cond_wait() only ownership matters.
LEMMA NotWaiting ==
    ASSUME NEW t \in Threads, OthersSame(t), cond_waiters' = cond_waiters,
           op[t] # "wait", op'[t] # "wait", \A l \in Locks : Owns(t, l)' <=> Owns(t, l)
    PROVE  Unseen(t)
BY DEF Unseen, Leaving, WokenOn

\* The calls, until they take or give back something.
LEMMA CallsUnseen ==
    ASSUME LockInv, NEW t \in Threads
    PROVE  /\ \A s \in Semas : CallSemaDown(t, s) \/ SemaTryDown(t, s) \/ CallSemaUp(t, s) => Unseen(t)
           /\ \A l \in Locks : LockAcquire(t, l) \/ LockRelease(t, l) => Unseen(t)
           /\ \A c \in Conds : CondBroadcast(t, c) => Unseen(t)
           /\ \A u \in Threads : ThreadCreate(t, u) => Unseen(t)
           /\ CallYield(t) \/ ThreadExit(t) => Unseen(t)
<1> SUFFICES ASSUME Calling(t)
             PROVE  /\ \A s \in Semas : CallSemaDown(t, s) \/ SemaTryDown(t, s) \/ CallSemaUp(t, s) => Unseen(t)
                    /\ \A l \in Locks : LockAcquire(t, l) \/ LockRelease(t, l) => Unseen(t)
                    /\ \A c \in Conds : CondBroadcast(t, c) => Unseen(t)
                    /\ \A u \in Threads : ThreadCreate(t, u) => Unseen(t)
                    /\ CallYield(t) \/ ThreadExit(t) => Unseen(t)
  BY DEF CallSemaDown, SemaTryDown, CallSemaUp, LockAcquire, LockRelease, CondBroadcast,
     ThreadCreate, CallYield, ThreadExit
<1>0. CallInvOf(t) /\ pc[t] = "run" /\ op[t] = "none"
  BY DEF LockInv, CallInv, CallInvOf, Calling, At
<1> USE <1>0 DEF LockInv, TypeOK, Owns, lockVars, callVars
<1>1. ASSUME NEW s \in Semas, CallSemaDown(t, s) \/ SemaTryDown(t, s) \/ CallSemaUp(t, s)
      PROVE  Unseen(t)
  <2>1. OthersSame(t) /\ cond_waiters' = cond_waiters
    BY <1>1, OtherStepsQuiet DEF Quiet
  <2>2. op'[t] # "wait" /\ \A l \in Locks : Owns(t, l)' <=> Owns(t, l)
    BY <1>1 DEF CallSemaDown, SemaTryDown, CallSemaUp
  <2> QED
    BY <2>1, <2>2, NotWaiting
<1>2. ASSUME NEW l \in Locks, LockAcquire(t, l) \/ LockRelease(t, l) PROVE Unseen(t)
  <2>1. OthersSame(t) /\ cond_waiters' = cond_waiters
    BY <1>2, OtherStepsQuiet DEF Quiet
  <2>2. op'[t] # "wait" /\ \A k \in Locks : Owns(t, k)' <=> Owns(t, k)
    BY <1>2 DEF LockAcquire, LockRelease
  <2> QED
    BY <2>1, <2>2, NotWaiting
<1>3. ASSUME NEW c \in Conds, CondBroadcast(t, c) PROVE Unseen(t)
  <2>1. OthersSame(t) /\ cond_waiters' = cond_waiters
    BY <1>3, OtherStepsQuiet DEF Quiet
  <2>2. op'[t] # "wait" /\ \A k \in Locks : Owns(t, k)' <=> Owns(t, k)
    BY <1>3 DEF CondBroadcast
  <2> QED
    BY <2>1, <2>2, NotWaiting
<1>4. ASSUME NEW u \in Threads, ThreadCreate(t, u) PROVE Unseen(t)
  <2>1. OthersSame(t) /\ cond_waiters' = cond_waiters
    BY <1>4, OtherStepsQuiet DEF Quiet
  <2>2. op'[t] # "wait" /\ \A k \in Locks : Owns(t, k)' <=> Owns(t, k)
    BY <1>4 DEF ThreadCreate
  <2> QED
    BY <2>1, <2>2, NotWaiting
<1>5. CASE CallYield(t) \/ ThreadExit(t)
  <2>1. OthersSame(t) /\ cond_waiters' = cond_waiters
    BY <1>5, OtherStepsQuiet DEF Quiet
  <2>2. op'[t] # "wait" /\ \A k \in Locks : Owns(t, k)' <=> Owns(t, k)
    BY <1>5 DEF CallYield, ThreadExit
  <2> QED
    BY <2>1, <2>2, NotWaiting
<1> QED
  BY <1>1, <1>2, <1>3, <1>4, <1>5

\* The steps inside lock_acquire(), lock_release(), cond_broadcast() and thread_create()
\* that touch no semaphore.
LEMMA HoldersUnseen ==
    ASSUME LockInv, NEW t \in Threads
    PROVE  /\ LockSetHolder(t) \/ LockClearHolder(t) \/ BroadcastDone(t) => Unseen(t)
           /\ AllocateTid(t) \/ IncrementTid(t) \/ CreateUnblock(t) => Unseen(t)
<1>0. CallInvOf(t)
  BY DEF LockInv, CallInv
<1>1. CASE LockSetHolder(t)
  <2>1. OthersSame(t) /\ cond_waiters' = cond_waiters
    BY <1>1, OtherStepsQuiet DEF Quiet
  <2>2. /\ pc[t] = "holder" /\ pc'[t] \in {"alloc", "run"} /\ sema[t] \in Locks /\ sema'[t] = NULL
        /\ held'[t] = held[t] \union {sema[t]}
    BY <1>0, <1>1 DEF LockSetHolder, At, CallInvOf, LockInv, TypeOK
  <2>3. \A l \in Locks : Owns(t, l)' <=> Owns(t, l)
    BY <2>2, SemaAssumption DEF Owns
  <2> QED
    BY <2>1, <2>2, <2>3 DEF Unseen, Leaving, WokenOn
<1>2. CASE LockClearHolder(t)
  <2>1. OthersSame(t) /\ cond_waiters' = cond_waiters
    BY <1>2, OtherStepsQuiet DEF Quiet
  <2>2. /\ pc[t] = "release" /\ pc'[t] = "up" /\ sema'[t] = sema[t] /\ held'[t] = held[t]
        /\ op'[t] = op[t]
    BY <1>0, <1>2 DEF LockClearHolder, At, LockInv, TypeOK
  <2>3. \A l \in Locks : Owns(t, l)' <=> Owns(t, l)
    BY <2>2 DEF Owns
  <2> QED
    BY <2>1, <2>2, <2>3 DEF Unseen, Leaving, WokenOn
<1>3. CASE BroadcastDone(t)
  <2>1. OthersSame(t) /\ cond_waiters' = cond_waiters
    BY <1>3, OtherStepsQuiet DEF Quiet
  <2>2. /\ pc[t] = "bcast" /\ pc'[t] = "run" /\ sema'[t] = sema[t] /\ held'[t] = held[t]
        /\ op'[t] = "none" /\ op[t] = "broadcast"
    BY <1>0, <1>3 DEF BroadcastDone, At, LockInv, TypeOK, lockVars, CallInvOf
  <2>3. \A l \in Locks : Owns(t, l)' <=> Owns(t, l)
    BY <2>2 DEF Owns
  <2> QED
    BY <2>1, <2>2, <2>3, NotWaiting
<1>4. CASE AllocateTid(t) \/ CreateUnblock(t)
  <2>1. OthersSame(t) /\ cond_waiters' = cond_waiters
    BY <1>4, OtherStepsQuiet DEF Quiet
  <2>2. /\ pc[t] \in {"alloc", "unblock"} /\ pc'[t] \in {"incr", "run"} /\ held'[t] = held[t]
        /\ op'[t] # "wait" /\ op[t] = "create"
    BY <1>0, <1>4 DEF AllocateTid, CreateUnblock, At, LockInv, TypeOK, lockVars, CallInvOf
  <2>3. \A l \in Locks : Owns(t, l)' <=> Owns(t, l)
    BY <2>2 DEF Owns
  <2> QED
    BY <2>1, <2>2, <2>3, NotWaiting
<1>5. CASE IncrementTid(t)
  <2>1. OthersSame(t) /\ cond_waiters' = cond_waiters
    BY <1>5, OtherStepsQuiet DEF Quiet
  <2>2. /\ pc[t] = "incr" /\ pc'[t] = "release" /\ sema'[t] = TidLock
        /\ held'[t] = held[t] \ {TidLock} /\ TidLock \in held[t]
        /\ op'[t] = "create" /\ op[t] = "create"
    BY <1>0, <1>5 DEF IncrementTid, At, LockInv, TypeOK, CallInvOf
  <2>3. \A l \in Locks : Owns(t, l)' <=> Owns(t, l)
    BY <2>2 DEF Owns
  <2> QED
    BY <2>1, <2>2, <2>3, NotWaiting
<1> QED
  BY <1>1, <1>2, <1>3, <1>4, <1>5

\* sema_down() of anything but a lock: the waiter has its signal, and is on its way
\* back already.
LEMMA DownUnseen ==
    ASSUME LockInv, SignalInv, CondInv, NEW t \in Threads, SemaDown(t),
           SemaDownBlocks(t) \/ sema[t] \notin Locks
    PROVE  Unseen(t)
<1>0. CallInvOf(t) /\ CondInvOf(t)
  BY DEF LockInv, CallInv, CondInv
<1>1. /\ OthersSame(t) /\ cond_waiters' = cond_waiters /\ pc[t] \in {"down", "loop"}
      /\ op'[t] = op[t] /\ obj'[t] = obj[t] /\ held'[t] = held[t]
  BY DEF SemaDown, At, SemaDownTakes, SemaDownBlocks, Downed, LockInv, TypeOK, OthersSame, Same, lockVars
<1>2. CASE SemaDownBlocks(t)
  <2>1. pc'[t] = "loop" /\ sema'[t] = sema[t]
    BY <1>2 DEF SemaDownBlocks, LockInv, TypeOK
  <2>2. \A l \in Locks : Owns(t, l)' <=> Owns(t, l)
    BY <1>1, <2>1 DEF Owns
  <2> QED
    BY <1>1, <2>1, <2>2 DEF Unseen, Leaving, WokenOn
<1>3. CASE SemaDownTakes(t) /\ sema[t] \notin Locks
  <2>1. pc'[t] = IF sema[t] = t THEN "down" ELSE "run"
    BY <1>3 DEF SemaDownTakes, Downed, LockInv, TypeOK
  <2>2. \A l \in Locks : Owns(t, l)' <=> Owns(t, l)
    BY <1>1, <2>1 DEF Owns
  <2>3. op[t] = "wait" => sema[t] = t
    <3>1. op[t] = "wait" => obj[t] \in Conds
      BY <1>0 DEF CallInvOf
    <3> QED
      BY <1>0, <1>3, <3>1, SemaAssumption DEF CondInvOf
  <2> QED
    BY <1>1, <2>1, <2>2, <2>3 DEF Unseen, Leaving, WokenOn
<1> QED
  BY <1>2, <1>3 DEF SemaDown

\* The sema_up() of a waiter's semaphore.
LEMMA UpUnseen ==
    ASSUME LockInv, CondInv, NEW t \in Threads, UpStep(t), sema[t] \notin Locks
    PROVE  Unseen(t)
<1>1. CallInvOf(t) /\ CondInvOf(t) /\ pc[t] = "up"
  BY DEF LockInv, CallInv, CondInv, UpStep, At
<1>2. op[t] \in {"signal", "broadcast"}
  BY <1>1 DEF CallInvOf, CondInvOf
<1>3. OthersSame(t) /\ cond_waiters' = cond_waiters
  BY UpCond
<1>4. held'[t] = held[t] /\ pc'[t] \in {"run", "bcast"} /\ op'[t] # "wait"
  BY <1>2 DEF UpStep, LockInv, TypeOK, AfterUp, lockVars
<1>5. \A l \in Locks : Owns(t, l)' <=> Owns(t, l)
  BY <1>1, <1>4 DEF Owns
<1> QED
  BY <1>2, <1>3, <1>4, <1>5, NotWaiting

\* idle() and the interrupts.
LEMMA IdleUnseen ==
    ASSUME NEW t \in Threads, OthersSame(t), cond_waiters' = cond_waiters, sema'[t] = sema[t],
           op'[t] = op[t], obj'[t] = obj[t], held'[t] = held[t],
           pc'[t] = pc[t] \/ (pc[t] \in IdlePCs /\ pc'[t] \in IdlePCs)
    PROVE  Unseen(t)
<1>1. \A l \in Locks : Owns(t, l)' <=> Owns(t, l)
  BY DEF Owns, IdlePCs
<1>2. Leaving(t)' <=> Leaving(t)
  BY DEF Leaving, IdlePCs
<1>3. WokenOn(t)' = WokenOn(t)
  BY DEF WokenOn, IdlePCs
<1> QED
  BY <1>1, <1>2, <1>3 DEF Unseen

-----------------------------------------------------------------------------
(* The steps of the monitor.                                               *)

\* A queue is the beginning of its condition's list.
LEMMA QueueListed ==
    ASSUME Known, NEW c \in Conds, NEW i \in DOMAIN Waiting(c)
    PROVE  Waiting(c)[i] \in Threads /\ OnList(Waiting(c)[i], cond_waiters[c])
<1>1. PICK q \in Seq(Threads) : q = cond_waiters[c]
  BY DEF Known, LockInv, TypeOK
<1>2. Waiting(c) = q \/ (q # <<>> /\ Waiting(c) = SubSeq(q, 1, Len(q) - 1))
  BY <1>1, QueueIs DEF Known, QueuesKnown, Joining
<1>3. CASE Waiting(c) = q
  BY <1>1, <1>3 DEF OnList
<1>4. CASE q # <<>> /\ Waiting(c) = SubSeq(q, 1, Len(q) - 1)
  <2>1. PICK r : r = SubSeq(q, 1, Len(q) - 1)
    OBVIOUS
  <2>2. DOMAIN r = 1 .. Len(q) - 1 /\ \A j \in 1 .. Len(q) - 1 : r[j] = q[j]
    BY <1>4, <2>1
  <2>3. i \in 1 .. Len(q) /\ r[i] = q[i]
    BY <1>4, <2>1, <2>2
  <2> QED
    BY <1>1, <1>4, <2>1, <2>3 DEF OnList
<1> QED
  BY <1>2, <1>3, <1>4

\* The owners change in one place when t gains the lock k.
LEMMA OwnersGain ==
    ASSUME Known, Known', NEW t \in Threads, NEW k \in Locks, OthersSame(t), value[k] > 0,
           \A l \in Locks : Owns(t, l)' <=> Owns(t, l) \/ l = k
    PROVE  Owners[k] = NULL /\ Owners' = [Owners EXCEPT ![k] = t]
<1>0. LockInv /\ LockInv'
  BY DEF Known
<1>1. OwnersKnown /\ OwnersKnown'
  BY <1>0, OwnerIs, PTL
<1>2. \A u \in Threads : ~ Owns(u, k)
  BY <1>0 DEF LockInv, MutualExclusion
<1>3. OwnerOf(k) = NULL /\ OwnerOf(k)' = t
  BY <1>1, <1>2 DEF OwnersKnown
<1>4. ASSUME NEW l \in Locks, l # k PROVE OwnerOf(l)' = OwnerOf(l)
  BY <1>0, <1>4, OwnersStay
<1> QED
  BY <1>3, <1>4 DEF Owners

\* They do when it loses it: nobody else owned it.
LEMMA OwnersLose ==
    ASSUME Known, Known', NEW t \in Threads, NEW k \in Locks, OthersSame(t), Owns(t, k),
           \A l \in Locks : Owns(t, l)' <=> Owns(t, l) /\ l # k
    PROVE  Owners[k] = t /\ Owners' = [Owners EXCEPT ![k] = NULL]
<1>0. LockInv /\ LockInv'
  BY DEF Known
<1>1. OwnersKnown /\ OwnersKnown'
  BY <1>0, OwnerIs, PTL
<1>2. \A u \in Threads : ~ Owns(u, k)'
  <2>1. \A u \in Threads : Owns(u, k) => u = t
    BY <1>0 DEF LockInv, MutualExclusion
  <2> QED
    BY <2>1, OthersOwn
<1>3. OwnerOf(k) = t /\ OwnerOf(k)' = NULL
  BY <1>1, <1>2 DEF OwnersKnown
<1>4. ASSUME NEW l \in Locks, l # k PROVE OwnerOf(l)' = OwnerOf(l)
  BY <1>0, <1>4, OwnersStay
<1> QED
  BY <1>3, <1>4 DEF Owners

\* What a step of t has to be for the monitor to see it acquire or release the lock k.
Takes(t, k) ==
    /\ OthersSame(t) /\ cond_waiters' = cond_waiters /\ value[k] > 0
    /\ ~ InWaiterSema(t) /\ ~ Leaving(t)'
    /\ \A l \in Locks : Owns(t, l)' <=> Owns(t, l) \/ l = k
    /\ WokenOn(t) # NULL => CondLock[WokenOn(t)] = k
    /\ WokenOn(t)' = NULL
Gives(t, k) ==
    /\ OthersSame(t) /\ cond_waiters' = cond_waiters /\ Owns(t, k)
    /\ Leaving(t)' <=> Leaving(t)
    /\ \A l \in Locks : Owns(t, l)' <=> Owns(t, l) /\ l # k
    /\ WokenOn(t)' = WokenOn(t)

\* A lock is taken.
LEMMA Acquires ==
    ASSUME Known, Known', NEW t \in Threads, NEW k \in Locks, Takes(t, k)
    PROVE  M!Acquire(t, k)
<1>1. Owners[k] = NULL /\ Owners' = [Owners EXCEPT ![k] = t]
  BY OwnersGain DEF Takes
<1>2. \A c \in Conds : \A i \in DOMAIN Queues[c] : Queues[c][i] # t
  <2> SUFFICES ASSUME NEW c \in Conds, NEW i \in DOMAIN Waiting(c), Waiting(c)[i] = t PROVE FALSE
    BY DEF Queues
  <2>1. OnList(t, cond_waiters[c])
    BY QueueListed
  <2> QED
    BY <2>1, ListedIs DEF Known, ListedWait, Takes
<1>3. Queues' = Queues
  <2>1. Leaving(t)' <=> Leaving(t)
    BY DEF Takes, Leaving, InWaiterSema
  <2>2. \A c \in Conds : Waiting(c)' = Waiting(c)
    BY <2>1, QueueStays DEF Takes
  <2> QED
    BY <2>2 DEF Queues
<1>4. Returning' = [Returning EXCEPT ![t] = NULL]
  <2>1. \A u \in Threads : u # t => WokenOn(u)' = WokenOn(u)
    BY ReturningStays DEF Takes
  <2>2. WokenOn(t)' = NULL
    BY DEF Takes
  <2> QED
    BY <2>1, <2>2 DEF Returning
<1>5. Returning[t] # NULL => CondLock[Returning[t]] = k
  BY DEF Takes, Returning
<1> QED
  BY <1>1, <1>2, <1>3, <1>4, <1>5 DEF M!Acquire

\* A lock is given back.
LEMMA Releases ==
    ASSUME Known, Known', NEW t \in Threads, NEW k \in Locks, Gives(t, k)
    PROVE  M!Release(t, k)
<1>1. Owners[k] = t /\ Owners' = [Owners EXCEPT ![k] = NULL]
  BY OwnersLose DEF Gives
<1>2. Queues' = Queues
  <2>1. \A c \in Conds : Waiting(c)' = Waiting(c)
    BY QueueStays DEF Gives
  <2> QED
    BY <2>1 DEF Queues
<1>3. Returning' = Returning
  <2>1. \A u \in Threads : WokenOn(u)' = WokenOn(u)
    BY ReturningStays DEF Gives
  <2> QED
    BY <2>1 DEF Returning
<1> QED
  BY <1>1, <1>2, <1>3 DEF M!Release

\* The sema_down() of a lock.
LEMMA DownAcquires ==
    ASSUME Known, Known', NEW t \in Threads, SemaDown(t), SemaDownTakes(t), sema[t] \in Locks
    PROVE  M!Acquire(t, sema[t])
<1>0. LockInv /\ CallInvOf(t) /\ CondInvOf(t)
  BY DEF Known, LockInv, CallInv, CondInv
<1>1. /\ OthersSame(t) /\ cond_waiters' = cond_waiters /\ pc[t] \in {"down", "loop"}
      /\ held'[t] = held[t] /\ pc'[t] = "holder" /\ sema'[t] = sema[t] /\ value[sema[t]] > 0
  BY <1>0 DEF SemaDown, At, SemaDownTakes, Downed, LockInv, TypeOK, OthersSame, Same, lockVars
<1>2. \A l \in Locks : Owns(t, l)' <=> Owns(t, l) \/ l = sema[t]
  BY <1>1 DEF Owns
<1>3. ~ InWaiterSema(t) /\ ~ Leaving(t)' /\ WokenOn(t)' = NULL
  BY <1>1, SemaAssumption DEF InWaiterSema, Leaving, WokenOn
<1>4. WokenOn(t) # NULL => CondLock[WokenOn(t)] = sema[t]
  <2>1. op[t] = "wait" => sema[t] = CondLock[obj[t]]
    BY <1>0, SemaAssumption DEF CondInvOf
  <2> QED
    BY <2>1 DEF WokenOn
<1>5. Takes(t, sema[t])
  BY <1>1, <1>2, <1>3, <1>4 DEF Takes
<1> QED
  BY <1>5, Acquires

\* lock_try_acquire() when it succeeds.
LEMMA TryAcquires ==
    ASSUME Known, Known', NEW t \in Threads, NEW k \in Locks, LockTryAcquire(t, k)
    PROVE  M!Acquire(t, k)
<1>0. LockInv /\ CallInvOf(t)
  BY DEF Known, LockInv, CallInv
<1>1. /\ OthersSame(t) /\ cond_waiters' = cond_waiters
  BY <1>0, OtherStepsQuiet DEF Quiet
<1>2. /\ pc[t] = "run" /\ op[t] = "none" /\ op'[t] = "none" /\ held'[t] = held[t]
      /\ pc'[t] = "holder" /\ sema'[t] = k /\ value[k] > 0
  BY <1>0 DEF LockTryAcquire, Calling, At, LockInv, TypeOK, CallInvOf, lockVars
<1>3. \A l \in Locks : Owns(t, l)' <=> Owns(t, l) \/ l = k
  BY <1>2 DEF Owns
<1>4. Takes(t, k)
  BY <1>1, <1>2, <1>3 DEF Takes, InWaiterSema, Leaving, WokenOn
<1> QED
  BY <1>4, Acquires

\* The sema_up() of lock_release().
LEMMA UpReleases ==
    ASSUME Known, Known', NEW t \in Threads, UpStep(t), sema[t] \in Locks, op[t] # "wait"
    PROVE  M!Release(t, sema[t])
<1>0. LockInv /\ CallInvOf(t)
  BY DEF Known, LockInv, CallInv
<1>1. OthersSame(t) /\ cond_waiters' = cond_waiters
  BY UpCond DEF Known
<1>2. /\ pc[t] = "up" /\ sema[t] \notin held[t] /\ held'[t] = held[t] /\ op'[t] # "wait"
      /\ pc'[t] \notin {"holder", "release", "up"}
  BY <1>0 DEF UpStep, At, AfterUp, LockInv, TypeOK, CallInvOf, lockVars
<1>3. Owns(t, sema[t]) /\ \A l \in Locks : Owns(t, l)' <=> Owns(t, l) /\ l # sema[t]
  BY <1>2 DEF Owns
<1>4. Gives(t, sema[t])
  BY <1>1, <1>2, <1>3 DEF Gives, Leaving, WokenOn
<1> QED
  BY <1>4, Releases

\* The sema_up() in cond_wait(): the lock is given back and the caller, who has been on
\* the list since before, is waiting.
LEMMA UpWaits ==
    ASSUME Known, Known', NEW t \in Threads, UpStep(t), op[t] = "wait"
    PROVE  obj[t] \in Conds /\ M!Wait(t, obj[t])
<1>0. LockInv /\ CallInvOf(t) /\ CondInvOf(t) /\ pc[t] = "up"
  BY DEF Known, LockInv, CallInv, CondInv, UpStep, At
<1>1. PICK c \in Conds : c = obj[t]
  BY <1>0 DEF CallInvOf
<1>2. OthersSame(t) /\ cond_waiters' = cond_waiters
  BY UpCond DEF Known
<1>3. /\ sema[t] = CondLock[c] /\ CondLock[c] \in Locks /\ CondLock[c] # t
      /\ CondLock[c] \notin held[t]
  BY <1>0, <1>1, SemaAssumption DEF CallInvOf, CondInvOf
<1>4. /\ held'[t] = held[t] /\ pc'[t] = "down" /\ op'[t] = "wait" /\ obj'[t] = c
  BY <1>0, <1>1 DEF UpStep, AfterUp, LockInv, TypeOK, lockVars
<1>5. cond_waiters[c] # <<>> /\ Last(c) = t /\ Leaving(t) /\ ~ Leaving(t)'
  BY <1>0, <1>1, <1>4 DEF CondInvOf, Leaving, Last
<1>6. Owners[CondLock[c]] = t /\ Owners' = [Owners EXCEPT ![CondLock[c]] = NULL]
  <2>1. Owns(t, CondLock[c]) /\ \A l \in Locks : Owns(t, l)' <=> Owns(t, l) /\ l # CondLock[c]
    BY <1>0, <1>3, <1>4 DEF Owns
  <2> QED
    BY <1>2, <1>3, <2>1, OwnersLose
<1>7. QueuesKnown /\ QueuesKnown' /\ ListedWait
  BY QueueIs, ListedIs, PTL DEF Known
<1>8. Waiting(c)' = Append(Waiting(c), t)
  <2>1. PICK q \in Seq(Threads) : q = cond_waiters[c]
    BY <1>0 DEF LockInv, TypeOK
  <2>2. q # <<>> /\ q[Len(q)] = t
    BY <1>5, <2>1 DEF Last
  <2>3. q = Append(SubSeq(q, 1, Len(q) - 1), t)
    BY <2>2
  <2>4. Joining(c) /\ ~ Joining(c)'
    BY <1>2, <1>5 DEF Joining, Last
  <2>5. Waiting(c) = SubSeq(q, 1, Len(q) - 1) /\ Waiting(c)' = q
    BY <1>2, <1>7, <2>1, <2>4 DEF QueuesKnown
  <2> QED
    BY <2>3, <2>5
<1>9. ASSUME NEW d \in Conds, d # c PROVE Waiting(d)' = Waiting(d)
  <2>1. cond_waiters[d] # <<>> => Last(d) \in Threads /\ obj[Last(d)] = d
    BY <1>7 DEF QueuesKnown, ListedWait
  <2>2. cond_waiters[d] # <<>> => Last(d) # t
    BY <1>1, <1>9, <2>1
  <2>3. cond_waiters[d] # <<>> => (Leaving(Last(d))' <=> Leaving(Last(d)))
    BY <1>2, <2>1, <2>2 DEF Leaving, OthersSame, Same, Last
  <2>4. Joining(d)' <=> Joining(d)
    BY <1>2, <2>3 DEF Joining, Last
  <2> QED
    BY <1>2, <1>7, <2>4 DEF QueuesKnown
<1>10. Queues' = [Queues EXCEPT ![c] = Append(@, t)]
  BY <1>8, <1>9 DEF Queues
<1>11. Returning' = Returning
  <2>1. \A u \in Threads : u # t => WokenOn(u)' = WokenOn(u)
    BY <1>2, ReturningStays
  <2>2. WokenOn(t) = NULL
    BY <1>0 DEF WokenOn
  <2>3. OnList(t, cond_waiters'[c])
    BY <1>2, <1>5, <1>7 DEF QueuesKnown
  <2>4. WokenOn(t)' = NULL
    BY <1>4, <2>3 DEF WokenOn
  <2> QED
    BY <2>1, <2>2, <2>4 DEF Returning
<1> QED
  BY <1>1, <1>6, <1>10, <1>11 DEF M!Wait

\* cond_wait() until it gives the lock back: on the list, but not waiting yet.
LEMMA CondWaitUnseen ==
    ASSUME Known, Known', NEW t \in Threads, NEW c \in Conds, CondWait(t, c)
    PROVE  UNCHANGED <<Owners, Queues, Returning>>
<1>0. LockInv /\ LockInv' /\ CallInvOf(t) /\ pc[t] = "run" /\ CondLock[c] \in held[t]
  BY DEF Known, LockInv, CallInv, CondWait, Calling, At
<1>1. /\ OthersSame(t) /\ pc'[t] = "release" /\ op'[t] = "wait" /\ obj'[t] = c /\ sema'[t] = CondLock[c]
      /\ op[t] = "none" /\ held'[t] = held[t] \ {CondLock[c]}
  BY <1>0 DEF CondWait, LockInv, TypeOK, OthersSame, Same, CallInvOf
<1>2. PICK q \in Seq(Threads) : q = cond_waiters[c]
  BY <1>0 DEF LockInv, TypeOK
<1>3. /\ cond_waiters'[c] = Append(q, t)
      /\ \A d \in Conds : d # c => cond_waiters'[d] = cond_waiters[d]
  BY <1>0, <1>2 DEF CondWait, LockInv, TypeOK
<1>4. Owners' = Owners
  <2>1. \A l \in Locks : Owns(t, l)' <=> Owns(t, l)
    BY <1>0, <1>1 DEF Owns
  <2>2. \A l \in Locks : OwnerOf(l)' = OwnerOf(l)
    BY <1>0, <1>1, <2>1, OwnersStay
  <2> QED
    BY <2>2 DEF Owners
<1>5. QueuesKnown /\ QueuesKnown' /\ ListedWait
  BY QueueIs, ListedIs, PTL DEF Known
<1>6. Waiting(c)' = Waiting(c)
  <2>1. CondLock[c] \in Locks /\ Owns(t, CondLock[c]) /\ ~ Leaving(t)
    BY <1>0, <1>1, SemaAssumption DEF Owns, Leaving
  <2>2. \A u \in Threads : Leaving(u) => obj[u] # c
    BY <1>0, <2>1, NobodyLeaves DEF Known
  <2>3. ~ Joining(c)
    BY <1>5, <2>2 DEF QueuesKnown, ListedWait, Joining
  <2>4. Waiting(c) = q
    BY <1>2, <1>5, <2>3 DEF QueuesKnown
  <2>5. PICK r : r = Append(q, t)
    OBVIOUS
  <2>6. r # <<>> /\ r[Len(r)] = t /\ SubSeq(r, 1, Len(r) - 1) = q
    BY <2>5
  <2>7. Joining(c)'
    BY <1>1, <1>3, <2>5, <2>6 DEF Joining, Last, Leaving
  <2>8. Waiting(c)' = SubSeq(r, 1, Len(r) - 1)
    BY <1>3, <1>5, <2>5, <2>7 DEF QueuesKnown
  <2> QED
    BY <2>4, <2>6, <2>8
<1>7. ASSUME NEW d \in Conds, d # c PROVE Waiting(d)' = Waiting(d)
  <2>1. cond_waiters[d] # <<>> => Last(d) \in Threads /\ op[Last(d)] = "wait"
    BY <1>5 DEF QueuesKnown, ListedWait, InWaiterSema
  <2>2. cond_waiters[d] # <<>> => Last(d) # t
    BY <1>1, <2>1
  <2>3. cond_waiters[d] # <<>> => (Leaving(Last(d))' <=> Leaving(Last(d)))
    BY <1>1, <1>3, <1>7, <2>1, <2>2 DEF Leaving, OthersSame, Same, Last
  <2>4. Joining(d)' <=> Joining(d)
    BY <1>3, <1>7, <2>3 DEF Joining, Last
  <2> QED
    BY <1>3, <1>5, <1>7, <2>4 DEF QueuesKnown
<1>8. Queues' = Queues
  BY <1>6, <1>7 DEF Queues
<1>9. ASSUME NEW u \in Threads, u # t PROVE WokenOn(u)' = WokenOn(u)
  <2>1. Same(u) /\ CallInvOf(u)
    BY <1>0, <1>1, <1>9 DEF OthersSame, LockInv, CallInv
  <2>2. \A d \in Conds : OnList(u, cond_waiters'[d]) <=> OnList(u, cond_waiters[d])
    <3>1. ~ OnList(t, q) /\ NoDuplicates(q)
      BY <1>1, <1>2, <1>5 DEF ListedWait, InWaiterSema, Known, SignalInv
    <3>2. OnList(u, Append(q, t)) <=> OnList(u, q)
      BY <1>9, <3>1, PushBack
    <3> QED
      BY <1>2, <1>3, <3>2
  <2>3. op[u] = "wait" => obj[u] \in Conds
    BY <2>1 DEF CallInvOf
  <2> QED
    BY <2>1, <2>2, <2>3 DEF Same, WokenOn
<1>10. Returning' = Returning
  <2>1. WokenOn(t) = NULL /\ WokenOn(t)' = NULL
    BY <1>1 DEF WokenOn
  <2> QED
    BY <1>9, <2>1 DEF Returning
<1> QED
  BY <1>4, <1>8, <1>10

\* The list_pop_front() of cond_signal().
LEMMA Signals ==
    ASSUME Known, Known', NEW t \in Threads, NEW c \in Conds, SignalPops(t, c), OthersSame(t),
           CondLock[c] \in held[t], op[t] # "wait", op'[t] # "wait", pc[t] \in {"run", "bcast"}
    PROVE  M!Signal(t, c)
<1>0. LockInv /\ LockInv' /\ CondLock[c] \in Locks
  BY SemaAssumption DEF Known
<1>1. PICK q \in Seq(Threads) : q = cond_waiters[c]
  BY <1>0 DEF LockInv, TypeOK
<1>2. /\ pc'[t] = "up" /\ sema'[t] = Head(q) /\ held' = held /\ q # <<>> /\ NoDuplicates(q)
      /\ cond_waiters'[c] = Tail(q)
      /\ \A d \in Conds : d # c => cond_waiters'[d] = cond_waiters[d]
  BY <1>0, <1>1 DEF SignalPops, LockInv, TypeOK, lockVars, Known, SignalInv
<1>3. /\ Head(q) \in Threads /\ OnList(Head(q), q)
      /\ \A x \in Threads : OnList(x, Tail(q)) <=> OnList(x, q) /\ x # Head(q)
  BY <1>2, PopsFront
<1>4. PICK h \in Threads : h = Head(q)
  BY <1>3
<1>5. QueuesKnown /\ QueuesKnown' /\ ListedWait /\ ListedWait'
  BY QueueIs, ListedIs, PTL DEF Known
<1>6. \A u \in Threads : Leaving(u) => obj[u] # c
  <2>1. Owns(t, CondLock[c]) /\ ~ Leaving(t)
    BY DEF Owns, Leaving
  <2> QED
    BY <1>0, <2>1, NobodyLeaves DEF Known
<1>7. Owners[CondLock[c]] = t /\ Owners' = Owners
  <2>1. \A l \in Locks : Owns(t, l)' <=> Owns(t, l)
    BY <1>2, <1>3, SemaAssumption DEF Owns
  <2>2. \A l \in Locks : OwnerOf(l)' = OwnerOf(l)
    BY <1>0, <2>1, OwnersStay
  <2>3. OwnerOf(CondLock[c]) = t
    BY <1>0, OwnerIs DEF OwnersKnown, Owns
  <2> QED
    BY <1>0, <2>2, <2>3 DEF Owners
<1>8. Waiting(c) = q /\ Waiting(c)' = Tail(q)
  <2>1. ~ Joining(c)
    BY <1>5, <1>6 DEF QueuesKnown, ListedWait, Joining
  <2>2. ~ Joining(c)'
    <3> SUFFICES ASSUME Joining(c)' PROVE FALSE
      OBVIOUS
    <3>1. PICK u \in Threads : u = Last(c)' /\ OnList(u, cond_waiters'[c]) /\ Leaving(u)'
      BY <1>5 DEF Joining, QueuesKnown
    <3>2. u # t /\ obj'[u] = c
      BY <1>5, <3>1 DEF ListedWait, Leaving
    <3>3. Leaving(u) /\ obj[u] = c
      BY <3>1, <3>2 DEF Leaving, OthersSame, Same
    <3> QED
      BY <1>6, <3>3
  <2> QED
    BY <1>1, <1>2, <1>5, <2>1, <2>2 DEF QueuesKnown
<1>9. ASSUME NEW d \in Conds, d # c PROVE Waiting(d)' = Waiting(d)
  BY <1>2, <1>9, QueueStays DEF Leaving
<1>10. Queues[c] = q /\ Queues' = [Queues EXCEPT ![c] = Tail(@)]
  BY <1>8, <1>9 DEF Queues
<1>11. WokenOn(h)' = c
  <2>1. InWaiterSema(h) /\ obj[h] = c
    BY <1>1, <1>3, <1>4, <1>5 DEF ListedWait
  <2>2. op[h] = "wait" /\ sema[h] = h /\ pc[h] \in {"down", "loop"}
    <3>1. ~ Leaving(h) /\ CondInvOf(h)
      BY <1>6, <2>1 DEF Known, CondInv
    <3> QED
      BY <2>1, <3>1 DEF InWaiterSema, Leaving, CondInvOf
  <2>3. Same(h)
    BY <2>2 DEF OthersSame
  <2>4. ~ OnList(h, cond_waiters'[c])
    BY <1>2, <1>3, <1>4
  <2> QED
    BY <2>1, <2>2, <2>3, <2>4 DEF Same, WokenOn
<1>12. ASSUME NEW u \in Threads, u # h PROVE WokenOn(u)' = WokenOn(u)
  <2>1. CASE u = t
    BY <2>1 DEF WokenOn
  <2>2. CASE u # t
    <3>1. Same(u) /\ CallInvOf(u)
      BY <1>0, <2>2 DEF OthersSame, LockInv, CallInv
    <3>2. \A d \in Conds : OnList(u, cond_waiters'[d]) <=> OnList(u, cond_waiters[d])
      BY <1>1, <1>2, <1>3, <1>4, <1>12
    <3>3. op[u] = "wait" => obj[u] \in Conds
      BY <3>1 DEF CallInvOf
    <3> QED
      BY <3>1, <3>2, <3>3 DEF Same, WokenOn
  <2> QED
    BY <2>1, <2>2
<1>13. Returning' = [Returning EXCEPT ![h] = c]
  BY <1>11, <1>12 DEF Returning
<1> QED
  BY <1>2, <1>4, <1>7, <1>10, <1>13 DEF M!Signal

-----------------------------------------------------------------------------
\* A step inside a primitive is one of the monitor's, or means nothing to it.
LEMMA ContinueImplements ==
    ASSUME Known, Known', NEW t \in Threads, Continue(t)
    PROVE  M!MNext \/ UNCHANGED <<Owners, Queues, Returning>>
<1>0. LockInv /\ SignalInv /\ CondInv /\ CallInvOf(t) /\ CondInvOf(t)
  BY DEF Known, LockInv, CallInv, CondInv
<1>1. CASE SemaDown(t)
  <2>1. CASE SemaDownBlocks(t) \/ sema[t] \notin Locks
    BY <1>0, <1>1, <2>1, DownUnseen, Stutters
  <2>2. CASE SemaDownTakes(t) /\ sema[t] \in Locks
    <3>1. M!Acquire(t, sema[t])
      BY <1>1, <2>2, DownAcquires
    <3> QED
      BY <2>2, <3>1 DEF M!MNext
  <2> QED
    BY <1>1, <2>1, <2>2 DEF SemaDown
<1>2. CASE UpStep(t)
  <2>1. CASE sema[t] \notin Locks
    BY <1>0, <1>2, <2>1, UpUnseen, Stutters
  <2>2. CASE sema[t] \in Locks /\ op[t] # "wait"
    <3>1. M!Release(t, sema[t])
      BY <1>2, <2>2, UpReleases
    <3> QED
      BY <2>2, <3>1 DEF M!MNext
  <2>3. CASE op[t] = "wait"
    <3>1. obj[t] \in Conds /\ M!Wait(t, obj[t])
      BY <1>2, <2>3, UpWaits
    <3> QED
      BY <3>1 DEF M!MNext
  <2> QED
    BY <2>1, <2>2, <2>3
<1>3. CASE BroadcastNext(t)
  <2>1. pc[t] = "bcast" /\ op[t] = "broadcast" /\ obj[t] \in Conds /\ CondLock[obj[t]] \in held[t]
    BY <1>0, <1>3 DEF BroadcastNext, At, CallInvOf, CondInvOf
  <2>2. SignalPops(t, obj[t]) /\ OthersSame(t) /\ op'[t] # "wait"
    BY <1>0, <1>3, <2>1 DEF BroadcastNext, SignalPops, LockInv, TypeOK, OthersSame, Same, lockVars
  <2>3. M!Signal(t, obj[t])
    BY <2>1, <2>2, Signals
  <2> QED
    BY <2>1, <2>3 DEF M!MNext
<1>4. CASE LockSetHolder(t) \/ LockClearHolder(t) \/ BroadcastDone(t)
           \/ AllocateTid(t) \/ IncrementTid(t) \/ CreateUnblock(t)
  BY <1>0, <1>4, HoldersUnseen, Stutters
<1> QED
  BY <1>1, <1>2, <1>3, <1>4 DEF Continue

\* So is a call.
LEMMA CallImplements ==
    ASSUME Known, Known', NEW t \in Threads, Call(t)
    PROVE  M!MNext \/ UNCHANGED <<Owners, Queues, Returning>>
<1>0. LockInv
  BY DEF Known
<1>1. ASSUME NEW l \in Locks, LockTryAcquire(t, l) PROVE M!MNext
  BY <1>1, TryAcquires DEF M!MNext
<1>2. ASSUME NEW c \in Conds, CondSignal(t, c) PROVE M!MNext
  <2>1. CallInvOf(t) /\ pc[t] = "run" /\ CondLock[c] \in held[t]
    BY <1>0, <1>2 DEF LockInv, CallInv, CondSignal, Calling, At
  <2>2. op[t] # "wait"
    BY <2>1 DEF CallInvOf
  <2>3. SignalPops(t, c) /\ OthersSame(t) /\ op'[t] # "wait"
    BY <1>0, <1>2 DEF CondSignal, SignalPops, LockInv, TypeOK, OthersSame, Same, lockVars
  <2>4. M!Signal(t, c)
    BY <2>1, <2>2, <2>3, Signals
  <2> QED
    BY <2>4 DEF M!MNext
<1>3. ASSUME NEW c \in Conds, CondWait(t, c) PROVE UNCHANGED <<Owners, Queues, Returning>>
  BY <1>3, CondWaitUnseen
<1>4. ASSUME Unseen(t) PROVE UNCHANGED <<Owners, Queues, Returning>>
  BY <1>4, Stutters
<1> QED
  BY <1>0, <1>1, <1>2, <1>3, <1>4, CallsUnseen DEF Call

\* A step of the kernel is a step of the monitor or means nothing to it.
LEMMA StepImplements ==
    ASSUME Known, Known', [Next]_vars
    PROVE  [M!MNext]_(M!mvars)
<1> SUFFICES M!MNext \/ UNCHANGED <<Owners, Queues, Returning>>
  BY DEF M!mvars
<1>0. LockInv
  BY DEF Known
<1>1. CASE IdleLoop
  <2>1. Idle \in Threads
    BY ThreadsAssumption
  <2>2. /\ OthersSame(Idle) /\ cond_waiters' = cond_waiters /\ sema'[Idle] = sema[Idle]
        /\ op'[Idle] = op[Idle] /\ obj'[Idle] = obj[Idle] /\ held'[Idle] = held[Idle]
        /\ pc[Idle] \in IdlePCs /\ pc'[Idle] \in IdlePCs
    BY <1>0, <1>1, <2>1 DEF IdleLoop, IdleStart, IdleUp, IdleBlock, At, OthersSame, Same,
       LockInv, TypeOK, lockVars, IdlePCs
  <2> QED
    BY <2>1, <2>2, IdleUnseen, Stutters
<1>2. ASSUME InterruptsOn, pc' = Interrupted, UNCHANGED <<lockVars, cond_waiters, sema, op, obj>>
      PROVE  UNCHANGED <<Owners, Queues, Returning>>
  <2>1. PICK t \in Threads : t = current
    BY <1>0, <1>2 DEF InterruptsOn, LockInv, TypeOK, SchedulerTypeOK
  <2>2. /\ \A x \in Threads : x # t => pc'[x] = pc[x]
        /\ pc'[t] = pc[t] \/ (pc[t] \in IdlePCs /\ pc'[t] \in IdlePCs)
    BY <1>0, <1>2, <2>1 DEF Interrupted, LockInv, TypeOK, IdlePCs
  <2>3. OthersSame(t) /\ held'[t] = held[t]
    BY <1>2, <2>2 DEF OthersSame, Same, lockVars
  <2> QED
    BY <1>2, <2>2, <2>3, IdleUnseen, Stutters
<1>3. CASE Tick
  BY <1>2, <1>3 DEF Tick
<1>4. ASSUME NEW s \in IntrSemas, DeviceInterrupt(s) PROVE UNCHANGED <<Owners, Queues, Returning>>
  BY <1>2, <1>4 DEF DeviceInterrupt
<1>5. CASE UNCHANGED vars
  <2>1. Unseen(Main) /\ Main \in Threads
    BY <1>5, ThreadsAssumption DEF vars, Unseen, OthersSame, Same, Leaving, Owns, WokenOn
  <2> QED
    BY <2>1, Stutters
<1> QED
  BY <1>1, <1>3, <1>4, <1>5, ContinueImplements, CallImplements DEF Next

\* At first no lock is owned and nobody waits.
LEMMA InitImplements == Init => M!MInit
<1> SUFFICES ASSUME Init PROVE M!MInit
  OBVIOUS
<1>1. \A l \in Locks : OwnerOf(l) = NULL
  <2>1. \A l \in Locks, t \in Threads : ~ Owns(t, l)
    BY DEF Init, Owns
  <2> QED
    BY <2>1, LockInvInit, OwnerIs DEF OwnersKnown
<1>2. \A c \in Conds : Waiting(c) = <<>>
  BY DEF Init, Waiting
<1>3. \A t \in Threads : WokenOn(t) = NULL
  BY DEF Init, WokenOn
<1> QED
  BY <1>1, <1>2, <1>3 DEF M!MInit, Owners, Queues, Returning

\* synch.c implements the abstract monitor, for any number of threads, locks and
\* conditions: whatever is preempted or interrupted, a lock has one owner, cond_wait()
\* gives back the lock and joins the queue in one step, a signal passes to the thread that
\* has waited longest, and a waiter comes back only after a signal and with the lock.
THEOREM MonitorImplemented == Spec => ImplementsMonitor
<1>1. Spec => []CondInv
  <2>1. SchedulerInv /\ SignalInv /\ CondInv /\ [Next]_vars => CondInv'
    BY CondInvNext
  <2> QED
    BY <2>1, CondInvInit, SchedulerInvariant, SignalInvariant, PTL DEF Spec
<1>2. Spec => []Known
  <2>1. LockInv /\ SignalInv /\ CondInv => Known
    BY DEF Known
  <2> QED
    BY <1>1, <2>1, LockInvariant, SignalInvariant, PTL
<1>3. Known /\ Known' /\ [Next]_vars => [M!MNext]_(M!mvars)
  BY StepImplements
<1> QED
  BY <1>2, <1>3, InitImplements, PTL DEF Spec, ImplementsMonitor, M!MSpec

-----------------------------------------------------------------------------
(* Interrupt dispatch.                                                     *)

FrameRecords == [kind : {"external", "handled", "yield", "internal"}, vec : Int, flag : BOOLEAN]
Gates == [type : {"interrupt", "trap"}, dpl : {0, 3}]
Vectors == Lines \union {13, 14, 39, 47, 48}
CpuRecords ==
    [flag : BOOLEAN, current : KThreads, in_external_intr : BOOLEAN, yield_on_return : BOOLEAN,
     frames : [KThreads -> Seq(FrameRecords)], idt : [Vectors -> Gates], handlers : SUBSET Int,
     pending : SUBSET Lines, master : SUBSET Int, slave : SUBSET Int, unexpected_cnt : Nat,
     raises : Nat, failed : BOOLEAN]

\* Only exceptions and the system call have trap gates.
GatesInv(s) == \A v \in Vectors : v \in 32 .. 47 => s.idt[v].type = "interrupt"
\* What is in service is the line of the running thread's last frame.
LineServed(s, vec) ==
    /\ s.master \subseteq {MasterLine(vec)} /\ s.slave \subseteq {SlaveLine(vec)}
    /\ vec < 40 => s.slave = {}
ServiceInv(s) ==
    /\ s.in_external_intr =>
          LET last == s.frames[s.current][Len(s.frames[s.current])] IN
          /\ ~ s.flag /\ s.frames[s.current] # << >>
          /\ last.kind \in {"external", "handled"} /\ LineServed(s, last.vec)
    /\ ~ s.in_external_intr => s.master = {} /\ s.slave = {}
\* A thread that is not running ends in its thread_yield(); a handler that has not run is
\* the last of the running thread.
YieldInv(s) ==
    \A t \in KThreads :
        /\ t # s.current => Len(s.frames[t]) > 0
        /\ \A i \in 1 .. Len(s.frames[t]) :
              /\ (s.frames[t][i].kind = "yield") <=> (t # s.current /\ i = Len(s.frames[t]))
              /\ s.frames[t][i].kind = "external" =>
                    s.in_external_intr /\ t = s.current /\ i = Len(s.frames[t])
CpuInv(s) == s \in CpuRecords /\ ~ s.failed /\ GatesInv(s) /\ ServiceInv(s) /\ YieldInv(s)

\* The invariant has the property.
LEMMA CpuInvExact == CpuInv(cpu) => InterruptsExact
<1> SUFFICES ASSUME CpuInv(cpu) PROVE InterruptsExact
  OBVIOUS
<1>1. cpu \in CpuRecords /\ ~ cpu.failed /\ ServiceInv(cpu) /\ YieldInv(cpu)
  BY DEF CpuInv
<1>2. cpu.in_external_intr => ~ cpu.flag /\ InHandler(cpu.current)
  BY <1>1 DEF ServiceInv, InHandler, Top
<1>3. ~ cpu.in_external_intr => cpu.master = {} /\ cpu.slave = {}
  BY <1>1 DEF ServiceInv
<1>4. \A t \in KThreads : DOMAIN cpu.frames[t] = 1 .. Len(cpu.frames[t])
  BY <1>1 DEF CpuRecords
<1>5. \A t \in KThreads : \A i \in DOMAIN cpu.frames[t] :
          (cpu.frames[t][i].kind = "yield") <=> (t # cpu.current /\ i = Len(cpu.frames[t]))
  BY <1>1, <1>4 DEF YieldInv
<1> QED
  BY <1>1, <1>2, <1>3, <1>5 DEF InterruptsExact

\* A frame on top of a stack, and one taken off.
LEMMA Pushed ==
    ASSUME NEW s \in Seq(FrameRecords), NEW x \in FrameRecords
    PROVE  /\ Append(s, x) \in Seq(FrameRecords) /\ Len(Append(s, x)) = Len(s) + 1
           /\ Append(s, x)[Len(s) + 1] = x
           /\ \A i \in 1 .. Len(s) : Append(s, x)[i] = s[i]
OBVIOUS

LEMMA Popped ==
    ASSUME NEW s \in Seq(FrameRecords), Len(s) > 0
    PROVE  /\ Pop(s) \in Seq(FrameRecords) /\ Len(Pop(s)) = Len(s) - 1
           /\ \A i \in 1 .. Len(s) - 1 : Pop(s)[i] = s[i]
<1>1. Pop(s) = [i \in 1 .. Len(s) - 1 |-> s[i]]
  BY DEF Pop
<1> QED
  BY <1>1

\* A device raises a line: nothing else changes.
LEMMA RaiseKeeps ==
    ASSUME CpuInv(cpu), NEW v \in Lines, Raise(v)
    PROVE  CpuInv(cpu')
<1>1. cpu \in CpuRecords
  BY DEF CpuInv
<1>2. cpu' \in CpuRecords
  <2>1. PICK p, r : p \subseteq Lines /\ r \in Nat /\ cpu' = [cpu EXCEPT !.pending = p, !.raises = r]
    <3>1. cpu.pending \union {v} \subseteq Lines /\ cpu.raises + 1 \in Nat
      BY <1>1 DEF CpuRecords
    <3> QED
      BY <3>1, Zenon DEF Raise
  <2> QED
    BY <1>1, <2>1 DEF CpuRecords
<1>3. /\ cpu'.frames = cpu.frames /\ cpu'.current = cpu.current /\ cpu'.flag = cpu.flag
      /\ cpu'.in_external_intr = cpu.in_external_intr /\ cpu'.master = cpu.master
      /\ cpu'.slave = cpu.slave /\ cpu'.idt = cpu.idt /\ cpu'.failed = cpu.failed
  BY <1>1 DEF Raise, CpuRecords
<1> QED
  BY <1>2, <1>3 DEF CpuInv, GatesInv, ServiceInv, LineServed, YieldInv

\* An interrupt comes while none is served: its frame is on the running thread's stack,
\* and interrupts are off.
LEMMA IntrTaken ==
    ASSUME NEW s \in CpuRecords, ~ s.failed, GatesInv(s), YieldInv(s), s.flag, ~ s.in_external_intr,
           NEW v \in Vectors, v \in 32 .. 47, LineServed(s, v)
    PROVE  CpuInv(Begin(Enter(s, v)))
<1>0. PICK new : new = Begin(Enter(s, v))
  OBVIOUS
<1>1. PICK x \in FrameRecords : x = [kind |-> "external", vec |-> v, flag |-> s.flag]
  <2>1. s.flag \in BOOLEAN /\ v \in Int
    BY DEF CpuRecords
  <2>2. [kind |-> "external", vec |-> v, flag |-> s.flag] \in FrameRecords
    BY <2>1 DEF FrameRecords
  <2> QED
    BY <2>2
<1>2. PICK f : f = [s.frames EXCEPT ![s.current] = Append(@, x)]
  OBVIOUS
<1>3. s.current \in KThreads /\ s.frames \in [KThreads -> Seq(FrameRecords)]
  BY DEF CpuRecords
<1>4. f \in [KThreads -> Seq(FrameRecords)]
  BY <1>1, <1>2, <1>3, Pushed
<1>5. /\ Len(f[s.current]) = Len(s.frames[s.current]) + 1 /\ f[s.current][Len(s.frames[s.current]) + 1] = x
      /\ \A i \in 1 .. Len(s.frames[s.current]) : f[s.current][i] = s.frames[s.current][i]
      /\ \A t \in KThreads \ {s.current} : f[t] = s.frames[t]
  BY <1>1, <1>2, <1>3, Pushed
<1>6. Enter(s, v) = [s EXCEPT !.frames = f, !.flag = FALSE]
  <2>1. s.idt[v].type = "interrupt"
    BY DEF GatesInv
  <2>2. (s.flag /\ s.idt[v].type = "trap") = FALSE
    BY <2>1
  <2>3. Enter(s, v) = [s EXCEPT !.frames = [s.frames EXCEPT ![s.current] = Append(@, x)],
                                !.flag = (s.flag /\ s.idt[v].type = "trap")]
    BY <1>1 DEF Enter
  <2> QED
    BY <1>2, <2>2, <2>3, Zenon
<1>7. new = [s EXCEPT !.frames = f, !.flag = FALSE, !.in_external_intr = TRUE, !.yield_on_return = FALSE]
  <2>1. PICK e : e = [s EXCEPT !.frames = f, !.flag = FALSE]
    OBVIOUS
  <2>2. ~ e.flag /\ ~ e.in_external_intr
    BY <2>1 DEF CpuRecords
  <2>3. Begin(e) = [e EXCEPT !.in_external_intr = TRUE, !.yield_on_return = FALSE]
    BY <2>2 DEF Begin
  <2> QED
    BY <1>0, <1>6, <2>1, <2>3, Zenon
<1>8. new \in CpuRecords
  BY <1>4, <1>7 DEF CpuRecords
<1>9. /\ new.frames = f /\ ~ new.flag /\ new.in_external_intr /\ new.current = s.current
      /\ new.master = s.master /\ new.slave = s.slave /\ new.idt = s.idt /\ ~ new.failed
  BY <1>7 DEF CpuRecords
<1>10. GatesInv(new)
  BY <1>9 DEF GatesInv
<1>11. ServiceInv(new)
  <2>1. new.frames[new.current][Len(new.frames[new.current])] = x /\ new.frames[new.current] # << >>
    BY <1>3, <1>4, <1>5, <1>9
  <2>2. LineServed(new, v)
    BY <1>9 DEF LineServed
  <2>3. x.kind \in {"external", "handled"} /\ x.vec = v
    BY <1>1
  <2> QED
    BY <1>9, <2>1, <2>2, <2>3 DEF ServiceInv
<1>12. YieldInv(new)
  <2> SUFFICES ASSUME NEW t \in KThreads
               PROVE  /\ t # s.current => Len(f[t]) > 0
                      /\ \A i \in 1 .. Len(f[t]) :
                            /\ (f[t][i].kind = "yield") <=> (t # s.current /\ i = Len(f[t]))
                            /\ f[t][i].kind = "external" => t = s.current /\ i = Len(f[t])
    BY <1>9 DEF YieldInv
  <2>1. CASE t = s.current
    <3>1. ASSUME NEW i \in 1 .. Len(f[t])
          PROVE  f[t][i].kind # "yield" /\ (f[t][i].kind = "external" => i = Len(f[t]))
      <4>1. CASE i = Len(s.frames[t]) + 1
        BY <1>1, <1>3, <1>5, <2>1, <4>1
      <4>2. CASE i \in 1 .. Len(s.frames[t])
        BY <1>3, <1>5, <2>1, <4>2 DEF YieldInv
      <4> QED
        BY <1>3, <1>5, <2>1, <3>1, <4>1, <4>2
    <3> QED
      BY <2>1, <3>1
  <2>2. CASE t # s.current
    BY <1>5, <2>2 DEF YieldInv
  <2> QED
    BY <2>1, <2>2
<1>13. CpuInv(new)
  BY <1>8, <1>9, <1>10, <1>11, <1>12 DEF CpuInv
<1> QED
  BY <1>0, <1>13

\* thread_yield(): the running thread ends in a yield, and the chosen one, itself perhaps,
\* comes out of its own with the interrupt flag it had there.
LEMMA YieldTaken ==
    ASSUME NEW s \in CpuRecords, ~ s.failed, GatesInv(s), YieldInv(s), ~ s.in_external_intr,
           s.master = {}, s.slave = {}, NEW u \in KThreads
    PROVE  CpuInv(thread_yield(s, u))
<1>0. PICK new : new = thread_yield(s, u)
  OBVIOUS
<1>1. PICK x \in FrameRecords : x = [kind |-> "yield", vec |-> 0, flag |-> s.flag]
  <2>1. s.flag \in BOOLEAN
    BY DEF CpuRecords
  <2>2. [kind |-> "yield", vec |-> 0, flag |-> s.flag] \in FrameRecords
    BY <2>1 DEF FrameRecords
  <2> QED
    BY <2>2
<1>2. PICK f : f = [s.frames EXCEPT ![s.current] = Append(@, x)]
  OBVIOUS
<1>3. s.current \in KThreads /\ s.frames \in [KThreads -> Seq(FrameRecords)]
  BY DEF CpuRecords
<1>4. f \in [KThreads -> Seq(FrameRecords)]
  BY <1>1, <1>2, <1>3, Pushed
<1>5. /\ Len(f[s.current]) = Len(s.frames[s.current]) + 1 /\ f[s.current][Len(s.frames[s.current]) + 1] = x
      /\ \A i \in 1 .. Len(s.frames[s.current]) : f[s.current][i] = s.frames[s.current][i]
      /\ \A t \in KThreads \ {s.current} : f[t] = s.frames[t]
  BY <1>1, <1>2, <1>3, Pushed
\* With the yield of the running thread, each ends in one.
<1>6. ASSUME NEW t \in KThreads
      PROVE  /\ Len(f[t]) > 0
             /\ \A i \in 1 .. Len(f[t]) : /\ (f[t][i].kind = "yield") <=> (i = Len(f[t]))
                                         /\ f[t][i].kind # "external"
  <2>1. CASE t = s.current
    <3>1. ASSUME NEW i \in 1 .. Len(f[t])
          PROVE  ((f[t][i].kind = "yield") <=> (i = Len(f[t]))) /\ f[t][i].kind # "external"
      <4>1. CASE i = Len(s.frames[t]) + 1
        BY <1>1, <1>3, <1>5, <2>1, <4>1
      <4>2. CASE i \in 1 .. Len(s.frames[t])
        BY <1>3, <1>5, <2>1, <4>2, SMTT(20) DEF YieldInv
      <4> QED
        BY <1>3, <1>5, <2>1, <3>1, <4>1, <4>2
    <3>2. Len(f[t]) > 0
      BY <1>3, <1>5, <2>1
    <3> QED
      BY <3>1, <3>2
  <2>2. CASE t # s.current
    BY <1>5, <2>2 DEF YieldInv
  <2> QED
    BY <2>1, <2>2
<1>7. PICK g : g = [f EXCEPT ![u] = Pop(@)]
  OBVIOUS
<1>8. /\ g \in [KThreads -> Seq(FrameRecords)] /\ Len(g[u]) = Len(f[u]) - 1
      /\ \A i \in 1 .. Len(g[u]) : g[u][i] = f[u][i]
      /\ \A t \in KThreads \ {u} : g[t] = f[t]
  BY <1>4, <1>6, <1>7, Popped, ZenonT(40)
<1>9. PICK on \in BOOLEAN : on = f[u][Len(f[u])].flag
  <2>1. f[u][Len(f[u])] \in FrameRecords
    BY <1>4, <1>6
  <2> QED
    BY <2>1 DEF FrameRecords
<1>10. new = [s EXCEPT !.frames = g, !.current = u, !.flag = on]
  <2>1. PICK r : r = [s EXCEPT !.frames = g, !.current = u]
    OBVIOUS
  <2>2. ~ r.in_external_intr
    BY <2>1 DEF CpuRecords
  <2>3. new = intr_set_level(r, on)
    BY <1>0, <1>1, <1>2, <1>7, <1>9, <2>1, Zenon DEF thread_yield
  <2>4. intr_set_level(r, on) = [r EXCEPT !.flag = on]
    <3>1. CASE on
      BY <2>2, <3>1 DEF intr_set_level, intr_enable
    <3>2. CASE ~ on
      BY <3>2 DEF intr_set_level, intr_disable
    <3> QED
      BY <3>1, <3>2
  <2> QED
    BY <2>1, <2>3, <2>4, Zenon
<1>11. new \in CpuRecords
  BY <1>8, <1>10 DEF CpuRecords
<1>12. /\ new.frames = g /\ ~ new.in_external_intr /\ new.current = u
       /\ new.master = {} /\ new.slave = {} /\ new.idt = s.idt /\ ~ new.failed
  BY <1>10 DEF CpuRecords
<1>13. GatesInv(new) /\ ServiceInv(new)
  BY <1>12 DEF GatesInv, ServiceInv
<1>14. YieldInv(new)
  <2>1. ASSUME NEW t \in KThreads
        PROVE  /\ t # u => Len(g[t]) > 0
               /\ \A i \in 1 .. Len(g[t]) :
                     /\ (g[t][i].kind = "yield") <=> (t # u /\ i = Len(g[t]))
                     /\ g[t][i].kind # "external"
    <3>1. CASE t = u
      BY <1>4, <1>6, <1>8, <3>1
    <3>2. CASE t # u
      BY <1>6, <1>8, <3>2
    <3> QED
      BY <3>1, <3>2
  <2> QED
    BY <1>12, <2>1 DEF YieldInv
<1>15. CpuInv(new)
  BY <1>11, <1>12, <1>13, <1>14 DEF CpuInv
<1> QED
  BY <1>0, <1>15

\* A line is delivered: interrupts are on, so that none was in service.
LEMMA ExternalKeeps ==
    ASSUME InterruptsAssumption, CpuInv(cpu), NEW v \in Lines, External(v)
    PROVE  CpuInv(cpu')
<1>1. cpu \in CpuRecords /\ ~ cpu.failed /\ GatesInv(cpu) /\ YieldInv(cpu) /\ cpu.flag
  BY DEF CpuInv, External
<1>2. ~ cpu.in_external_intr /\ cpu.master = {} /\ cpu.slave = {}
  BY <1>1 DEF CpuInv, ServiceInv
<1>3. v \in Vectors /\ v \in 32 .. 47
  BY DEF InterruptsAssumption, Vectors
<1>4. PICK p, m, l : /\ p = cpu.pending \ {v} /\ m = cpu.master \union {MasterLine(v)}
                     /\ l = IF v >= 40 THEN cpu.slave \union {SlaveLine(v)} ELSE cpu.slave
  OBVIOUS
<1>5. /\ p \in SUBSET Lines /\ m \in SUBSET Int /\ l \in SUBSET Int
      /\ m \subseteq {MasterLine(v)} /\ l \subseteq {SlaveLine(v)} /\ (v < 40 => l = {})
  <2>1. MasterLine(v) \in Int /\ SlaveLine(v) \in Int
    BY <1>3 DEF MasterLine, SlaveLine
  <2>2. m \subseteq {MasterLine(v)} /\ l \subseteq {SlaveLine(v)}
    BY <1>2, <1>4
  <2>3. v < 40 => l = {}
    BY <1>2, <1>3, <1>4
  <2>4. p \in SUBSET Lines
    BY <1>1, <1>4 DEF CpuRecords
  <2> QED
    BY <2>1, <2>2, <2>3, <2>4
<1>6. PICK s : s = [cpu EXCEPT !.pending = p, !.master = m, !.slave = l]
  OBVIOUS
<1>7. cpu' = Begin(Enter(s, v))
  BY <1>4, <1>6, Zenon DEF External
<1>8. s \in CpuRecords
  BY <1>1, <1>5, <1>6 DEF CpuRecords
<1>9. /\ s.frames = cpu.frames /\ s.current = cpu.current /\ s.flag /\ ~ s.in_external_intr
      /\ s.master = m /\ s.slave = l /\ s.idt = cpu.idt /\ ~ s.failed
  BY <1>1, <1>2, <1>6 DEF CpuRecords
<1>10. GatesInv(s) /\ YieldInv(s)
  BY <1>1, <1>2, <1>9 DEF GatesInv, YieldInv
<1>11. LineServed(s, v)
  BY <1>5, <1>9 DEF LineServed
<1> QED
  BY <1>3, <1>7, <1>8, <1>9, <1>10, <1>11, IntrTaken

\* A spurious interrupt puts nothing in service but the line of the slave.
LEMMA SpuriousKeeps ==
    ASSUME CpuInv(cpu), NEW v \in {39, 47}, SpuriousLine(v)
    PROVE  CpuInv(cpu')
<1>1. cpu \in CpuRecords /\ ~ cpu.failed /\ GatesInv(cpu) /\ YieldInv(cpu) /\ cpu.flag
  BY DEF CpuInv, SpuriousLine
<1>2. ~ cpu.in_external_intr /\ cpu.master = {} /\ cpu.slave = {}
  BY <1>1 DEF CpuInv, ServiceInv
<1>3. v \in Vectors /\ v \in 32 .. 47
  BY DEF Vectors
<1>4. PICK n, m : n = cpu.raises + 1 /\ m = IF v = 47 THEN cpu.master \union {2} ELSE cpu.master
  OBVIOUS
<1>5. n \in Nat /\ m \in SUBSET Int /\ m \subseteq {MasterLine(v)}
  <2>1. m \in SUBSET Int /\ (m # {} => v = 47 /\ m = {2})
    BY <1>2, <1>4
  <2>2. v = 47 => MasterLine(v) = 2
    BY DEF MasterLine
  <2>3. n \in Nat
    BY <1>1, <1>4 DEF CpuRecords
  <2> QED
    BY <2>1, <2>2, <2>3
<1>6. PICK s : s = [cpu EXCEPT !.raises = n, !.master = m]
  OBVIOUS
<1>7. cpu' = Begin(Enter(s, v))
  BY <1>4, <1>6, Zenon DEF SpuriousLine
<1>8. s \in CpuRecords
  BY <1>1, <1>5, <1>6 DEF CpuRecords
<1>9. /\ s.frames = cpu.frames /\ s.current = cpu.current /\ s.flag /\ ~ s.in_external_intr
      /\ s.master = m /\ s.slave = {} /\ s.idt = cpu.idt /\ ~ s.failed
  BY <1>1, <1>2, <1>6 DEF CpuRecords
<1>10. GatesInv(s) /\ YieldInv(s)
  BY <1>1, <1>2, <1>9 DEF GatesInv, YieldInv
<1>11. LineServed(s, v)
  BY <1>5, <1>9 DEF LineServed
<1> QED
  BY <1>3, <1>7, <1>8, <1>9, <1>10, <1>11, IntrTaken

\* The handler runs, or none does: its frame stays, and is in service.
LEMMA HandlerKeeps ==
    ASSUME CpuInv(cpu), NEW t \in KThreads, Handler(t)
    PROVE  CpuInv(cpu')
<1>1. /\ cpu \in CpuRecords /\ ~ cpu.failed /\ GatesInv(cpu) /\ YieldInv(cpu) /\ ServiceInv(cpu)
      /\ cpu.current = t /\ cpu.frames[t] # << >> /\ Top(t).kind = "external"
  BY DEF CpuInv, Handler, Running, InHandler
<1>2. cpu.frames \in [KThreads -> Seq(FrameRecords)]
  BY <1>1 DEF CpuRecords
<1>3. PICK n \in Nat : n = Len(cpu.frames[t])
  BY <1>2
<1>4. n > 0 /\ n \in 1 .. Len(cpu.frames[t]) /\ cpu.frames[t][n].kind = "external"
  BY <1>1, <1>2, <1>3 DEF Top
<1>5. cpu.in_external_intr
  BY <1>1, <1>4 DEF YieldInv
<1>6. PICK f : f = [cpu.frames EXCEPT ![t][n].kind = "handled"]
  OBVIOUS
<1>7. /\ f \in [KThreads -> Seq(FrameRecords)] /\ Len(f[t]) = n /\ f[t][n].kind = "handled"
      /\ f[t][n].vec = cpu.frames[t][n].vec
      /\ \A i \in 1 .. n - 1 : f[t][i] = cpu.frames[t][i]
      /\ \A u \in KThreads \ {t} : f[u] = cpu.frames[u]
  <2>1. PICK x : x = [cpu.frames[t][n] EXCEPT !.kind = "handled"]
    OBVIOUS
  <2>2. x \in FrameRecords /\ x.kind = "handled" /\ x.vec = cpu.frames[t][n].vec
    <3>1. cpu.frames[t][n] \in FrameRecords
      BY <1>2, <1>4
    <3> QED
      BY <2>1, <3>1 DEF FrameRecords
  <2>3. PICK q : q = [cpu.frames[t] EXCEPT ![n] = x]
    OBVIOUS
  <2>4. /\ q \in Seq(FrameRecords) /\ Len(q) = n /\ q[n] = x
        /\ \A i \in 1 .. n - 1 : q[i] = cpu.frames[t][i]
    BY <1>2, <1>3, <1>4, <2>2, <2>3
  <2>5. f = [cpu.frames EXCEPT ![t] = q]
    BY <1>6, <2>1, <2>3, Zenon
  <2> QED
    BY <1>2, <2>2, <2>4, <2>5
<1>8. PICK y \in BOOLEAN, k \in Nat : cpu' = [cpu EXCEPT !.frames = f, !.yield_on_return = y, !.unexpected_cnt = k]
  <2>1. PICK r : r = [cpu EXCEPT !.frames = f]
    OBVIOUS
  <2>2. /\ r = [cpu EXCEPT !.frames = f, !.yield_on_return = cpu.yield_on_return, !.unexpected_cnt = cpu.unexpected_cnt]
        /\ r.in_external_intr /\ r.unexpected_cnt = cpu.unexpected_cnt
    BY <1>1, <1>5, <2>1 DEF CpuRecords
  <2>3. intr_yield_on_return(r) = [cpu EXCEPT !.frames = f, !.yield_on_return = TRUE, !.unexpected_cnt = cpu.unexpected_cnt]
    <3>1. intr_yield_on_return(r) = [r EXCEPT !.yield_on_return = TRUE]
      BY <2>2 DEF intr_yield_on_return
    <3> QED
      BY <1>1, <2>1, <3>1 DEF CpuRecords
  <2>4. unexpected_interrupt(r) =
            [cpu EXCEPT !.frames = f, !.yield_on_return = cpu.yield_on_return, !.unexpected_cnt = cpu.unexpected_cnt + 1]
    <3>1. unexpected_interrupt(r) = [r EXCEPT !.unexpected_cnt = cpu.unexpected_cnt + 1]
      BY <2>2 DEF unexpected_interrupt
    <3> QED
      BY <1>1, <2>1, <3>1 DEF CpuRecords
  <2>5. cpu' = r \/ cpu' = intr_yield_on_return(r) \/ cpu' = unexpected_interrupt(r)
    BY <1>3, <1>6, <2>1, Zenon DEF Handler
  <2>6. cpu.yield_on_return \in BOOLEAN /\ cpu.unexpected_cnt \in Nat /\ cpu.unexpected_cnt + 1 \in Nat
    BY <1>1 DEF CpuRecords
  <2> QED
    BY <2>2, <2>3, <2>4, <2>5, <2>6, Zenon
<1>9. cpu' \in CpuRecords
  BY <1>1, <1>7, <1>8 DEF CpuRecords
<1>10. /\ cpu'.frames = f /\ cpu'.current = t /\ cpu'.flag = cpu.flag /\ cpu'.in_external_intr
       /\ cpu'.master = cpu.master /\ cpu'.slave = cpu.slave /\ cpu'.idt = cpu.idt /\ ~ cpu'.failed
  BY <1>1, <1>5, <1>8 DEF CpuRecords
<1>11. GatesInv(cpu')
  BY <1>1, <1>10 DEF GatesInv
<1>12. ServiceInv(cpu')
  <2>1. ~ cpu.flag /\ LineServed(cpu, cpu.frames[t][n].vec)
    BY <1>1, <1>3, <1>5 DEF ServiceInv
  <2>2. LineServed(cpu', f[t][n].vec)
    BY <1>7, <1>10, <2>1 DEF LineServed
  <2>3. f[t] # << >>
    BY <1>4, <1>7
  <2> QED
    BY <1>7, <1>10, <2>1, <2>2, <2>3 DEF ServiceInv
<1>13. YieldInv(cpu')
  <2>1. ASSUME NEW u \in KThreads
        PROVE  /\ u # t => Len(f[u]) > 0
               /\ \A i \in 1 .. Len(f[u]) :
                     /\ (f[u][i].kind = "yield") <=> (u # t /\ i = Len(f[u]))
                     /\ f[u][i].kind # "external"
    <3>1. CASE u # t
      BY <1>1, <1>7, <3>1 DEF YieldInv
    <3>2. ASSUME u = t, NEW i \in 1 .. n
          PROVE  f[t][i].kind # "yield" /\ f[t][i].kind # "external"
      <4>1. CASE i = n
        BY <1>7, <4>1
      <4>2. CASE i \in 1 .. n - 1
        BY <1>1, <1>3, <1>7, <4>2 DEF YieldInv
      <4> QED
        BY <4>1, <4>2
    <3> QED
      BY <1>7, <3>1, <3>2
  <2> QED
    BY <1>10, <2>1 DEF YieldInv
<1> QED
  BY <1>9, <1>10, <1>11, <1>12, <1>13 DEF CpuInv

\* Every line of a controller with at most one in service is free after the command.
LEMMA LastFirst ==
    ASSUME NEW x, NEW S, S \subseteq {x}, x \in Int
    PROVE  WithoutFirst(S) = {}
<1>1. \A k, l \in S : ~ (k < l)
  <2>1. \A k, l \in S : k = x /\ l = x
    OBVIOUS
  <2>2. ~ (x < x)
    OBVIOUS
  <2> QED
    BY <2>1, <2>2
<1> QED
  BY <1>1 DEF WithoutFirst

\* The end of intr_handler(): nothing is in service when another thread may run.
LEMMA FinishKeeps ==
    ASSUME CpuInv(cpu), NEW t \in KThreads, Finish(t)
    PROVE  CpuInv(cpu')
<1>1. /\ cpu \in CpuRecords /\ ~ cpu.failed /\ GatesInv(cpu) /\ YieldInv(cpu) /\ ServiceInv(cpu)
      /\ cpu.current = t /\ cpu.frames[t] # << >> /\ Top(t).kind = "handled" /\ cpu.in_external_intr
  BY DEF CpuInv, Finish, Running
<1>2. cpu.frames \in [KThreads -> Seq(FrameRecords)]
  BY <1>1 DEF CpuRecords
<1>3. PICK vec \in Int : vec = Top(t).vec
  <2>1. Top(t) \in FrameRecords
    BY <1>1, <1>2 DEF Top
  <2> QED
    BY <2>1 DEF FrameRecords
<1>4. ~ cpu.flag /\ LineServed(cpu, vec)
  BY <1>1, <1>3 DEF ServiceInv, Top
<1>5. WithoutFirst(cpu.master) = {} /\ (IF vec >= 40 THEN WithoutFirst(cpu.slave) ELSE cpu.slave) = {}
  <2>1. MasterLine(vec) \in Int /\ SlaveLine(vec) \in Int
    BY DEF MasterLine, SlaveLine
  <2>2. WithoutFirst(cpu.master) = {} /\ WithoutFirst(cpu.slave) = {}
    BY <1>4, <2>1, LastFirst DEF LineServed
  <2>3. CASE vec >= 40
    BY <2>2, <2>3
  <2>4. CASE vec < 40
    BY <1>4, <2>2, <2>4 DEF LineServed
  <2> QED
    BY <2>3, <2>4
<1>6. PICK s : s = [cpu EXCEPT !.in_external_intr = FALSE, !.master = {}, !.slave = {}]
  OBVIOUS
<1>7. pic_end_of_interrupt([cpu EXCEPT !.in_external_intr = FALSE], vec) = s
  <2>1. PICK r : r = [cpu EXCEPT !.in_external_intr = FALSE]
    OBVIOUS
  <2>2. r.master = cpu.master /\ r.slave = cpu.slave
    BY <1>1, <2>1 DEF CpuRecords
  <2>3. pic_end_of_interrupt(r, vec) = [r EXCEPT !.master = WithoutFirst(r.master),
                                                  !.slave = IF vec >= 40 THEN WithoutFirst(r.slave) ELSE r.slave]
    BY DEF pic_end_of_interrupt
  <2>4. pic_end_of_interrupt(r, vec) = [r EXCEPT !.master = {}, !.slave = {}]
    BY <1>5, <2>2, <2>3, Zenon
  <2> QED
    BY <1>6, <2>1, <2>4, Zenon
<1>8. s \in CpuRecords
  BY <1>1, <1>6 DEF CpuRecords
<1>9. /\ s.frames = cpu.frames /\ s.current = t /\ ~ s.in_external_intr /\ s.master = {} /\ s.slave = {}
      /\ s.idt = cpu.idt /\ ~ s.failed
  BY <1>1, <1>6 DEF CpuRecords
<1>10. GatesInv(s) /\ ServiceInv(s)
  BY <1>1, <1>9 DEF GatesInv, ServiceInv
<1>11. YieldInv(s)
  <2>1. \A u \in KThreads : \A i \in 1 .. Len(cpu.frames[u]) : cpu.frames[u][i].kind # "external"
    BY <1>1 DEF YieldInv, Top
  <2> QED
    BY <1>1, <1>9, <2>1 DEF YieldInv
<1>12. CASE cpu.yield_on_return
  <2>1. PICK u \in KThreads : cpu' = thread_yield(s, u)
    BY <1>3, <1>4, <1>7, <1>12, Zenon DEF Finish
  <2> QED
    BY <1>8, <1>9, <1>10, <1>11, <2>1, YieldTaken
<1>13. CASE ~ cpu.yield_on_return
  <2>1. cpu' = s
    BY <1>3, <1>4, <1>7, <1>13, Zenon DEF Finish
  <2> QED
    BY <1>8, <1>9, <1>10, <1>11, <2>1 DEF CpuInv
<1> QED
  BY <1>12, <1>13

\* A return takes off the last frame, of nothing that is in service.
LEMMA ReturnKeeps ==
    ASSUME CpuInv(cpu), NEW t \in KThreads, Return(t)
    PROVE  CpuInv(cpu')
<1>1. /\ cpu \in CpuRecords /\ ~ cpu.failed /\ GatesInv(cpu) /\ YieldInv(cpu) /\ ServiceInv(cpu)
      /\ cpu.current = t /\ cpu.frames[t] # << >> /\ ~ cpu.in_external_intr
  BY DEF CpuInv, Return, Running
<1>2. cpu.frames \in [KThreads -> Seq(FrameRecords)] /\ Len(cpu.frames[t]) > 0
  BY <1>1 DEF CpuRecords
<1>3. PICK b \in BOOLEAN : b = Top(t).flag
  <2>1. Top(t) \in FrameRecords
    BY <1>1, <1>2 DEF Top
  <2> QED
    BY <2>1 DEF FrameRecords
<1>4. PICK f : f = [cpu.frames EXCEPT ![t] = Pop(@)]
  OBVIOUS
<1>5. /\ f \in [KThreads -> Seq(FrameRecords)] /\ Len(f[t]) = Len(cpu.frames[t]) - 1
      /\ \A i \in 1 .. Len(f[t]) : f[t][i] = cpu.frames[t][i]
      /\ \A u \in KThreads \ {t} : f[u] = cpu.frames[u]
  BY <1>2, <1>4, Popped
<1>6. cpu' = [cpu EXCEPT !.flag = b, !.frames = f]
  BY <1>3, <1>4, Zenon DEF Return
<1>7. cpu' \in CpuRecords
  BY <1>1, <1>5, <1>6 DEF CpuRecords
<1>8. /\ cpu'.frames = f /\ cpu'.current = t /\ ~ cpu'.in_external_intr
      /\ cpu'.master = cpu.master /\ cpu'.slave = cpu.slave /\ cpu'.idt = cpu.idt /\ ~ cpu'.failed
  BY <1>1, <1>6 DEF CpuRecords
<1>9. GatesInv(cpu') /\ ServiceInv(cpu')
  BY <1>1, <1>8 DEF GatesInv, ServiceInv
<1>10. YieldInv(cpu')
  <2>1. ASSUME NEW u \in KThreads
        PROVE  /\ u # t => Len(f[u]) > 0
               /\ \A i \in 1 .. Len(f[u]) :
                     /\ (f[u][i].kind = "yield") <=> (u # t /\ i = Len(f[u]))
                     /\ f[u][i].kind # "external"
    <3>1. CASE u # t
      BY <1>1, <1>5, <3>1 DEF YieldInv
    <3>2. CASE u = t
      <4>1. \A i \in 1 .. Len(f[t]) : i \in 1 .. Len(cpu.frames[t])
        BY <1>2, <1>5
      <4> QED
        BY <1>1, <1>5, <3>2, <4>1, SMTT(20) DEF YieldInv
    <3> QED
      BY <3>1, <3>2
  <2> QED
    BY <1>8, <2>1 DEF YieldInv
<1> QED
  BY <1>7, <1>8, <1>9, <1>10 DEF CpuInv

\* A thread turns interrupts off or on: no handler runs, so that nothing is in service.
LEMMA FlagKeeps ==
    ASSUME CpuInv(cpu), NEW t \in KThreads, TurnsOff(t) \/ TurnsOn(t)
    PROVE  CpuInv(cpu')
<1>1. /\ cpu \in CpuRecords /\ ~ cpu.failed /\ GatesInv(cpu) /\ YieldInv(cpu) /\ ServiceInv(cpu)
      /\ cpu.current = t /\ ~ InHandler(t)
  BY DEF CpuInv, TurnsOff, TurnsOn, InThread, Running
<1>2. ~ cpu.in_external_intr
  BY <1>1 DEF ServiceInv, InHandler, Top
<1>3. PICK b \in BOOLEAN : cpu' = [cpu EXCEPT !.flag = b]
  <2>1. cpu' = [cpu EXCEPT !.flag = FALSE] \/ cpu' = [cpu EXCEPT !.flag = TRUE]
    BY <1>2 DEF TurnsOff, TurnsOn, intr_disable, intr_enable
  <2> QED
    BY <2>1, Zenon
<1>4. cpu' \in CpuRecords
  BY <1>1, <1>3 DEF CpuRecords
<1>5. /\ cpu'.frames = cpu.frames /\ cpu'.current = t /\ ~ cpu'.in_external_intr
      /\ cpu'.master = cpu.master /\ cpu'.slave = cpu.slave /\ cpu'.idt = cpu.idt /\ ~ cpu'.failed
  BY <1>1, <1>2, <1>3 DEF CpuRecords
<1>6. GatesInv(cpu') /\ ServiceInv(cpu') /\ YieldInv(cpu')
  BY <1>1, <1>2, <1>5 DEF GatesInv, ServiceInv, YieldInv
<1> QED
  BY <1>4, <1>5, <1>6 DEF CpuInv

\* A thread that yields does so outside of every handler.
LEMMA YieldsKeeps ==
    ASSUME CpuInv(cpu), NEW t \in KThreads, Yields(t)
    PROVE  CpuInv(cpu')
<1>1. /\ cpu \in CpuRecords /\ ~ cpu.failed /\ GatesInv(cpu) /\ YieldInv(cpu) /\ ServiceInv(cpu)
      /\ cpu.current = t /\ ~ InHandler(t)
  BY DEF CpuInv, Yields, InThread, Running
<1>2. ~ cpu.in_external_intr /\ cpu.master = {} /\ cpu.slave = {}
  BY <1>1 DEF ServiceInv, InHandler, Top
<1>3. PICK u \in KThreads : cpu' = thread_yield(cpu, u)
  BY DEF Yields
<1> QED
  BY <1>1, <1>2, <1>3, YieldTaken

\* A driver registers a handler of an external interrupt: its gate turns interrupts off.
LEMMA RegistersKeeps ==
    ASSUME InterruptsAssumption, CpuInv(cpu), NEW t \in KThreads, Registers(t)
    PROVE  CpuInv(cpu')
<1>1. /\ cpu \in CpuRecords /\ ~ cpu.failed /\ GatesInv(cpu) /\ YieldInv(cpu) /\ ServiceInv(cpu)
  BY DEF CpuInv
<1>2. PICK v \in Handled : v \notin cpu.handlers /\ cpu' = intr_register_ext(cpu, v)
  BY DEF Registers
<1>3. v \in 32 .. 47
  BY DEF InterruptsAssumption
<1>4. PICK gate : gate = make_intr_gate(0)
  OBVIOUS
<1>5. gate \in Gates /\ gate.type = "interrupt"
  BY <1>4 DEF make_intr_gate, Gates
<1>6. PICK h, g : h = cpu.handlers \union {v} /\ g = [cpu.idt EXCEPT ![v] = gate]
  OBVIOUS
<1>7. cpu' = [cpu EXCEPT !.handlers = h, !.idt = g]
  BY <1>2, <1>3, <1>4, <1>6, Zenon DEF intr_register_ext, register_handler
<1>8. h \in SUBSET Int /\ g \in [Vectors -> Gates]
  <2>1. cpu.handlers \in SUBSET Int /\ cpu.idt \in [Vectors -> Gates]
    BY <1>1 DEF CpuRecords
  <2>2. h \in SUBSET Int
    BY <1>3, <1>6, <2>1
  <2>3. g \in [Vectors -> Gates]
    BY <1>5, <1>6, <2>1
  <2> QED
    BY <2>2, <2>3
<1>9. cpu' \in CpuRecords
  BY <1>1, <1>7, <1>8 DEF CpuRecords
<1>10. /\ cpu'.frames = cpu.frames /\ cpu'.current = cpu.current /\ cpu'.flag = cpu.flag
       /\ cpu'.in_external_intr = cpu.in_external_intr
       /\ cpu'.master = cpu.master /\ cpu'.slave = cpu.slave /\ cpu'.idt = g /\ ~ cpu'.failed
  BY <1>1, <1>7 DEF CpuRecords
<1>11. GatesInv(cpu')
  <2>1. \A w \in Vectors : g[w] = gate \/ g[w] = cpu.idt[w]
    BY <1>1, <1>6 DEF CpuRecords
  <2> QED
    BY <1>1, <1>5, <1>10, <2>1 DEF GatesInv
<1>12. ServiceInv(cpu') /\ YieldInv(cpu')
  BY <1>1, <1>10 DEF ServiceInv, LineServed, YieldInv
<1> QED
  BY <1>9, <1>10, <1>11, <1>12 DEF CpuInv

\* The stacks where no handler runs.
LEMMA YieldKnown ==
    ASSUME NEW s, NEW f, NEW c, s.frames = f, s.current = c,
           \A u \in KThreads :
               /\ u # c => Len(f[u]) > 0
               /\ \A i \in 1 .. Len(f[u]) : /\ (f[u][i].kind = "yield") <=> (u # c /\ i = Len(f[u]))
                                           /\ f[u][i].kind # "external"
    PROVE  YieldInv(s)
BY DEF YieldInv

\* Software interrupts and faults of user code: an internal frame alone, while nothing
\* is in service.
LEMMA TrapTaken ==
    ASSUME CpuInv(cpu), NEW t \in KThreads, cpu.current = t, cpu.frames[t] = << >>, cpu.flag,
           NEW w \in Vectors,
           cpu' = [cpu EXCEPT !.frames[t] = <<[kind |-> "internal", vec |-> w, flag |-> TRUE]>>,
                              !.flag = (cpu.idt[w].type = "trap")]
    PROVE  InterruptsAssumption => CpuInv(cpu')
<1> SUFFICES ASSUME InterruptsAssumption PROVE CpuInv(cpu')
  OBVIOUS
<1>1. /\ cpu \in CpuRecords /\ ~ cpu.failed /\ GatesInv(cpu) /\ YieldInv(cpu) /\ ServiceInv(cpu)
  BY DEF CpuInv
<1>2. ~ cpu.in_external_intr
  BY <1>1 DEF ServiceInv
<1>3. PICK x : x = [kind |-> "internal", vec |-> w, flag |-> TRUE]
  OBVIOUS
<1>4. x \in FrameRecords /\ x.kind = "internal"
  <2>1. w \in Int
    BY DEF Vectors, InterruptsAssumption
  <2> QED
    BY <1>3, <2>1 DEF FrameRecords
<1>5. PICK f : f = [cpu.frames EXCEPT ![t] = <<x>>]
  OBVIOUS
<1>6. PICK b \in BOOLEAN : b = (cpu.idt[w].type = "trap")
  OBVIOUS
<1>7. cpu' = [cpu EXCEPT !.frames = f, !.flag = b]
  BY <1>3, <1>5, <1>6, Zenon
<1>8. /\ f \in [KThreads -> Seq(FrameRecords)] /\ Len(f[t]) = 1 /\ f[t][1] = x
      /\ \A u \in KThreads \ {t} : f[u] = cpu.frames[u]
  BY <1>1, <1>4, <1>5 DEF CpuRecords
<1>9. cpu' \in CpuRecords
  BY <1>1, <1>7, <1>8 DEF CpuRecords
<1>10. /\ cpu'.frames = f /\ cpu'.current = t /\ ~ cpu'.in_external_intr
       /\ cpu'.master = cpu.master /\ cpu'.slave = cpu.slave /\ cpu'.idt = cpu.idt /\ ~ cpu'.failed
  BY <1>1, <1>2, <1>7 DEF CpuRecords
<1>11. GatesInv(cpu') /\ ServiceInv(cpu')
  BY <1>1, <1>2, <1>10 DEF GatesInv, ServiceInv
<1>12. YieldInv(cpu')
  <2>1. ASSUME NEW u \in KThreads
        PROVE  /\ u # t => Len(f[u]) > 0
               /\ \A i \in 1 .. Len(f[u]) :
                     /\ (f[u][i].kind = "yield") <=> (u # t /\ i = Len(f[u]))
                     /\ f[u][i].kind # "external"
    <3>1. CASE u # t
      BY <1>1, <1>2, <1>8, <3>1 DEF YieldInv
    <3>2. CASE u = t
      <4>1. \A i \in 1 .. Len(f[t]) : f[t][i] = x
        BY <1>8
      <4> QED
        BY <1>4, <3>2, <4>1
    <3> QED
      BY <3>1, <3>2
  <2>2. PICK s : s = cpu'
    OBVIOUS
  <2>3. s.frames = f /\ s.current = t
    BY <1>10, <2>2
  <2>4. YieldInv(s)
    BY <2>1, <2>3, YieldKnown
  <2> QED
    BY <2>2, <2>4
<1> QED
  BY <1>9, <1>10, <1>11, <1>12 DEF CpuInv

LEMMA SoftwareKeeps ==
    ASSUME InterruptsAssumption, CpuInv(cpu), NEW t \in KThreads,
           (\E v \in DOMAIN cpu.idt : Software(t, v)) \/ Fault(t)
    PROVE  CpuInv(cpu')
<1>1. DOMAIN cpu.idt = Vectors
  BY DEF CpuInv, CpuRecords
<1>2. CASE Fault(t)
  <2>1. 14 \in Vectors /\ cpu.current = t
    BY <1>2 DEF Vectors, Fault, Running
  <2> QED
    BY <1>2, <2>1, TrapTaken DEF Fault
<1>3. ASSUME NEW v \in DOMAIN cpu.idt, Software(t, v) PROVE CpuInv(cpu')
  <2>1. PICK w : w = IF cpu.idt[v].dpl = 3 THEN v ELSE 13
    OBVIOUS
  <2>2. w \in Vectors /\ cpu.current = t
    BY <1>1, <1>3, <2>1 DEF Vectors, Software, Running
  <2>3. cpu' = [cpu EXCEPT !.frames[t] = <<[kind |-> "internal", vec |-> w, flag |-> TRUE]>>,
                           !.flag = (cpu.idt[w].type = "trap")]
    BY <1>3, <2>1, Zenon DEF Software
  <2>4. cpu.frames[t] = << >> /\ cpu.flag
    BY <1>3 DEF Software
  <2> QED
    BY <2>2, <2>3, <2>4, TrapTaken
<1> QED
  BY <1>2, <1>3

\* The system call and the exceptions are registered once, before threads run.
LEMMA BootedGood == InterruptsAssumption => CpuInv(Booted)
<1> SUFFICES ASSUME InterruptsAssumption PROVE CpuInv(Booted)
  OBVIOUS
<1>1. PICK f : f = [t \in KThreads |-> IF t = First THEN << >>
                                     ELSE <<[kind |-> "yield", vec |-> 0, flag |-> TRUE]>>]
  OBVIOUS
<1>2. First \in KThreads
  BY DEF First, InterruptsAssumption
<1>3. PICK y : y = [kind |-> "yield", vec |-> 0, flag |-> TRUE]
  OBVIOUS
<1>0. y \in FrameRecords /\ y.kind = "yield"
  BY <1>3 DEF FrameRecords
<1>4. /\ f \in [KThreads -> Seq(FrameRecords)] /\ f[First] = << >>
      /\ \A t \in KThreads \ {First} : f[t] = <<y>>
  <2>1. \A t \in KThreads : f[t] = (IF t = First THEN << >> ELSE <<y>>)
    BY <1>1, <1>3
  <2>2. \A t \in KThreads : (IF t = First THEN << >> ELSE <<y>>) \in Seq(FrameRecords)
    BY <1>0
  <2>3. f = [t \in KThreads |-> IF t = First THEN << >> ELSE <<y>>]
    BY <1>1, <1>3, Zenon
  <2> QED
    BY <1>2, <2>1, <2>2, <2>3
<1>5. PICK g0, s0 : /\ g0 = intr_init
                    /\ s0 = [flag |-> TRUE, current |-> First, in_external_intr |-> FALSE, yield_on_return |-> FALSE,
                             frames |-> f, idt |-> g0, handlers |-> {}, pending |-> {}, master |-> {},
                             slave |-> {}, unexpected_cnt |-> 0, raises |-> 0, failed |-> FALSE]
  OBVIOUS
<1>6. g0 \in [Vectors -> Gates] /\ \A v \in Vectors : g0[v].type = "interrupt"
  BY <1>5 DEF intr_init, make_intr_gate, Gates, Vectors
<1>7. PICK tr0, in0, tr3 : tr0 = make_trap_gate(0) /\ in0 = make_intr_gate(0) /\ tr3 = make_trap_gate(3)
  OBVIOUS
<1>8. tr0 \in Gates /\ in0 \in Gates /\ tr3 \in Gates
  BY <1>7 DEF make_trap_gate, make_intr_gate, Gates
<1>9. PICK g1, g2, g3 : /\ g1 = [g0 EXCEPT ![13] = tr0] /\ g2 = [g1 EXCEPT ![14] = in0]
                        /\ g3 = [g2 EXCEPT ![48] = tr3]
  OBVIOUS
<1>10. /\ g3 \in [Vectors -> Gates]
       /\ \A v \in Vectors : v \in 32 .. 47 => g3[v].type = "interrupt"
  <2>1. g1 \in [Vectors -> Gates] /\ \A v \in Vectors : v # 13 => g1[v] = g0[v]
    BY <1>6, <1>8, <1>9
  <2>2. g2 \in [Vectors -> Gates] /\ \A v \in Vectors : v # 14 => g2[v] = g1[v]
    BY <1>8, <1>9, <2>1
  <2>3. g3 \in [Vectors -> Gates] /\ \A v \in Vectors : v # 48 => g3[v] = g2[v]
    BY <1>8, <1>9, <2>2
  <2>4. \A v \in Vectors : v \in 32 .. 47 => g3[v] = g0[v]
    BY <2>1, <2>2, <2>3
  <2> QED
    BY <1>6, <2>3, <2>4
<1>11. Booted = [s0 EXCEPT !.handlers = {13, 14, 48}, !.idt = g3]
  <2>1. s0.handlers = {} /\ s0.idt = g0
    BY <1>5
  <2>2. PICK s1 : s1 = [s0 EXCEPT !.handlers = {13}, !.idt = g1]
    OBVIOUS
  <2>3. intr_register_int(s0, 13, 0, TRUE) = s1
    <3>1. {} \union {13} = {13} /\ 13 \notin {} /\ 13 \notin 32 .. 47
      OBVIOUS
    <3>2. intr_register_int(s0, 13, 0, TRUE) = [s0 EXCEPT !.handlers = s0.handlers \union {13}, !.idt[13] = tr0]
      BY <1>7, <2>1, <3>1, Zenon DEF intr_register_int, register_handler
    <3>3. [s0 EXCEPT !.handlers = s0.handlers \union {13}, !.idt[13] = tr0] = s1
      BY <1>5, <1>9, <2>1, <2>2
    <3> QED
      BY <3>2, <3>3
  <2>4. s1.handlers = {13} /\ s1.idt = g1
    BY <1>5, <2>2
  <2>5. PICK s2 : s2 = [s0 EXCEPT !.handlers = {13, 14}, !.idt = g2]
    OBVIOUS
  <2>6. intr_register_int(s1, 14, 0, FALSE) = s2
    <3>1. {13} \union {14} = {13, 14} /\ 14 \notin {13} /\ 14 \notin 32 .. 47
      OBVIOUS
    <3>2. intr_register_int(s1, 14, 0, FALSE) = [s1 EXCEPT !.handlers = s1.handlers \union {14}, !.idt[14] = in0]
      BY <1>7, <2>4, <3>1, Zenon DEF intr_register_int, register_handler
    <3>3. [s1 EXCEPT !.handlers = s1.handlers \union {14}, !.idt[14] = in0] = s2
      BY <1>5, <1>9, <2>2, <2>4, <2>5, <3>1, ZenonT(40)
    <3> QED
      BY <3>2, <3>3
  <2>7. s2.handlers = {13, 14} /\ s2.idt = g2
    BY <1>5, <2>5
  <2>8. intr_register_int(s2, 48, 3, TRUE) = [s0 EXCEPT !.handlers = {13, 14, 48}, !.idt = g3]
    <3>1. {13, 14} \union {48} = {13, 14, 48} /\ 48 \notin {13, 14} /\ 48 \notin 32 .. 47
      OBVIOUS
    <3>2. intr_register_int(s2, 48, 3, TRUE) = [s2 EXCEPT !.handlers = s2.handlers \union {48}, !.idt[48] = tr3]
      BY <1>7, <2>7, <3>1, Zenon DEF intr_register_int, register_handler
    <3>3. [s2 EXCEPT !.handlers = s2.handlers \union {48}, !.idt[48] = tr3]
            = [s0 EXCEPT !.handlers = {13, 14, 48}, !.idt = g3]
      BY <1>5, <1>9, <2>5, <2>7, <3>1, ZenonT(40)
    <3> QED
      BY <3>2, <3>3
  <2>9. pic_init.master = {} /\ pic_init.slave = {}
    BY DEF pic_init
  <2>10. Booted = intr_register_int(intr_register_int(intr_register_int(s0, 13, 0, TRUE), 14, 0, FALSE), 48, 3, TRUE)
    BY <1>1, <1>5, <2>9, Zenon DEF Booted
  <2> QED
    BY <2>3, <2>6, <2>8, <2>10
<1>12. PICK b : b = Booted
  OBVIOUS
<1>13. /\ b.frames = f /\ b.current = First /\ ~ b.in_external_intr /\ b.master = {} /\ b.slave = {}
       /\ b.idt = g3 /\ ~ b.failed /\ b \in CpuRecords
  <2>1. b = [flag |-> TRUE, current |-> First, in_external_intr |-> FALSE, yield_on_return |-> FALSE,
             frames |-> f, idt |-> g3, handlers |-> {13, 14, 48}, pending |-> {}, master |-> {},
             slave |-> {}, unexpected_cnt |-> 0, raises |-> 0, failed |-> FALSE]
    BY <1>5, <1>11, <1>12
  <2>2. b \in CpuRecords
    BY <1>2, <1>4, <1>10, <2>1 DEF CpuRecords
  <2> QED
    BY <2>1, <2>2
<1>14. GatesInv(b) /\ ServiceInv(b)
  BY <1>10, <1>13 DEF GatesInv, ServiceInv
<1>15. YieldInv(b)
  <2>0. Len(<<y>>) = 1 /\ <<y>>[1] = y
    OBVIOUS
  <2>1. \A t \in KThreads \ {First} : Len(f[t]) = 1 /\ f[t][1] = y
    BY <1>4, <2>0
  <2>2. Len(f[First]) = 0
    BY <1>4
  <2>3. ASSUME NEW t \in KThreads
        PROVE  /\ t # First => Len(f[t]) > 0
               /\ \A i \in 1 .. Len(f[t]) : /\ (f[t][i].kind = "yield") <=> (t # First /\ i = Len(f[t]))
                                           /\ f[t][i].kind # "external"
    <3>1. CASE t = First
      BY <2>2, <3>1
    <3>2. CASE t # First
      <4>1. Len(f[t]) = 1 /\ \A i \in 1 .. Len(f[t]) : i = 1 /\ f[t][i] = y
        BY <2>1, <3>2
      <4> QED
        BY <1>0, <3>2, <4>1
    <3> QED
      BY <3>1, <3>2
  <2> QED
    BY <1>13, <2>3, YieldKnown
<1> QED
  BY <1>12, <1>13, <1>14, <1>15 DEF CpuInv

\* interrupt.c, for any number of threads and any lines, handlers and sequence of
\* interrupts, spurious ones too: the frames of every thread, the flag, what the
\* controllers have in service and the descriptor table fit together.
THEOREM InterruptsInvariant == InterruptsAssumption => (InterruptsSpec => []CpuInv(cpu))
<1> SUFFICES ASSUME InterruptsAssumption PROVE InterruptsSpec => []CpuInv(cpu)
  OBVIOUS
<1>1. cpu = Booted => CpuInv(cpu)
  BY BootedGood
<1>2. CpuInv(cpu) /\ [InterruptsNext]_cpu => CpuInv(cpu)'
  <2> SUFFICES ASSUME CpuInv(cpu), [InterruptsNext]_cpu PROVE CpuInv(cpu')
    BY DEF CpuInv, GatesInv, ServiceInv, LineServed, YieldInv
  <2>1. ASSUME NEW v \in Lines, Raise(v) \/ External(v) PROVE CpuInv(cpu')
    BY <2>1, RaiseKeeps, ExternalKeeps
  <2>2. ASSUME NEW v \in {39, 47}, SpuriousLine(v) PROVE CpuInv(cpu')
    BY <2>2, SpuriousKeeps
  <2>3. ASSUME NEW t \in KThreads, Handler(t) \/ Finish(t) \/ Return(t) PROVE CpuInv(cpu')
    BY <2>3, HandlerKeeps, FinishKeeps, ReturnKeeps
  <2>4. ASSUME NEW t \in KThreads, TurnsOff(t) \/ TurnsOn(t) \/ Yields(t) \/ Registers(t) PROVE CpuInv(cpu')
    BY <2>4, FlagKeeps, YieldsKeeps, RegistersKeeps
  <2>5. ASSUME NEW t \in KThreads, (\E v \in DOMAIN cpu.idt : Software(t, v)) \/ Fault(t) PROVE CpuInv(cpu')
    BY <2>5, SoftwareKeeps
  <2>6. CASE UNCHANGED cpu
    BY <2>6
  <2> QED
    BY <2>1, <2>2, <2>3, <2>4, <2>5, <2>6, Zenon DEF InterruptsNext
<1> QED
  BY <1>1, <1>2, PTL DEF InterruptsSpec

\* interrupt.c: external handlers never nest and run with interrupts off; outside of one
\* nothing is in service, so that every line can be delivered again, also after a spurious
\* interrupt; a thread that is not running ends in its thread_yield(); no assertion fails.
THEOREM InterruptsAreExact == InterruptsAssumption => (InterruptsSpec => []InterruptsExact)
<1> SUFFICES ASSUME InterruptsAssumption PROVE InterruptsSpec => []InterruptsExact
  OBVIOUS
<1> QED
  BY CpuInvExact, InterruptsInvariant, PTL
=============================================================================
