------------------------------- MODULE Synch -------------------------------
(***************************************************************************)
(* The synchronization primitives of pintos2/src/threads/synch.c on top of *)
(* the scheduler: semaphores, locks, condition variables, and the thread   *)
(* operations that use them (thread_create with its tid_lock, thread_exit, *)
(* idle).  Every thread but Idle calls any primitive it likes whose        *)
(* documented precondition it meets; interrupts arrive between any two     *)
(* steps of the running thread that has them enabled.                      *)
(*                                                                         *)
(* pc[t] says where t is inside a primitive.  Only "loop", the body of     *)
(* sema_down()'s loop after a thread_block(), runs with interrupts off for *)
(* more than one step.  A lock is identified with its semaphore, and the   *)
(* semaphore_elem on the stack of a thread in cond_wait() with the thread. *)
(***************************************************************************)
EXTENDS Scheduler

CONSTANTS
    Locks,        \* struct lock objects, tid_lock among them
    TidLock,      \* tid_lock of thread.c
    Conds,        \* struct condition objects
    CondLock,     \* the one lock each condition is associated with
    Semas,        \* struct semaphore objects that are not part of a lock
    IdleStarted,  \* the semaphore thread_start() waits on
    IntrSemas,    \* semaphores interrupt handlers "up"
    WaitingSema,  \* waiting_sema of each thread, upped by thread_exit()
    SemaInit,     \* the value each of Semas is initialized to
    MaxValue      \* bound: a caller does not "up" a semaphore of this value

ASSUME SemaAssumption ==
    /\ Locks \intersect Semas = {} /\ Locks \intersect Threads = {}
    /\ Semas \intersect Threads = {} /\ Conds \intersect Threads = {}
    /\ NULL \notin Locks \union Semas \union Conds
    /\ TidLock \in Locks
    /\ CondLock \in [Conds -> Locks \ {TidLock}]
    /\ IdleStarted \in Semas /\ IntrSemas \subseteq Semas
    /\ WaitingSema \in [Threads -> Semas]
    /\ SemaInit \in [Semas -> Nat] /\ SemaInit[IdleStarted] = 0
    /\ MaxValue \in Nat

VARIABLES
    value,         \* semaphore values
    waiters,       \* semaphore wait lists
    holder,        \* lock->holder
    cond_waiters,  \* cond->waiters
    pc, sema,      \* place of each thread and the semaphore it works on
    op, obj,       \* enclosing operation and the condition or child it is for
    held,          \* the locks each caller may count on owning
    tid, next_tid  \* t->tid (0 before allocate_tid()) and its next value

semaVars == <<value, waiters>>
lockVars == <<holder, held>>
callVars == <<pc, sema, op, obj>>
tidVars  == <<tid, next_tid>>
vars == <<current, status, ready_list, idle_thread, thread_ticks, value,
          waiters, holder, cond_waiters, pc, sema, op, obj, held, tid, next_tid>>

SemaIds == Semas \union Locks \union Threads

PCs == {"run", "down", "loop", "holder", "alloc", "incr", "release", "up",
        "unblock", "bcast", "idle_start", "idle_up", "idle_block", "hlt"}

Init ==
    /\ SchedulerInit
    /\ value = [s \in SemaIds |-> IF s \in Semas THEN SemaInit[s]
                                  ELSE IF s \in Locks THEN 1 ELSE 0]
    /\ waiters = [s \in SemaIds |-> <<>>]
    /\ holder = [l \in Locks |-> NULL]
    /\ cond_waiters = [c \in Conds |-> <<>>]
    /\ pc = [t \in Threads |-> IF t = Main THEN "down"
                               ELSE IF t = Idle THEN "idle_start" ELSE "run"]
    /\ sema = [t \in Threads |-> IF t = Main THEN IdleStarted ELSE NULL]
    /\ op = [t \in Threads |-> "none"]
    /\ obj = [t \in Threads |-> NULL]
    /\ held = [t \in Threads |-> {}]
    /\ tid = [t \in Threads |-> IF t = Main THEN 1 ELSE IF t = Idle THEN 2 ELSE 0]
    /\ next_tid = 3

\* t executes its next instruction at place p.
At(t, p) == current = t /\ pc[t] = p

\* Between primitives t calls whichever it likes.
Calling(t) == t # Idle /\ At(t, "run")

-----------------------------------------------------------------------------
(* Semaphores.                                                             *)

\* The locals of t once sema_down(sema[t]) returns: in lock_acquire(), in
\* cond_wait() about to lock_acquire(), or back at the caller.
Downed(t) ==
    /\ pc' = [pc EXCEPT ![t] = IF sema[t] \in Locks THEN "holder"
                               ELSE IF sema[t] = t THEN "down" ELSE "run"]
    /\ sema' = [sema EXCEPT ![t] = IF sema[t] \in Locks THEN @
                                   ELSE IF sema[t] = t THEN CondLock[obj[t]]
                                   ELSE NULL]

SemaDownTakes(t) ==
    /\ value[sema[t]] > 0
    /\ value' = [value EXCEPT ![sema[t]] = @ - 1]
    /\ Downed(t)
    /\ UNCHANGED <<waiters, op, obj, schedulerVars>>

SemaDownBlocks(t) ==
    /\ value[sema[t]] = 0
    /\ waiters' = [waiters EXCEPT ![sema[t]] = Append(@, t)]
    /\ ThreadBlock(ready_list, status)
    /\ pc' = [pc EXCEPT ![t] = "loop"]
    /\ UNCHANGED <<value, sema, op, obj>>

\* A mutant: `if' for `while', so that a woken thread does not test again.
SemaDownIf(t) ==
    /\ \/ At(t, "down") /\ (SemaDownTakes(t) \/ SemaDownBlocks(t))
       \/ /\ At(t, "loop")
          /\ value' = [value EXCEPT ![sema[t]] = IF @ = 0 THEN 0 ELSE @ - 1]
          /\ Downed(t)
          /\ UNCHANGED <<waiters, op, obj, schedulerVars>>
    /\ UNCHANGED <<lockVars, cond_waiters, tidVars>>

\* sema_down(): from its intr_disable(), or from the return of thread_block(),
\* to the next thread_block() or the return.
SemaDown(t) ==
    /\ At(t, "down") \/ At(t, "loop")
    /\ SemaDownTakes(t) \/ SemaDownBlocks(t)
    /\ UNCHANGED <<lockVars, cond_waiters, tidVars>>

\* A caller's sema_down(s).
CallSemaDown(t, s) ==
    /\ Calling(t)
    /\ pc' = [pc EXCEPT ![t] = "down"]
    /\ sema' = [sema EXCEPT ![t] = s]
    /\ UNCHANGED <<schedulerVars, semaVars, lockVars, cond_waiters, op, obj, tidVars>>

\* sema_try_down(s) when it succeeds; a failure changes nothing.
SemaTryDown(t, s) ==
    /\ Calling(t)
    /\ value[s] > 0
    /\ value' = [value EXCEPT ![s] = @ - 1]
    /\ UNCHANGED <<schedulerVars, waiters, lockVars, cond_waiters, callVars, tidVars>>

\* What sema_up(s) does to the wait list, the ready list and the statuses.
Upped(s) ==
    /\ value' = [value EXCEPT ![s] = @ + 1]
    /\ waiters' = [waiters EXCEPT ![s] = PopFront(@)]
UppedList(s) == IF waiters[s] = <<>> THEN ready_list
                ELSE UnblockedList(Head(waiters[s]), ready_list)
UppedStatus(s) == IF waiters[s] = <<>> THEN status
                  ELSE UnblockedStatus(Head(waiters[s]), status)

\* A mutant: the waiter is not woken.
SemaUpNoWake(s) ==
    /\ value' = [value EXCEPT ![s] = @ + 1]
    /\ UNCHANGED <<waiters, schedulerVars>>

\* sema_up(s) as a step of its own.
SemaUp(s) ==
    /\ Upped(s)
    /\ ready_list' = UppedList(s)
    /\ status' = UppedStatus(s)
    /\ UNCHANGED <<current, idle_thread, thread_ticks>>

\* A caller's sema_up(s).
CallSemaUp(t, s) ==
    /\ Calling(t)
    /\ value[s] < MaxValue
    /\ SemaUp(s)
    /\ UNCHANGED <<lockVars, cond_waiters, callVars, tidVars>>

-----------------------------------------------------------------------------
(* Locks.                                                                  *)

\* lock_acquire(l) up to its sema_down(): the lock must not be held by t.
LockAcquire(t, l) ==
    /\ Calling(t)
    /\ l \notin held[t]
    /\ pc' = [pc EXCEPT ![t] = "down"]
    /\ sema' = [sema EXCEPT ![t] = l]
    /\ UNCHANGED <<schedulerVars, semaVars, lockVars, cond_waiters, op, obj, tidVars>>

\* lock->holder = thread_current (), with interrupts on again, and the return
\* into allocate_tid(), out of cond_wait() or to the caller.
LockSetHolder(t) ==
    /\ At(t, "holder")
    /\ holder' = [holder EXCEPT ![sema[t]] = t]
    /\ held' = [held EXCEPT ![t] = @ \union {sema[t]}]
    /\ pc' = [pc EXCEPT ![t] = IF op[t] = "create" THEN "alloc" ELSE "run"]
    /\ sema' = [sema EXCEPT ![t] = NULL]
    /\ op' = [op EXCEPT ![t] = IF @ = "wait" THEN "none" ELSE @]
    /\ obj' = [obj EXCEPT ![t] = IF op[t] = "wait" THEN NULL ELSE @]
    /\ UNCHANGED <<schedulerVars, semaVars, cond_waiters, tidVars>>

\* lock_try_acquire(l) when its sema_try_down() succeeds.
LockTryAcquire(t, l) ==
    /\ Calling(t)
    /\ l \notin held[t]
    /\ value[l] > 0
    /\ value' = [value EXCEPT ![l] = @ - 1]
    /\ pc' = [pc EXCEPT ![t] = "holder"]
    /\ sema' = [sema EXCEPT ![t] = l]
    /\ UNCHANGED <<schedulerVars, waiters, lockVars, cond_waiters, op, obj, tidVars>>

\* A caller's lock_release(l).
LockRelease(t, l) ==
    /\ Calling(t)
    /\ l \in held[t]
    /\ held' = [held EXCEPT ![t] = @ \ {l}]
    /\ pc' = [pc EXCEPT ![t] = "release"]
    /\ sema' = [sema EXCEPT ![t] = l]
    /\ UNCHANGED <<schedulerVars, semaVars, holder, cond_waiters, op, obj, tidVars>>

\* A mutant: the holder is not reset.
LockKeepHolder(t) ==
    /\ At(t, "release")
    /\ pc' = [pc EXCEPT ![t] = "up"]
    /\ UNCHANGED <<schedulerVars, semaVars, lockVars, cond_waiters, sema, op, obj, tidVars>>

\* lock->holder = NULL, the sema_up() still to come.
LockClearHolder(t) ==
    /\ At(t, "release")
    /\ holder' = [holder EXCEPT ![sema[t]] = NULL]
    /\ pc' = [pc EXCEPT ![t] = "up"]
    /\ UNCHANGED <<schedulerVars, semaVars, held, cond_waiters, sema, op, obj, tidVars>>

\* Where t goes on from the sema_up() in lock_release() or cond_signal().
AfterUp(t) == CASE op[t] = "create"    -> "unblock"
                [] op[t] = "wait"      -> "down"
                [] op[t] = "broadcast" -> "bcast"
                [] OTHER               -> "run"

\* The sema_up() at the end of lock_release() and cond_signal().
UpStep(t) ==
    /\ At(t, "up")
    /\ SemaUp(sema[t])
    /\ pc' = [pc EXCEPT ![t] = AfterUp(t)]
    /\ sema' = [sema EXCEPT ![t] = IF op[t] = "wait" THEN t ELSE NULL]
    /\ op' = [op EXCEPT ![t] = IF @ = "signal" THEN "none" ELSE @]
    /\ obj' = [obj EXCEPT ![t] = IF op[t] = "signal" THEN NULL ELSE @]
    /\ UNCHANGED <<lockVars, cond_waiters, tidVars>>

-----------------------------------------------------------------------------
(* Condition variables.                                                    *)

\* cond_wait(c, CondLock[c]) up to its lock_release(): sema_init() of the
\* semaphore on t's stack, which then joins the waiters of c.
CondWait(t, c) ==
    /\ Calling(t)
    /\ CondLock[c] \in held[t]
    /\ value' = [value EXCEPT ![t] = 0]
    /\ waiters' = [waiters EXCEPT ![t] = <<>>]
    /\ cond_waiters' = [cond_waiters EXCEPT ![c] = Append(@, t)]
    /\ held' = [held EXCEPT ![t] = @ \ {CondLock[c]}]
    /\ pc' = [pc EXCEPT ![t] = "release"]
    /\ sema' = [sema EXCEPT ![t] = CondLock[c]]
    /\ op' = [op EXCEPT ![t] = "wait"]
    /\ obj' = [obj EXCEPT ![t] = c]
    /\ UNCHANGED <<schedulerVars, holder, tidVars>>

\* Mutants: list_front() for list_pop_front(), and list_pop_back().
SignalKeeps(t, c) ==
    /\ cond_waiters[c] # <<>>
    /\ sema' = [sema EXCEPT ![t] = Head(cond_waiters[c])]
    /\ pc' = [pc EXCEPT ![t] = "up"]
    /\ UNCHANGED <<schedulerVars, semaVars, lockVars, cond_waiters, tidVars>>
SignalNewest(t, c) ==
    /\ cond_waiters[c] # <<>>
    /\ cond_waiters' = [cond_waiters EXCEPT ![c] = SubSeq(@, 1, Len(@) - 1)]
    /\ sema' = [sema EXCEPT ![t] = cond_waiters[c][Len(cond_waiters[c])]]
    /\ pc' = [pc EXCEPT ![t] = "up"]
    /\ UNCHANGED <<schedulerVars, semaVars, lockVars, tidVars>>

\* The list_pop_front() of cond_signal(); the sema_up() of what it returns is
\* UpStep.
SignalPops(t, c) ==
    /\ cond_waiters[c] # <<>>
    /\ cond_waiters' = [cond_waiters EXCEPT ![c] = Tail(@)]
    /\ sema' = [sema EXCEPT ![t] = Head(cond_waiters[c])]
    /\ pc' = [pc EXCEPT ![t] = "up"]
    /\ UNCHANGED <<schedulerVars, semaVars, lockVars, tidVars>>

\* cond_signal(c, CondLock[c]); with no waiter it changes nothing.
CondSignal(t, c) ==
    /\ Calling(t)
    /\ CondLock[c] \in held[t]
    /\ SignalPops(t, c)
    /\ op' = [op EXCEPT ![t] = "signal"]
    /\ obj' = [obj EXCEPT ![t] = c]

\* cond_broadcast(c, CondLock[c]): a loop of cond_signal().
CondBroadcast(t, c) ==
    /\ Calling(t)
    /\ CondLock[c] \in held[t]
    /\ pc' = [pc EXCEPT ![t] = "bcast"]
    /\ op' = [op EXCEPT ![t] = "broadcast"]
    /\ obj' = [obj EXCEPT ![t] = c]
    /\ UNCHANGED <<schedulerVars, semaVars, lockVars, cond_waiters, sema, tidVars>>

BroadcastNext(t) ==
    /\ At(t, "bcast")
    /\ SignalPops(t, obj[t])
    /\ UNCHANGED <<op, obj>>

BroadcastDone(t) ==
    /\ At(t, "bcast")
    /\ cond_waiters[obj[t]] = <<>>
    /\ pc' = [pc EXCEPT ![t] = "run"]
    /\ op' = [op EXCEPT ![t] = "none"]
    /\ obj' = [obj EXCEPT ![t] = NULL]
    /\ UNCHANGED <<schedulerVars, semaVars, lockVars, cond_waiters, sema, tidVars>>

-----------------------------------------------------------------------------
(* Threads.                                                                *)

\* thread_create() of u up to the sema_down() in allocate_tid(): init_thread().
\* Without a page for u it returns TID_ERROR and nothing changes.
ThreadCreate(t, u) ==
    /\ Calling(t)
    /\ status[u] = "UNBORN"
    /\ status' = [status EXCEPT ![u] = "BLOCKED"]
    /\ op' = [op EXCEPT ![t] = "create"]
    /\ obj' = [obj EXCEPT ![t] = u]
    /\ pc' = [pc EXCEPT ![t] = "down"]
    /\ sema' = [sema EXCEPT ![t] = TidLock]
    /\ UNCHANGED <<current, ready_list, idle_thread, thread_ticks,
                   semaVars, lockVars, cond_waiters, tidVars>>

\* tid = next_tid++: the load ...
AllocateTid(t) ==
    /\ At(t, "alloc")
    /\ tid' = [tid EXCEPT ![obj[t]] = next_tid]
    /\ pc' = [pc EXCEPT ![t] = "incr"]
    /\ UNCHANGED <<schedulerVars, semaVars, lockVars, cond_waiters, sema, op, obj,
                   next_tid>>

\* ... and the store of the incremented value, then lock_release(&tid_lock).
IncrementTid(t) ==
    /\ At(t, "incr")
    /\ next_tid' = tid[obj[t]] + 1
    /\ held' = [held EXCEPT ![t] = @ \ {TidLock}]
    /\ pc' = [pc EXCEPT ![t] = "release"]
    /\ sema' = [sema EXCEPT ![t] = TidLock]
    /\ UNCHANGED <<schedulerVars, semaVars, holder, cond_waiters, op, obj, tid>>

\* The thread_unblock() at the end of thread_create().
CreateUnblock(t) ==
    /\ At(t, "unblock")
    /\ ready_list' = UnblockedList(obj[t], ready_list)
    /\ status' = UnblockedStatus(obj[t], status)
    /\ pc' = [pc EXCEPT ![t] = "run"]
    /\ op' = [op EXCEPT ![t] = "none"]
    /\ obj' = [obj EXCEPT ![t] = NULL]
    /\ UNCHANGED <<current, idle_thread, thread_ticks, semaVars, lockVars,
                   cond_waiters, sema, tidVars>>

\* A caller's thread_yield().
CallYield(t) ==
    /\ Calling(t)
    /\ ThreadYield
    /\ UNCHANGED <<semaVars, lockVars, cond_waiters, callVars, tidVars>>

\* thread_exit() from its intr_disable(): sema_up(&ct->waiting_sema), then
\* THREAD_DYING and schedule().  A caller has released its locks by then.
ThreadExit(t) ==
    /\ Calling(t)
    /\ held[t] = {}
    /\ Upped(WaitingSema[t])
    /\ Schedule(UppedList(WaitingSema[t]),
                [UppedStatus(WaitingSema[t]) EXCEPT ![t] = "DYING"])
    /\ UNCHANGED <<lockVars, cond_waiters, callVars, tidVars>>

-----------------------------------------------------------------------------
(* The idle thread.                                                        *)

\* The first step of idle().
IdleStart ==
    /\ At(Idle, "idle_start")
    /\ idle_thread' = Idle
    /\ pc' = [pc EXCEPT ![Idle] = "idle_up"]
    /\ UNCHANGED <<current, status, ready_list, thread_ticks, semaVars, lockVars,
                   cond_waiters, sema, op, obj, tidVars>>

IdleUp ==
    /\ At(Idle, "idle_up")
    /\ SemaUp(IdleStarted)
    /\ pc' = [pc EXCEPT ![Idle] = "idle_block"]
    /\ UNCHANGED <<lockVars, cond_waiters, sema, op, obj, tidVars>>

\* intr_disable (); thread_block ();
IdleBlock ==
    /\ At(Idle, "idle_block")
    /\ ThreadBlock(ready_list, status)
    /\ pc' = [pc EXCEPT ![Idle] = "hlt"]
    /\ UNCHANGED <<semaVars, lockVars, cond_waiters, sema, op, obj, tidVars>>

-----------------------------------------------------------------------------
(* Interrupts.                                                             *)

InterruptsOn == current # NULL /\ pc[current] # "loop"

\* "hlt" waits for the next interrupt; after it idle() loops.
Interrupted == IF pc[current] = "hlt" THEN [pc EXCEPT ![current] = "idle_block"]
               ELSE pc

\* The timer interrupt.
Tick ==
    /\ InterruptsOn
    /\ ThreadTick
    /\ pc' = Interrupted
    /\ UNCHANGED <<semaVars, lockVars, cond_waiters, sema, op, obj, tidVars>>

\* A device interrupt whose handler calls sema_up(s), as ide.c's does.
DeviceInterrupt(s) ==
    /\ InterruptsOn
    /\ value[s] < MaxValue
    /\ SemaUp(s)
    /\ pc' = Interrupted
    /\ UNCHANGED <<lockVars, cond_waiters, sema, op, obj, tidVars>>

-----------------------------------------------------------------------------
\* What the code of t does on its own once it is in a primitive.
Continue(t) ==
    \/ SemaDown(t) \/ LockSetHolder(t) \/ LockClearHolder(t) \/ UpStep(t)
    \/ BroadcastNext(t) \/ BroadcastDone(t)
    \/ AllocateTid(t) \/ IncrementTid(t) \/ CreateUnblock(t)

\* What a caller may choose to do next.
Call(t) ==
    \/ \E s \in Semas \ {IdleStarted} :
          CallSemaDown(t, s) \/ SemaTryDown(t, s) \/ CallSemaUp(t, s)
    \/ \E l \in Locks \ {TidLock} :
          LockAcquire(t, l) \/ LockTryAcquire(t, l) \/ LockRelease(t, l)
    \/ \E c \in Conds : CondWait(t, c) \/ CondSignal(t, c) \/ CondBroadcast(t, c)
    \/ \E u \in Threads : ThreadCreate(t, u)
    \/ CallYield(t) \/ ThreadExit(t)

IdleLoop == IdleStart \/ IdleUp \/ IdleBlock

Next ==
    \/ \E t \in Threads : Continue(t) \/ Call(t)
    \/ IdleLoop
    \/ Tick
    \/ \E s \in IntrSemas : DeviceInterrupt(s)

Spec == Init /\ [][Next]_vars

\* The CPU executes the running thread's instructions, and the timer, whose
\* request stays pending in the PIC while interrupts are off, keeps ticking.
Fairness ==
    /\ WF_vars(IdleLoop \/ \E t \in Threads : Continue(t))
    /\ SF_vars(Tick)

FairSpec == Spec /\ Fairness

-----------------------------------------------------------------------------
(* Properties.                                                             *)

\* The model's variables keep to their types: the thread statuses, the lists,
\* the semaphore values and the places in the code.
TypeOK ==
    /\ SchedulerTypeOK
    /\ value \in [SemaIds -> Nat]
    /\ waiters \in [SemaIds -> Seq(Threads)]
    /\ holder \in [Locks -> Threads \union {NULL}]
    /\ cond_waiters \in [Conds -> Seq(Threads)]
    /\ pc \in [Threads -> PCs]
    /\ sema \in [Threads -> SemaIds \union {NULL}]
    /\ op \in [Threads -> {"none", "create", "wait", "signal", "broadcast"}]
    /\ obj \in [Threads -> Threads \union Conds \union {NULL}]
    /\ held \in [Threads -> SUBSET Locks]
    /\ tid \in [Threads -> Nat] /\ next_tid \in Nat

\* t is between the decrement in lock_acquire(l) and the increment in
\* lock_release(l).
Owns(t, l) == \/ l \in held[t]
              \/ (sema[t] = l /\ pc[t] \in {"holder", "release", "up"})

\* lock_acquire() and lock_release(): a lock has one owner at a time, and its
\* semaphore is 1 exactly while it has none, however the threads are preempted
\* between the sema_down() and the store to lock->holder.
MutualExclusion ==
    \A l \in Locks :
        /\ value[l] = IF \E t \in Threads : Owns(t, l) THEN 0 ELSE 1
        /\ \A t, u \in Threads : Owns(t, l) /\ Owns(u, l) => t = u

\* t owns l and has not cleared lock->holder yet.
Holds(t, l) == l \in held[t] \/ (sema[t] = l /\ pc[t] = "release")

\* lock_held_by_current_thread(): for the running thread lock->holder always
\* tells the truth, although it is written with interrupts on, so that the
\* ASSERTs of lock_acquire(), lock_release() and cond_*() never misfire.
HolderIsOwner ==
    \A l \in Locks, t \in Threads :
        holder[l] = t <=> Holds(t, l)

\* struct thread's `elem': "only a thread in the ready state is on the run
\* queue, whereas only a thread in the blocked state is on a semaphore wait
\* list" (thread.h).  A thread is on the one list its state calls for, once,
\* and the idle thread, once known, never appears in the ready list.
ElemOnOneList ==
    /\ NoDuplicates(ready_list)
    /\ \A t \in Threads :
          OnList(t, ready_list) <=> status[t] = "READY" /\ t # idle_thread
    /\ \A s \in SemaIds :
          /\ NoDuplicates(waiters[s])
          /\ \A t \in Threads : OnList(t, waiters[s]) <=>
                 status[t] = "BLOCKED" /\ pc[t] = "loop" /\ sema[t] = s

\* schedule(): next_thread_to_run() always finds a thread, before idle() has
\* set idle_thread too, and the thread it finds is the only running one.
OneRunning ==
    /\ current # NULL
    /\ \A t \in Threads : status[t] = "RUNNING" <=> t = current

\* The threads sema_up(s) has woken that have yet to test the value again.
Woken(s) == {t \in Threads : /\ sema[t] = s /\ pc[t] = "loop"
                             /\ status[t] \in {"READY", "RUNNING"}}

\* sema_up() and sema_down(): no wakeup is lost.  While threads still wait,
\* every unit of the semaphore has a thread on its way to take it, although a
\* third thread may take a unit before the woken one has run.
NoLostWakeup ==
    \A s \in SemaIds : waiters[s] # <<>> => value[s] <= Cardinality(Woken(s))

\* t's semaphore_elem is in use.
InWaiterSema(t) == op[t] = "wait" /\ (pc[t] \in {"release", "up"} \/ sema[t] = t)

Listed(t) == {c \in Conds : OnList(t, cond_waiters[c])}
Signallers(t) == {u \in Threads : pc[u] = "up" /\ sema[u] = t}

\* cond_wait() and cond_signal(): a waiter is queued, or its one signal is on
\* its way, or the signal has arrived, even when it is sent before the waiter
\* has reached its sema_down(); and the semaphore on a waiter's stack is not
\* touched any more once the waiter has gone past it.
SignalDelivered ==
    \A t \in Threads :
        value[t] + Cardinality(Listed(t)) + Cardinality(Signallers(t))
            = IF InWaiterSema(t) THEN 1 ELSE 0

\* allocate_tid(): two threads never get the same tid, although next_tid++ is
\* not atomic.
UniqueTids ==
    \A t, u \in Threads : tid[t] # 0 /\ tid[t] = tid[u] => t = u

\* What thread.c promises of its threads whatever is created, blocked, woken or
\* preempted and whenever idle() starts: ElemOnOneList, OneRunning and UniqueTids.
SchedulerSound == ElemOnOneList /\ OneRunning /\ UniqueTids

\* next_thread_to_run(): a ready thread gets the CPU, whatever the others do.
ReadyRuns ==
    \A t \in Threads : status[t] = "READY" /\ t # Idle ~> status[t] = "RUNNING"

\* synch.c implements the abstract monitor: a lock changes hands at the
\* sema_down() and the sema_up(), and cond_wait() "atomically releases LOCK and
\* waits for COND": the waiter counts as waiting from the sema_up() of the lock.
\* Only the last to join can still have the lock.
Waiting(c) ==
    LET q == cond_waiters[c]
        n == Len(q)
    IN IF q # <<>> /\ pc[q[n]] \in {"release", "up"} THEN SubSeq(q, 1, n - 1) ELSE q

OwnerOf(l) == IF \E t \in Threads : Owns(t, l)
              THEN CHOOSE t \in Threads : Owns(t, l) ELSE NULL

WokenOn(t) == IF /\ op[t] = "wait" /\ pc[t] \in {"down", "loop"}
                 /\ ~ OnList(t, cond_waiters[obj[t]])
              THEN obj[t] ELSE NULL

Owners == [l \in Locks |-> OwnerOf(l)]
Queues == [c \in Conds |-> Waiting(c)]
Returning == [t \in Threads |-> WokenOn(t)]

M == INSTANCE Monitor WITH owner <- Owners, waiting <- Queues, woken <- Returning

\* The abstract specification as a property of this one.
ImplementsMonitor == M!MSpec
=============================================================================
