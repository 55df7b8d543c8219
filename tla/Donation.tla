------------------------------ MODULE Donation ------------------------------
(***************************************************************************)
(* Locks with priority donation: pintos/src/threads/synch.c on the         *)
(* priority scheduler of pintos/src/threads/thread.c.  lock_acquire()      *)
(* raises the priority of the holder, and along lock_waiting_for of the    *)
(* holders behind it, before it waits; lock_release() takes back what the  *)
(* lock had brought.  Both do so with interrupts on.                       *)
(*                                                                         *)
(* pc[t] is the place of t.  Steps are split where the code reads what it  *)
(* acts on later or publishes a change: every test and every write of      *)
(* priority_donation(), the two halves of priority_restoration(), the      *)
(* writes of lock_release().  A preemption inside a list operation, the    *)
(* ++ and -- of a counter (one instruction) or the second half of          *)
(* priority_restoration() is left out.  Only "loop", sema_down() after its *)
(* thread_block(), has interrupts off.                                     *)
(* A thread's status follows from current and the lists.  The order of a   *)
(* lock_list is never looked at, so it is a set.                           *)
(***************************************************************************)
EXTENDS Lists

CONSTANTS
    Threads, Idle,      \* all threads; idle_thread
    Main,               \* the thread that runs first
    Locks, NULL,
    Base,               \* the priority each thread is created with
    Uses,               \* the locks each thread acquires
    NewPriorities,      \* what each thread passes to thread_set_priority()
    MAX_NESTED_LEVEL,   \* 8 in synch.c
    MaxCalls            \* bound: each thread's calls to acquire, sleep and set a priority

ASSUME DonationAssumption ==
    /\ IsFiniteSet(Threads) /\ IsFiniteSet(Locks) /\ Idle \in Threads
    /\ Main \in Threads \ {Idle}
    /\ NULL \notin Threads \union Locks
    /\ Base \in [Threads -> Nat]
    /\ Uses \in [Threads -> SUBSET Locks]
    /\ NewPriorities \in [Threads -> SUBSET Nat]
    /\ MAX_NESTED_LEVEL \in Nat \ {0} /\ MaxCalls \in [Threads -> Nat]

VARIABLES
    current, ready_list,
    priority, orig_priority, donation_nested_level, lock_list, lock_waiting_for,
    value, waiters, holder,  \* of each lock
    pc,
    lock,      \* the lock t acquires or releases
    chain, lh, \* the lock and the holder priority_donation() has come to
    arg,       \* priority_restore, or what thread_set_priority() is to set
    held,      \* the locks each caller may count on owning
    own,       \* the priority each thread was created with or last asked for
    calls,     \* how many such calls each thread has made
    stopped    \* "no", or the bad pointer the kernel has followed

schedVars == <<current, ready_list>>
threadVars == <<priority, orig_priority, donation_nested_level, lock_list>>
lockVars == <<value, waiters, holder, held>>
callVars == <<lock, chain, lh, arg>>
vars == <<schedVars, threadVars, lock_waiting_for, lockVars, pc, callVars, own,
          calls, stopped>>

Users == Threads \ {Idle}

\* sort_by_priority(), for the priorities pri.
ByPriority(pri) == [t \in Threads |-> - pri[t]]

\* list_push_back() and list_sort() of thread_unblock() and thread_yield().
Queued(rl, t) == ListSort(Append(rl, t), ByPriority(priority))

\* The other threads that Main has created are in timer_sleep().
Init ==
    /\ current = Main /\ ready_list = <<>>
    /\ priority = Base /\ orig_priority = Base /\ own = Base
    /\ donation_nested_level = [t \in Threads |-> 0]
    /\ lock_list = [t \in Threads |-> {}]
    /\ lock_waiting_for = [t \in Threads |-> NULL]
    /\ value = [l \in Locks |-> 1] /\ waiters = [l \in Locks |-> <<>>]
    /\ holder = [l \in Locks |-> NULL]
    /\ pc = [t \in Threads |-> IF t \in {Main, Idle} THEN "run" ELSE "asleep"]
    /\ lock = [t \in Threads |-> NULL] /\ chain = [t \in Threads |-> NULL]
    /\ lh = [t \in Threads |-> NULL] /\ arg = [t \in Threads |-> 0]
    /\ held = [t \in Threads |-> {}]
    /\ calls = [t \in Threads |-> 0] /\ stopped = "no"

At(t, p) == stopped = "no" /\ current = t /\ pc[t] = p
Calls(t) == /\ At(t, "run") /\ t # Idle /\ calls[t] < MaxCalls[t]
            /\ calls' = [calls EXCEPT ![t] = @ + 1]
Goto(t, p) == pc' = [pc EXCEPT ![t] = p]

-----------------------------------------------------------------------------
(* The scheduler.                                                          *)

\* schedule() with ready list rl, which it takes as it is.
Schedule(rl) ==
    IF rl = <<>> THEN current' = Idle /\ ready_list' = rl
    ELSE current' = Head(rl) /\ ready_list' = Tail(rl)

\* thread_yield() of t with ready list rl.
Yield(t, rl) == Schedule(Queued(rl, t))

\* The slice of the running thread ends, or it calls thread_yield().
Tick(t) ==
    /\ stopped = "no" /\ current = t /\ t # Idle /\ pc[t] # "loop"
    /\ Yield(t, ready_list)
    /\ UNCHANGED <<threadVars, lock_waiting_for, lockVars, pc, callVars, own, calls, stopped>>

\* timer_sleep(), as far as this module sees it: t blocks.
Sleep(t) ==
    /\ Calls(t)
    /\ Schedule(ready_list)
    /\ Goto(t, "asleep")
    /\ UNCHANGED <<threadVars, lock_waiting_for, lockVars, callVars, own, stopped>>

\* The timer interrupt unblocks t.
Wake(t) ==
    /\ stopped = "no" /\ pc[t] = "asleep" /\ pc[current] # "loop"
    /\ ready_list' = Queued(ready_list, t)
    /\ Goto(t, "run")
    /\ UNCHANGED <<current, threadVars, lock_waiting_for, lockVars, callVars, own, calls, stopped>>

\* idle() blocks again once an interrupt has ended its "hlt".
IdleBlock ==
    /\ stopped = "no" /\ current = Idle
    /\ Schedule(ready_list)
    /\ UNCHANGED <<threadVars, lock_waiting_for, lockVars, pc, callVars, own, calls, stopped>>

-----------------------------------------------------------------------------
(* lock_acquire().                                                         *)

LockAcquire(t, l) ==
    /\ Calls(t)
    /\ l \notin held[t]
    /\ lock' = [lock EXCEPT ![t] = l] /\ chain' = [chain EXCEPT ![t] = l]
    /\ Goto(t, "donate")
    /\ UNCHANGED <<schedVars, threadVars, lock_waiting_for, lockVars, lh, arg, own, stopped>>

\* priority_donation(chain[t]) reads lock->holder.
DonateRead(t) ==
    /\ At(t, "donate")
    /\ lh' = [lh EXCEPT ![t] = holder[chain[t]]]
    /\ Goto(t, IF holder[chain[t]] = NULL THEN "want" ELSE "give")
    /\ UNCHANGED <<schedVars, threadVars, lock_waiting_for, lockVars, lock, chain, arg, own, calls, stopped>>

\* lh->priority < ct->priority.
DonateTest(t) ==
    /\ At(t, "give")
    /\ Goto(t, IF priority[lh[t]] < priority[t] THEN "limit" ELSE "want")
    /\ UNCHANGED <<schedVars, threadVars, lock_waiting_for, lockVars, callVars, own, calls, stopped>>

\* The two tests of donation_nested_level, which is read once.
DonateLimit(t) ==
    LET level == donation_nested_level[lh[t]] IN
    /\ At(t, "limit")
    /\ Goto(t, IF level >= MAX_NESTED_LEVEL THEN "want" ELSE IF level = 0 THEN "save" ELSE "exist")
    /\ UNCHANGED <<schedVars, threadVars, lock_waiting_for, lockVars, callVars, own, calls, stopped>>

DonateSave(t) ==
    /\ At(t, "save")
    /\ orig_priority' = [orig_priority EXCEPT ![lh[t]] = priority[lh[t]]]
    /\ Goto(t, "exist")
    /\ UNCHANGED <<schedVars, priority, donation_nested_level, lock_list, lock_waiting_for,
                   lockVars, callVars, own, calls, stopped>>

\* list_exist(): lock->holder is read again for its lock_list.
DonateExist(t) ==
    /\ At(t, "exist")
    /\ holder[chain[t]] # NULL
    /\ Goto(t, IF chain[t] \in lock_list[holder[chain[t]]] THEN "raise" ELSE "count")
    /\ UNCHANGED <<schedVars, threadVars, lock_waiting_for, lockVars, callVars, own, calls, stopped>>

DonateCount(t) ==
    /\ At(t, "count")
    /\ donation_nested_level' = [donation_nested_level EXCEPT ![lh[t]] = @ + 1]
    /\ Goto(t, "push")
    /\ UNCHANGED <<schedVars, priority, orig_priority, lock_list, lock_waiting_for,
                   lockVars, callVars, own, calls, stopped>>

\* The elem of l is linked: into the list of a thread that held l before, or, by
\* another donor since the list_exist(), into that of the holder.  Linking it once
\* more ruins the lists.
Linked(l) == \E u \in Threads : l \in lock_list[u]

DonatePush(t) ==
    LET l == chain[t] IN
    /\ At(t, "push")
    /\ holder[l] # NULL /\ ~ Linked(l)
    /\ lock_list' = [lock_list EXCEPT ![holder[l]] = @ \union {l}]
    /\ Goto(t, "raise")
    /\ UNCHANGED <<schedVars, priority, orig_priority, donation_nested_level, lock_waiting_for,
                   lockVars, callVars, own, calls, stopped>>

\* lock->holder is NULL by now, or the elem is linked.
DonateBadPointer(t) ==
    /\ \/ /\ At(t, "exist") \/ At(t, "push")
          /\ holder[chain[t]] = NULL /\ stopped' = "null_holder"
       \/ /\ At(t, "push") /\ holder[chain[t]] # NULL
          /\ Linked(chain[t]) /\ stopped' = "relinked"
    /\ UNCHANGED <<schedVars, threadVars, lock_waiting_for, lockVars, pc, callVars, own, calls>>

DonateRaise(t) ==
    /\ At(t, "raise")
    /\ priority' = [priority EXCEPT ![lh[t]] = priority[t]]
    /\ Goto(t, "follow")
    /\ UNCHANGED <<schedVars, orig_priority, donation_nested_level, lock_list, lock_waiting_for,
                   lockVars, callVars, own, calls, stopped>>

\* The recursion along lock_waiting_for.
DonateFollow(t) ==
    LET next == lock_waiting_for[lh[t]] IN
    /\ At(t, "follow")
    /\ IF next = NULL THEN Goto(t, "want") /\ UNCHANGED chain
       ELSE Goto(t, "donate") /\ chain' = [chain EXCEPT ![t] = next]
    /\ UNCHANGED <<schedVars, threadVars, lock_waiting_for, lockVars, lock, lh, arg, own, calls, stopped>>

\* lock_waiting_for = lock, which donors of t follow from now on.
WaitFor(t) ==
    /\ At(t, "want")
    /\ lock_waiting_for' = [lock_waiting_for EXCEPT ![t] = lock[t]]
    /\ chain' = [chain EXCEPT ![t] = NULL] /\ lh' = [lh EXCEPT ![t] = NULL]
    /\ Goto(t, "down")
    /\ UNCHANGED <<schedVars, threadVars, lockVars, lock, arg, own, calls, stopped>>

\* sema_down(): the unit is taken, and t no longer waits.
DownTakes(t) ==
    /\ value[lock[t]] > 0
    /\ value' = [value EXCEPT ![lock[t]] = @ - 1]
    /\ lock_waiting_for' = [lock_waiting_for EXCEPT ![t] = NULL]
    /\ Goto(t, "holder")
    /\ UNCHANGED <<waiters, schedVars>>

\* sema_down(): t joins the waiters, which are sorted, and blocks; the ready list
\* is not sorted again.
DownBlocks(t) ==
    /\ value[lock[t]] = 0
    /\ waiters' = [waiters EXCEPT ![lock[t]] =
                     ListSort(Append(@, t), ByPriority(priority))]
    /\ Schedule(ready_list)
    /\ Goto(t, "loop")
    /\ UNCHANGED <<value, lock_waiting_for>>

\* A mutant: `if' for `while'.
DownIf(t) ==
    /\ \/ At(t, "down") /\ (DownTakes(t) \/ DownBlocks(t))
       \/ /\ At(t, "loop")
          /\ value' = [value EXCEPT ![lock[t]] = IF @ = 0 THEN 0 ELSE @ - 1]
          /\ lock_waiting_for' = [lock_waiting_for EXCEPT ![t] = NULL]
          /\ Goto(t, "holder")
          /\ UNCHANGED <<waiters, schedVars>>
    /\ UNCHANGED <<threadVars, holder, held, callVars, own, calls, stopped>>

Down(t) ==
    /\ At(t, "down") \/ At(t, "loop")
    /\ DownTakes(t) \/ DownBlocks(t)
    /\ UNCHANGED <<threadVars, holder, held, callVars, own, calls, stopped>>

SetHolder(t) ==
    /\ At(t, "holder")
    /\ holder' = [holder EXCEPT ![lock[t]] = t]
    /\ held' = [held EXCEPT ![t] = @ \union {lock[t]}]
    /\ lock' = [lock EXCEPT ![t] = NULL]
    /\ Goto(t, "run")
    /\ UNCHANGED <<schedVars, threadVars, lock_waiting_for, value, waiters, chain, lh, arg, own, calls, stopped>>

\* lock_try_acquire(l) when its sema_try_down() succeeds.
LockTryAcquire(t, l) ==
    /\ Calls(t)
    /\ l \notin held[t] /\ value[l] > 0
    /\ value' = [value EXCEPT ![l] = @ - 1]
    /\ lock' = [lock EXCEPT ![t] = l]
    /\ Goto(t, "holder")
    /\ UNCHANGED <<schedVars, threadVars, lock_waiting_for, waiters, holder, held, chain, lh, arg, own, stopped>>

-----------------------------------------------------------------------------
(* lock_release().                                                         *)

LockRelease(t, l) ==
    /\ At(t, "run")
    /\ l \in held[t]
    /\ held' = [held EXCEPT ![t] = @ \ {l}]
    /\ lock' = [lock EXCEPT ![t] = l]
    /\ Goto(t, "restore")
    /\ UNCHANGED <<schedVars, threadVars, lock_waiting_for, value, waiters, holder, chain, lh, arg, own, calls, stopped>>

\* Whether priority_restoration() finds a donation that came with this lock.
Donated(t) == donation_nested_level[t] # 0 /\ lock[t] \in lock_list[t]

\* priority_restoration() up to the decrement; it returns -1 when this lock brought
\* no donation.
RestoreCheck(t) ==
    /\ At(t, "restore")
    /\ IF Donated(t)
       THEN /\ donation_nested_level' = [donation_nested_level EXCEPT ![t] = @ - 1]
            /\ Goto(t, "match")
            /\ UNCHANGED arg
       ELSE /\ arg' = [arg EXCEPT ![t] = -1]
            /\ Goto(t, "clear")
            /\ UNCHANGED donation_nested_level
    /\ UNCHANGED <<schedVars, priority, orig_priority, lock_list, lock_waiting_for,
                   lockVars, lock, chain, lh, own, calls, stopped>>

\* Whether the first waiter has the priority t runs with.  With no waiter yet (a
\* donor comes before it waits) the end of the list is read as a thread.
FirstWaiterMatches(t) ==
    IF waiters[lock[t]] = <<>> THEN BOOLEAN
    ELSE {priority[Head(waiters[lock[t]])] = priority[t]}

\* The highest priority of the first waiters of the locks in ll, at least 0.
BestDonor(ll) ==
    LET pris == {priority[Head(waiters[l])] : l \in {k \in ll : waiters[k] # <<>>}}
    IN CHOOSE p \in pris \union {0} : \A q \in pris : q <= p

\* The rest of priority_restoration().
RestoreMatch(t) ==
    /\ At(t, "match")
    /\ \E same \in FirstWaiterMatches(t) :
          LET ll == IF same THEN lock_list[t] \ {lock[t]} ELSE lock_list[t] IN
          /\ lock_list' = [lock_list EXCEPT ![t] = ll]
          /\ arg' = [arg EXCEPT ![t] = IF ~ same THEN priority[t]
                                       ELSE IF donation_nested_level[t] = 0
                                       THEN orig_priority[t] ELSE BestDonor(ll)]
    /\ Goto(t, "clear")
    /\ UNCHANGED <<schedVars, priority, orig_priority, donation_nested_level,
                   lock_waiting_for, lockVars, lock, chain, lh, own, calls, stopped>>

\* lock->holder = NULL.
ClearHolder(t) ==
    /\ At(t, "clear")
    /\ holder' = [holder EXCEPT ![lock[t]] = NULL]
    /\ Goto(t, "lower")
    /\ UNCHANGED <<schedVars, threadVars, lock_waiting_for, value, waiters, held, callVars, own, calls, stopped>>

\* priority = priority_restore, unless that is -1.
Lower(t) ==
    /\ At(t, "lower")
    /\ priority' = [priority EXCEPT ![t] = IF arg[t] >= 0 THEN arg[t] ELSE @]
    /\ arg' = [arg EXCEPT ![t] = 0]
    /\ Goto(t, "up")
    /\ UNCHANGED <<schedVars, orig_priority, donation_nested_level, lock_list,
                   lock_waiting_for, lockVars, lock, chain, lh, own, calls, stopped>>

\* The waiters as sema_up() takes the first of them: sorted once more, since
\* donations may have changed their order.  The mutant takes them as they are.
SortedWaitersStale(l) == waiters[l]
SortedWaiters(l) == ListSort(waiters[l], ByPriority(priority))

\* sema_up().  With no waiter wt is not initialised, and t may yield or not.
Up(t) ==
    LET l == lock[t] IN
    /\ value' = [value EXCEPT ![l] = @ + 1]
    /\ IF waiters[l] = <<>>
       THEN /\ Yield(t, ready_list) \/ UNCHANGED schedVars
            /\ UNCHANGED waiters
       ELSE LET w == SortedWaiters(l)
                wt == Head(w)
                rl == Queued(ready_list, wt)
            IN /\ waiters' = [waiters EXCEPT ![l] = Tail(w)]
               /\ IF priority[wt] > priority[t] THEN Yield(t, rl)
                  ELSE ready_list' = rl /\ UNCHANGED current

ReleaseUp(t) ==
    /\ At(t, "up")
    /\ Up(t)
    /\ lock' = [lock EXCEPT ![t] = NULL]
    /\ Goto(t, "run")
    /\ UNCHANGED <<threadVars, lock_waiting_for, holder, held, chain, lh, arg, own, calls, stopped>>

-----------------------------------------------------------------------------
(* thread_set_priority().                                                  *)

\* The test of donation_nested_level.
SetPriority(t, p) ==
    /\ Calls(t)
    /\ own' = [own EXCEPT ![t] = p]
    /\ arg' = [arg EXCEPT ![t] = p]
    /\ Goto(t, IF donation_nested_level[t] = 0 THEN "set" ELSE "set_orig")
    /\ UNCHANGED <<schedVars, threadVars, lock_waiting_for, lockVars, lock, chain, lh, stopped>>

SetCurrent(t) ==
    /\ At(t, "set")
    /\ priority' = [priority EXCEPT ![t] = arg[t]]
    /\ Goto(t, "set_orig")
    /\ UNCHANGED <<schedVars, orig_priority, donation_nested_level, lock_list,
                   lock_waiting_for, lockVars, callVars, own, calls, stopped>>

\* Whether p is below the priority of the first ready thread; the end of the list is
\* read as a thread when it is empty.
BelowFirstReady(p) ==
    IF ready_list = <<>> THEN BOOLEAN ELSE {p < priority[Head(ready_list)]}

\* The assignment to orig_priority and the yield.
SetOriginal(t) ==
    /\ At(t, "set_orig")
    /\ orig_priority' = [orig_priority EXCEPT ![t] = arg[t]]
    /\ \E below \in BelowFirstReady(arg[t]) :
          IF below THEN Yield(t, ready_list) ELSE UNCHANGED schedVars
    /\ arg' = [arg EXCEPT ![t] = 0]
    /\ Goto(t, "run")
    /\ UNCHANGED <<priority, donation_nested_level, lock_list, lock_waiting_for,
                   lockVars, lock, chain, lh, own, calls, stopped>>

-----------------------------------------------------------------------------
\* The kernel has followed a bad pointer; what it does then is not modelled.
Stopped == stopped # "no" /\ UNCHANGED vars

Next ==
    \/ \E t \in Threads :
          \/ Tick(t) \/ Sleep(t) \/ Wake(t)
          \/ \E l \in Uses[t] : LockAcquire(t, l) \/ LockTryAcquire(t, l) \/ LockRelease(t, l)
          \/ DonateRead(t) \/ DonateTest(t) \/ DonateLimit(t) \/ DonateSave(t) \/ DonateExist(t)
          \/ DonateCount(t) \/ DonatePush(t) \/ DonateBadPointer(t) \/ DonateRaise(t) \/ DonateFollow(t)
          \/ WaitFor(t) \/ Down(t) \/ SetHolder(t)
          \/ RestoreCheck(t) \/ RestoreMatch(t) \/ ClearHolder(t) \/ Lower(t) \/ ReleaseUp(t)
          \/ \E p \in NewPriorities[t] : SetPriority(t, p)
          \/ SetCurrent(t) \/ SetOriginal(t)
    \/ IdleBlock
    \/ Stopped

Spec == Init /\ [][Next]_vars

-----------------------------------------------------------------------------
\* The variables keep to their types; in particular donation_nested_level, which
\* races with donors, does not drop below zero.
TypeOK ==
    /\ current \in Threads /\ ready_list \in Seq(Users)
    /\ priority \in [Threads -> Nat] /\ orig_priority \in [Threads -> Nat]
    /\ donation_nested_level \in [Threads -> Nat]
    /\ lock_list \in [Threads -> SUBSET Locks]
    /\ lock_waiting_for \in [Threads -> Locks \union {NULL}]
    /\ value \in [Locks -> 0 .. 1] /\ waiters \in [Locks -> Seq(Users)]
    /\ holder \in [Locks -> Users \union {NULL}]
    /\ pc \in [Threads -> {"run", "asleep", "donate", "give", "limit", "save", "exist", "count",
                           "push", "raise", "follow", "want", "down", "loop", "holder",
                           "restore", "match", "clear", "lower", "up", "set", "set_orig"}]
    /\ lock \in [Threads -> Locks \union {NULL}]
    /\ chain \in [Threads -> Locks \union {NULL}]
    /\ lh \in [Threads -> Users \union {NULL}]
    /\ arg \in [Threads -> Nat \union {-1}]
    /\ held \in [Threads -> SUBSET Locks]
    /\ own \in [Threads -> Nat] /\ calls \in [Threads -> Nat]
    /\ stopped \in {"no", "null_holder", "relinked"}

Owns(t, l) == \/ l \in held[t]
              \/ lock[t] = l /\ pc[t] \in {"holder", "restore", "match", "clear", "lower", "up"}

\* sema_down() and sema_up() with sorted waiters and the yield in between: a lock
\* has at most one owner, and its value is 1 exactly while it has none.
MutualExclusion ==
    \A l \in Locks :
        /\ \A t, u \in Users : Owns(t, l) /\ Owns(u, l) => t = u
        /\ value[l] = 1 <=> \A t \in Users : ~ Owns(t, l)

\* sema_up(): while a lock is free and threads sleep on it, one that was woken for it
\* is still to look at it.
NoLostWakeup ==
    \A l \in Locks :
        value[l] > 0 /\ waiters[l] # <<>> =>
            \E t \in Users : pc[t] = "loop" /\ lock[t] = l /\ ~ OnList(t, waiters[l])

\* lock_waiting_for, which a donor follows from the holder of one lock to the holder
\* of the next: a thread names a lock there exactly while it is in the sema_down()
\* of that lock, so donations reach no thread through a lock already acquired.
WaitingForIsTrue ==
    \A t \in Users :
        /\ lock_waiting_for[t] # NULL <=> pc[t] \in {"down", "loop"}
        /\ lock_waiting_for[t] # NULL => lock_waiting_for[t] = lock[t]

\* priority_donation(): donors that find a thread below MAX_NESTED_LEVEL at once all
\* count, so that its level passes the limit, but by no more than one for each other
\* thread that can be between the test and the count.
LevelLimited ==
    \A d \in Threads : donation_nested_level[d] <= MAX_NESTED_LEVEL - 1 + Cardinality(Users \ {d})

\* lock_acquire() and lock_release() around donation and its yields: TypeOK,
\* MutualExclusion, NoLostWakeup, WaitingForIsTrue and LevelLimited.
LocksSound == TypeOK /\ MutualExclusion /\ NoLostWakeup /\ WaitingForIsTrue /\ LevelLimited

\* sema_up(): whoever is woken, no thread that goes on waiting for the lock has a
\* higher priority, whatever was donated to the waiters since they queued.
WakesHighest ==
    [][\A l \in Locks, t \in Users :
          OnList(t, waiters[l]) /\ ~ OnList(t, waiters'[l]) =>
              \A i \in DOMAIN waiters'[l] : priority[waiters'[l][i]] <= priority[t]]_vars

\* thread_yield(): when a thread gives up the CPU and stays ready, no thread left on
\* the ready list has a higher priority than the one that runs next, also after
\* donations to threads on that list.
YieldRunsHighest ==
    [][current # Idle /\ OnList(current, ready_list') =>
          \A i \in DOMAIN ready_list' : priority[ready_list'[i]] <= priority[current']]_vars

\* Donation changes the keys of lists that are already sorted; whoever is chosen, by
\* sema_up() or by a yield, is of the highest priority: WakesHighest, YieldRunsHighest.
HighestRuns == WakesHighest /\ YieldRunsHighest

\* tests/threads/priority-donate-multiple2.c: "The main thread releases the locks in
\* turn and relinquishes its donated priorities": a thread that owns no lock runs
\* with its own priority.
RestoredWhenFree ==
    \A t \in Users :
        pc[t] = "run" /\ held[t] = {} /\ stopped = "no" => priority[t] = own[t]
=============================================================================
