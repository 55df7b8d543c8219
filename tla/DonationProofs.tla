--------------------------- MODULE DonationProofs ---------------------------
(***************************************************************************)
(* Proofs about Donation: locks exclude, no wakeup is lost and the highest *)
(* priority is chosen, for any number of threads and locks, all priorities *)
(* and whatever donations change while threads are queued.                 *)
(***************************************************************************)
EXTENDS Donation, FiniteSetTheorems

Places == {"run", "asleep", "donate", "give", "limit", "save", "exist", "count", "push", "raise",
           "follow", "want", "down", "loop", "holder", "restore", "match", "clear", "lower", "up",
           "set", "set_orig"}
Donating == {"give", "limit", "save", "exist", "count", "push", "raise", "follow"}
Counting == {"save", "exist", "count"}     \* the level has been tested, not yet counted
Releasing == {"restore", "match", "clear", "lower", "up"}
LockPlaces == {"donate", "want", "down", "loop", "holder"} \union Donating \union Releasing

\* What a thread at some place of lock_acquire() or lock_release() has in its locals,
\* and what it has written to lock_waiting_for.
PlaceOf(t) ==
    /\ pc[t] \in LockPlaces => lock[t] \in Locks
    /\ pc[t] \in {"donate"} \union Donating => chain[t] \in Locks
    /\ pc[t] \in Donating => lh[t] \in Users
    /\ pc[t] \in {"limit"} \union Counting => lh[t] # t
    /\ pc[t] \in Releasing => lock[t] \notin held[t]
    /\ pc[t] \in {"set", "set_orig"} => arg[t] \in Nat
    /\ lock_waiting_for[t] # NULL <=> pc[t] \in {"down", "loop"}
    /\ lock_waiting_for[t] # NULL => lock_waiting_for[t] = lock[t]
PlaceInv ==
    /\ pc[Idle] = "run" /\ held[Idle] = {}
    /\ \A t \in Users : PlaceOf(t)

\* A thread that sleeps on a lock is in the sema_down() of that lock.
WaitersInv ==
    /\ waiters \in [Locks -> Seq(Users)]
    /\ \A l \in Locks :
          /\ NoTwice(waiters[l])
          /\ \A t \in Users : OnList(t, waiters[l]) => pc[t] = "loop" /\ lock[t] = l

\* A thread that runs or is ready sleeps neither on a lock nor on the timer.
Awake(t) == pc[t] # "asleep" /\ \A l \in Locks : ~ OnList(t, waiters[l])
QueueInv ==
    /\ current \in Threads /\ ready_list \in Seq(Users) /\ NoTwice(ready_list)
    /\ ~ OnList(current, ready_list)
    /\ Awake(current)
    /\ \A t \in Users : OnList(t, ready_list) => Awake(t)

DonationInv ==
    TypeOK /\ PlaceInv /\ WaitersInv /\ QueueInv /\ MutualExclusion /\ NoLostWakeup

\* The donors that are still to count what they give to d belong to its level.
Pending(d) == {t \in Users \ {d} : pc[t] \in Counting /\ lh[t] = d}
LevelInv ==
    \A d \in Threads : donation_nested_level[d] + Cardinality(Pending(d))
                          <= MAX_NESTED_LEVEL - 1 + Cardinality(Users \ {d})

-----------------------------------------------------------------------------
(* What a step of one thread leaves alone.                                 *)

\* Thread t, which runs or is woken by the timer, is the only one whose place and
\* locals change.
Moves(t) ==
    /\ t \in Users /\ (t = current \/ pc[t] = "asleep")
    /\ \A u \in Threads : u # t =>
          /\ pc'[u] = pc[u] /\ lock'[u] = lock[u] /\ chain'[u] = chain[u] /\ lh'[u] = lh[u]
          /\ held'[u] = held[u] /\ lock_waiting_for'[u] = lock_waiting_for[u]
          /\ arg'[u] = arg[u]

WakesNow ==
    \A l \in Locks, t \in Users :
        OnList(t, waiters[l]) /\ ~ OnList(t, waiters'[l]) =>
            \A i \in DOMAIN waiters'[l] : priority[waiters'[l][i]] <= priority[t]
YieldsNow ==
    current # Idle /\ OnList(current, ready_list') =>
        \A i \in DOMAIN ready_list' : priority[ready_list'[i]] <= priority[current']
StepHolds == DonationInv' /\ WakesNow /\ YieldsNow

\* The idle thread is a thread and no user of locks.
LEMMA ThreadSets == Users \subseteq Threads /\ Idle \in Threads /\ Idle \notin Users
BY DonationAssumption DEF Users

\* The thread that moves sleeps on no lock.
LEMMA MoverFree ==
    ASSUME DonationInv, NEW t, Moves(t)
    PROVE  \A l \in Locks : ~ OnList(t, waiters[l])
<1>1. CASE t = current  BY <1>1 DEF DonationInv, QueueInv, Awake
<1>2. CASE pc[t] = "asleep"
  BY <1>2 DEF DonationInv, WaitersInv, Moves
<1> QED BY <1>1, <1>2 DEF Moves

\* The places of the threads that do not move stay right.
LEMMA PlacesKept ==
    ASSUME DonationInv, NEW t, Moves(t), PlaceOf(t)'
    PROVE  PlaceInv'
<1>1. pc'[Idle] = "run" /\ held'[Idle] = {}
  BY ThreadSets DEF DonationInv, PlaceInv, Moves
<1>2. ASSUME NEW u \in Users, u # t PROVE PlaceOf(u)'
  <2>1. /\ pc'[u] = pc[u] /\ lock'[u] = lock[u] /\ chain'[u] = chain[u] /\ lh'[u] = lh[u]
        /\ held'[u] = held[u] /\ lock_waiting_for'[u] = lock_waiting_for[u]
        /\ arg'[u] = arg[u]
    BY <1>2, ThreadSets DEF Moves
  <2>2. PlaceOf(u)  BY DEF DonationInv, PlaceInv
  <2> QED BY <2>1, <2>2 DEF PlaceOf
<1> QED BY <1>1, <1>2 DEF PlaceInv

\* The waiters stay right while their lists do.
LEMMA WaitersKept ==
    ASSUME DonationInv, NEW t, Moves(t), UNCHANGED waiters
    PROVE  WaitersInv'
<1>1. \A l \in Locks : ~ OnList(t, waiters[l])  BY MoverFree
<1>2. \A l \in Locks : \A u \in Users : OnList(u, waiters'[l]) => pc'[u] = "loop" /\ lock'[u] = l
  BY <1>1, ThreadSets DEF DonationInv, WaitersInv, Moves
<1> QED BY <1>2 DEF DonationInv, WaitersInv

\* The ready list stays right while the lists do.
LEMMA QueueKept ==
    ASSUME DonationInv, NEW t, Moves(t), UNCHANGED <<current, ready_list, waiters>>,
           pc'[t] # "asleep"
    PROVE  QueueInv'
<1>1. \A u \in Threads : u # t => (Awake(u) => Awake(u)')  BY DEF Moves, Awake
<1>2. \A l \in Locks : ~ OnList(t, waiters[l])  BY MoverFree
<1>3. Awake(t)'  BY <1>2 DEF Awake
<1>4. Awake(current)'  BY <1>1, <1>3 DEF DonationInv, QueueInv
<1>5. \A u \in Users : OnList(u, ready_list') => Awake(u)'
  BY <1>1, <1>3, ThreadSets DEF DonationInv, QueueInv
<1> QED BY <1>4, <1>5 DEF DonationInv, QueueInv

\* The threads that do not move own what they owned.
LEMMA OthersOwn ==
    ASSUME NEW t, Moves(t)
    PROVE  \A u \in Users, l \in Locks : u # t => (Owns(u, l)' <=> Owns(u, l))
BY ThreadSets DEF Moves, Owns

\* Locks exclude while nobody takes or gives back a unit.
LEMMA ExclusionKept ==
    ASSUME DonationInv, NEW t, Moves(t), UNCHANGED value,
           \A l \in Locks : Owns(t, l)' <=> Owns(t, l)
    PROVE  MutualExclusion'
<1>1. \A u \in Users, l \in Locks : Owns(u, l)' <=> Owns(u, l)  BY OthersOwn
<1> QED BY <1>1 DEF DonationInv, MutualExclusion

\* No wakeup is lost while units and waiters stay.
LEMMA WakeupKept ==
    ASSUME DonationInv, NEW t, Moves(t), UNCHANGED <<value, waiters>>, pc[t] # "loop"
    PROVE  NoLostWakeup'
<1>1. \A u \in Users : pc[u] = "loop" => pc'[u] = pc[u] /\ lock'[u] = lock[u]
  BY ThreadSets DEF Moves
<1> QED BY <1>1 DEF DonationInv, NoLostWakeup

\* A step that moves no lock.
LEMMA LocksKept ==
    ASSUME DonationInv, NEW t, Moves(t), PlaceOf(t)', UNCHANGED <<value, waiters>>,
           pc[t] # "loop", \A l \in Locks : Owns(t, l)' <=> Owns(t, l)
    PROVE  PlaceInv' /\ WaitersInv' /\ MutualExclusion' /\ NoLostWakeup' /\ WakesNow
<1>1. WakesNow  BY DEF WakesNow
<1> QED BY <1>1, PlacesKept, WaitersKept, ExclusionKept, WakeupKept

\* A step that moves no queue either.
LEMMA QuietStep ==
    ASSUME DonationInv, NEW t, Moves(t), TypeOK', PlaceOf(t)',
           UNCHANGED <<current, ready_list, value, waiters>>,
           pc[t] # "loop", pc'[t] # "asleep",
           \A l \in Locks : Owns(t, l)' <=> Owns(t, l)
    PROVE  StepHolds
<1>1. PlaceInv' /\ WaitersInv' /\ MutualExclusion' /\ NoLostWakeup' /\ WakesNow
  BY LocksKept
<1>2. QueueInv'  BY QueueKept
<1>3. YieldsNow  BY DEF YieldsNow, DonationInv, QueueInv
<1> QED BY <1>1, <1>2, <1>3 DEF StepHolds, DonationInv

-----------------------------------------------------------------------------
(* lock_acquire() up to sema_down().                                       *)

\* The beginning of lock_acquire().
LEMMA LockAcquireStep ==
    ASSUME DonationInv, NEW t \in Threads, NEW l \in Locks, LockAcquire(t, l)
    PROVE  StepHolds
<1>1. /\ current = t /\ pc[t] = "run" /\ t \in Users /\ calls' = [calls EXCEPT ![t] = @ + 1]
      /\ lock' = [lock EXCEPT ![t] = l] /\ chain' = [chain EXCEPT ![t] = l]
      /\ pc' = [pc EXCEPT ![t] = "donate"]
      /\ UNCHANGED <<schedVars, threadVars, lock_waiting_for, lockVars, lh, arg, own, stopped>>
  BY DEF LockAcquire, Calls, At, Goto, Users
<1>2. TypeOK  BY DEF DonationInv
<1>3. /\ pc'[t] = "donate" /\ lock'[t] = l /\ chain'[t] = l
      /\ \A u \in Threads : u # t => pc'[u] = pc[u] /\ lock'[u] = lock[u] /\ chain'[u] = chain[u]
  BY <1>1, <1>2 DEF TypeOK
<1>4. Moves(t)  BY <1>1, <1>3 DEF Moves, lockVars
<1>5. TypeOK'
  <2>1. calls' \in [Threads -> Nat]  BY <1>1, <1>2 DEF TypeOK
  <2>2. pc' \in [Threads -> Places]  BY <1>1, <1>2 DEF TypeOK, Places
  <2>3. lock' \in [Threads -> Locks \union {NULL}] /\ chain' \in [Threads -> Locks \union {NULL}]
    BY <1>1, <1>2 DEF TypeOK
  <2> QED BY <1>1, <1>2, <2>1, <2>2, <2>3
      DEF TypeOK, Places, schedVars, threadVars, lockVars
<1>6. PlaceOf(t)'
  BY <1>1, <1>3 DEF DonationInv, PlaceInv, PlaceOf, LockPlaces, Donating, Counting, Releasing
<1>7. \A k \in Locks : Owns(t, k)' <=> Owns(t, k)  BY <1>1, <1>3 DEF Owns, lockVars
<1> QED BY <1>1, <1>3, <1>4, <1>5, <1>6, <1>7, QuietStep DEF schedVars, lockVars

\* priority_donation() reading lock->holder.
LEMMA DonateReadStep ==
    ASSUME DonationInv, NEW t \in Threads, DonateRead(t)
    PROVE  StepHolds
<1>1. PICK h, to : h = holder[chain[t]] /\ to = IF h = NULL THEN "want" ELSE "give"  OBVIOUS
<1>2. /\ current = t /\ pc[t] = "donate" /\ lh' = [lh EXCEPT ![t] = h]
      /\ pc' = [pc EXCEPT ![t] = to]
      /\ UNCHANGED <<schedVars, threadVars, lock_waiting_for, lockVars, lock, chain, arg,
                     own, calls, stopped>>
  BY <1>1 DEF DonateRead, At, Goto
<1>3. TypeOK /\ PlaceInv  BY DEF DonationInv
<1>4. t \in Users /\ PlaceOf(t) /\ chain[t] \in Locks /\ h \in Users \union {NULL}
  BY <1>1, <1>2, <1>3 DEF PlaceInv, PlaceOf, TypeOK, Users
<1>5. /\ pc'[t] = to /\ lh'[t] = h
      /\ \A u \in Threads : u # t => pc'[u] = pc[u] /\ lh'[u] = lh[u]
  BY <1>2, <1>3 DEF TypeOK
<1>6. Moves(t)  BY <1>2, <1>4, <1>5 DEF Moves, lockVars
<1>7. TypeOK'
  <2>1. pc' \in [Threads -> Places]  BY <1>1, <1>2, <1>3 DEF TypeOK, Places
  <2>2. lh' \in [Threads -> Users \union {NULL}]  BY <1>2, <1>3, <1>4 DEF TypeOK
  <2> QED BY <1>2, <1>3, <2>1, <2>2 DEF TypeOK, Places, schedVars, threadVars, lockVars
<1>8. PlaceOf(t)'
  BY <1>1, <1>2, <1>4, <1>5 DEF PlaceOf, LockPlaces, Donating, Counting, Releasing, lockVars
<1>9. \A k \in Locks : Owns(t, k)' <=> Owns(t, k)
  BY <1>1, <1>2, <1>5 DEF Owns, lockVars
<1> QED BY <1>1, <1>2, <1>5, <1>6, <1>7, <1>8, <1>9, QuietStep DEF schedVars, lockVars

\* Only stopped changes.
LEMMA DonateBadPointerStep ==
    ASSUME DonationInv, NEW t \in Threads, DonateBadPointer(t)
    PROVE  StepHolds
<1>1. /\ current = t /\ pc[t] \in {"exist", "push"} /\ stopped' \in {"null_holder", "relinked"}
      /\ UNCHANGED <<schedVars, threadVars, lock_waiting_for, lockVars, pc, callVars, own, calls>>
  BY DEF DonateBadPointer, At
<1>2. TypeOK /\ PlaceInv  BY DEF DonationInv
<1>3. t \in Users /\ PlaceOf(t)  BY <1>1, <1>2 DEF PlaceInv, Users
<1>4. Moves(t)  BY <1>1, <1>3 DEF Moves, lockVars, callVars
<1>5. TypeOK'  BY <1>1, <1>2 DEF TypeOK, schedVars, threadVars, lockVars, callVars
<1>6. PlaceOf(t)'  BY <1>1, <1>3 DEF PlaceOf, LockPlaces, Donating, Counting, Releasing, lockVars, callVars
<1>7. \A k \in Locks : Owns(t, k)' <=> Owns(t, k)  BY <1>1 DEF Owns, lockVars, callVars
<1> QED BY <1>1, <1>4, <1>5, <1>6, <1>7, QuietStep DEF schedVars, lockVars

\* A step of priority_donation() changes priorities and counts of another thread, and
\* nothing that the locks depend on.
LEMMA DonatingStep ==
    ASSUME DonationInv, NEW t \in Threads, NEW to \in Donating \union {"want"}, At(t, pc[t]), pc[t] \in Donating,
           Goto(t, to), to \in {"limit"} \union Counting => lh[t] # t,
           priority' \in [Threads -> Nat], orig_priority' \in [Threads -> Nat],
           donation_nested_level' \in [Threads -> Nat], lock_list' \in [Threads -> SUBSET Locks],
           UNCHANGED <<schedVars, lock_waiting_for, lockVars, callVars, own, calls, stopped>>
    PROVE  StepHolds
<1>1. current = t /\ pc' = [pc EXCEPT ![t] = to]  BY DEF At, Goto
<1>2. TypeOK /\ PlaceInv  BY DEF DonationInv
<1>3. t \in Users /\ PlaceOf(t)  BY <1>1, <1>2 DEF PlaceInv, Users, Donating
<1>4. pc'[t] = to /\ \A u \in Threads : u # t => pc'[u] = pc[u]  BY <1>1, <1>2 DEF TypeOK
<1>5. Moves(t)  BY <1>1, <1>3, <1>4 DEF Moves, lockVars, callVars
<1>6. TypeOK'
  <2>1. pc' \in [Threads -> Places]  BY <1>1, <1>2 DEF TypeOK, Places, Donating
  <2> QED BY <1>1, <1>2, <2>1 DEF TypeOK, Places, schedVars, lockVars, callVars
<1>7. PlaceOf(t)'
  BY <1>1, <1>3, <1>4 DEF PlaceOf, LockPlaces, Donating, Counting, Releasing, lockVars, callVars
<1>8. \A k \in Locks : Owns(t, k)' <=> Owns(t, k)  BY <1>1, <1>4 DEF Owns, Donating, lockVars, callVars
<1>9. pc[t] # "loop" /\ pc'[t] # "asleep"  BY <1>4 DEF Donating
<1> QED BY <1>1, <1>4, <1>5, <1>6, <1>7, <1>8, <1>9, QuietStep DEF schedVars, lockVars

\* The holder whose place a donor works on.
LEMMA Holder ==
    ASSUME DonationInv, NEW t \in Threads, At(t, pc[t]), pc[t] \in Donating
    PROVE  /\ TypeOK /\ t \in Users /\ lh[t] \in Users /\ lh[t] \in Threads /\ chain[t] \in Locks
           /\ pc[t] \in {"limit"} \union Counting => lh[t] # t
<1>1. TypeOK /\ PlaceInv  BY DEF DonationInv
<1>2. t \in Users /\ PlaceOf(t)  BY <1>1 DEF PlaceInv, Users, Donating
<1> QED BY <1>1, <1>2, ThreadSets DEF PlaceOf

\* The tests of priority_donation().
LEMMA DonateTestStep ==
    ASSUME DonationInv, NEW t \in Threads, DonateTest(t) \/ DonateLimit(t) \/ DonateExist(t)
    PROVE  StepHolds
<1>1. /\ At(t, pc[t]) /\ pc[t] \in Donating
      /\ UNCHANGED <<schedVars, threadVars, lock_waiting_for, lockVars, callVars, own, calls, stopped>>
  BY DEF DonateTest, DonateLimit, DonateExist, At, Donating
<1>2. TypeOK /\ lh[t] \in Threads /\ (pc[t] \in {"limit"} \union Counting => lh[t] # t)  BY <1>1, Holder
<1>3. ASSUME DonateTest(t) PROVE Goto(t, "want") \/ (Goto(t, "limit") /\ lh[t] # t)
  <2>1. CASE priority[lh[t]] < priority[t]
    <3>1. lh[t] # t  BY <1>2, <2>1 DEF TypeOK
    <3> QED BY <1>3, <2>1, <3>1 DEF DonateTest
  <2> QED BY <1>3, <2>1 DEF DonateTest
<1>4. ASSUME DonateLimit(t) PROVE Goto(t, "want") \/ ((Goto(t, "save") \/ Goto(t, "exist")) /\ lh[t] # t)
  BY <1>2, <1>4 DEF DonateLimit, At
<1>5. ASSUME DonateExist(t) PROVE Goto(t, "raise") \/ (Goto(t, "count") /\ lh[t] # t)
  BY <1>2, <1>5 DEF DonateExist, At, Counting
<1>6. PICK to \in Donating \union {"want"} : Goto(t, to) /\ (to \in {"limit"} \union Counting => lh[t] # t)
  BY <1>3, <1>4, <1>5 DEF Donating, Counting
<1>7. /\ priority' \in [Threads -> Nat] /\ orig_priority' \in [Threads -> Nat]
      /\ donation_nested_level' \in [Threads -> Nat] /\ lock_list' \in [Threads -> SUBSET Locks]
  BY <1>1, <1>2 DEF TypeOK, threadVars
<1> QED BY <1>1, <1>6, <1>7, DonatingStep

\* Its writes.
LEMMA DonateSaveStep ==
    ASSUME DonationInv, NEW t \in Threads, DonateSave(t)
    PROVE  StepHolds
<1>1. /\ At(t, pc[t]) /\ pc[t] \in Donating /\ pc[t] \in Counting /\ Goto(t, "exist")
      /\ orig_priority' = [orig_priority EXCEPT ![lh[t]] = priority[lh[t]]]
      /\ UNCHANGED <<schedVars, priority, donation_nested_level, lock_list, lock_waiting_for,
                     lockVars, callVars, own, calls, stopped>>
  BY DEF DonateSave, At, Donating, Counting
<1>2. TypeOK /\ lh[t] \in Threads /\ lh[t] # t  BY <1>1, Holder
<1>3. orig_priority' \in [Threads -> Nat]  BY <1>1, <1>2 DEF TypeOK
<1>4. "exist" \in Donating \union {"want"}  BY DEF Donating
<1> QED BY <1>1, <1>2, <1>3, <1>4, DonatingStep DEF TypeOK
LEMMA DonateCountStep ==
    ASSUME DonationInv, NEW t \in Threads, DonateCount(t)
    PROVE  StepHolds
<1>1. /\ At(t, pc[t]) /\ pc[t] \in Donating /\ Goto(t, "push")
      /\ donation_nested_level' = [donation_nested_level EXCEPT ![lh[t]] = @ + 1]
      /\ UNCHANGED <<schedVars, priority, orig_priority, lock_list, lock_waiting_for,
                     lockVars, callVars, own, calls, stopped>>
  BY DEF DonateCount, At, Donating
<1>2. TypeOK /\ lh[t] \in Threads  BY <1>1, Holder
<1>3. donation_nested_level' \in [Threads -> Nat]
  <2>1. donation_nested_level \in [Threads -> Nat]  BY <1>2 DEF TypeOK
  <2>2. \A n \in Nat : n + 1 \in Nat  OBVIOUS
  <2> QED BY <1>1, <1>2, <2>1, <2>2
<1>4. "push" \in Donating \union {"want"} /\ "push" \notin {"limit"} \union Counting  BY DEF Donating, Counting
<1> QED BY <1>1, <1>2, <1>3, <1>4, DonatingStep DEF TypeOK
LEMMA DonatePushStep ==
    ASSUME DonationInv, NEW t \in Threads, DonatePush(t)
    PROVE  StepHolds
<1>1. /\ At(t, pc[t]) /\ pc[t] \in Donating /\ Goto(t, "raise") /\ holder[chain[t]] # NULL
      /\ lock_list' = [lock_list EXCEPT ![holder[chain[t]]] = @ \union {chain[t]}]
      /\ UNCHANGED <<schedVars, priority, orig_priority, donation_nested_level, lock_waiting_for,
                     lockVars, callVars, own, calls, stopped>>
  BY DEF DonatePush, At, Donating
<1>2. TypeOK /\ chain[t] \in Locks  BY <1>1, Holder
<1>3. PICK h \in Threads : h = holder[chain[t]]  BY <1>1, <1>2, ThreadSets DEF TypeOK
<1>4. lock_list' \in [Threads -> SUBSET Locks]  BY <1>1, <1>2, <1>3 DEF TypeOK
<1>5. "raise" \in Donating \union {"want"} /\ "raise" \notin {"limit"} \union Counting  BY DEF Donating, Counting
<1> QED BY <1>1, <1>2, <1>4, <1>5, DonatingStep DEF TypeOK
LEMMA DonateRaiseStep ==
    ASSUME DonationInv, NEW t \in Threads, DonateRaise(t)
    PROVE  StepHolds
<1>1. /\ At(t, pc[t]) /\ pc[t] \in Donating /\ Goto(t, "follow")
      /\ priority' = [priority EXCEPT ![lh[t]] = priority[t]]
      /\ UNCHANGED <<schedVars, orig_priority, donation_nested_level, lock_list, lock_waiting_for,
                     lockVars, callVars, own, calls, stopped>>
  BY DEF DonateRaise, At, Donating
<1>2. TypeOK /\ lh[t] \in Threads  BY <1>1, Holder
<1>3. priority' \in [Threads -> Nat]  BY <1>1, <1>2 DEF TypeOK
<1>4. "follow" \in Donating \union {"want"} /\ "follow" \notin {"limit"} \union Counting  BY DEF Donating, Counting
<1> QED BY <1>1, <1>2, <1>3, <1>4, DonatingStep DEF TypeOK

\* The recursion of priority_donation().
LEMMA DonateFollowStep ==
    ASSUME DonationInv, NEW t \in Threads, DonateFollow(t)
    PROVE  StepHolds
<1>1. PICK l, d, w : l = chain[t] /\ d = lh[t] /\ w = lock_waiting_for[d]
  OBVIOUS
<1>2. PICK to, next : /\ to = IF w = NULL THEN "want" ELSE "donate"
                      /\ next = IF w = NULL THEN l ELSE w
  OBVIOUS
<1>3. TypeOK /\ PlaceInv  BY DEF DonationInv
<1>4. current = t /\ pc[t] = "follow" /\ At(t, pc[t]) /\ pc[t] \in Donating
  BY DEF DonateFollow, At, Donating
<1>5. t \in Users /\ PlaceOf(t) /\ l \in Locks /\ d \in Threads /\ w \in Locks \union {NULL}
  <2>1. t \in Users /\ l \in Locks /\ d \in Threads  BY <1>1, <1>4, Holder
  <2> QED BY <1>1, <1>3, <2>1 DEF PlaceInv, TypeOK
<1>6. /\ IF w = NULL THEN Goto(t, "want") /\ UNCHANGED chain
         ELSE Goto(t, "donate") /\ chain' = [chain EXCEPT ![t] = w]
      /\ UNCHANGED <<schedVars, threadVars, lock_waiting_for, lockVars, lock, lh, arg, own, calls, stopped>>
  BY <1>1 DEF DonateFollow
<1>7. pc' = [pc EXCEPT ![t] = to] /\ chain' = [chain EXCEPT ![t] = next]
  <2>1. CASE w = NULL
    <3>1. chain' = chain /\ next = chain[t]  BY <1>1, <1>2, <1>6, <2>1
    <3>2. chain' = [chain EXCEPT ![t] = next]  BY <1>3, <3>1 DEF TypeOK
    <3> QED BY <1>2, <1>6, <2>1, <3>2 DEF Goto
  <2>2. CASE w # NULL  BY <1>2, <1>6, <2>2 DEF Goto
  <2> QED BY <2>1, <2>2
<1>8. next \in Locks /\ to \in {"want", "donate"}  BY <1>2, <1>5
<1>9. /\ pc'[t] = to /\ chain'[t] = next
      /\ \A u \in Threads : u # t => pc'[u] = pc[u] /\ chain'[u] = chain[u]
  BY <1>3, <1>7 DEF TypeOK
<1>10. Moves(t)  BY <1>4, <1>5, <1>6, <1>9 DEF Moves, lockVars
<1>11. TypeOK'
  <2>1. pc' \in [Threads -> Places] /\ chain' \in [Threads -> Locks \union {NULL}]
    BY <1>3, <1>7, <1>8 DEF TypeOK, Places
  <2> QED BY <1>3, <1>6, <2>1 DEF TypeOK, Places, schedVars, threadVars, lockVars
<1>12. PlaceOf(t)'
  BY <1>4, <1>5, <1>6, <1>8, <1>9 DEF PlaceOf, LockPlaces, Donating, Counting, Releasing, lockVars
<1>13. \A k \in Locks : Owns(t, k)' <=> Owns(t, k)
  BY <1>4, <1>6, <1>8, <1>9 DEF Owns, lockVars
<1> QED BY <1>4, <1>6, <1>8, <1>9, <1>10, <1>11, <1>12, <1>13, QuietStep DEF schedVars, lockVars

\* lock_acquire() setting lock_waiting_for.
LEMMA WaitForStep ==
    ASSUME DonationInv, NEW t \in Threads, WaitFor(t)
    PROVE  StepHolds
<1>1. /\ current = t /\ pc[t] = "want"
      /\ lock_waiting_for' = [lock_waiting_for EXCEPT ![t] = lock[t]]
      /\ chain' = [chain EXCEPT ![t] = NULL] /\ lh' = [lh EXCEPT ![t] = NULL]
      /\ pc' = [pc EXCEPT ![t] = "down"]
      /\ UNCHANGED <<schedVars, threadVars, lockVars, lock, arg, own, calls, stopped>>
  BY DEF WaitFor, At, Goto
<1>2. TypeOK /\ PlaceInv  BY DEF DonationInv
<1>3. t \in Users /\ PlaceOf(t) /\ lock[t] \in Locks /\ NULL \notin Locks
  BY <1>1, <1>2, DonationAssumption DEF PlaceInv, PlaceOf, LockPlaces, Users
<1>4. /\ pc'[t] = "down" /\ lock_waiting_for'[t] = lock[t]
      /\ \A u \in Threads : u # t => /\ pc'[u] = pc[u] /\ chain'[u] = chain[u] /\ lh'[u] = lh[u]
                                     /\ lock_waiting_for'[u] = lock_waiting_for[u]
  BY <1>1, <1>2 DEF TypeOK
<1>5. Moves(t)  BY <1>1, <1>3, <1>4 DEF Moves, lockVars
<1>6. TypeOK'
  <2>1. pc' \in [Threads -> Places]  BY <1>1, <1>2 DEF TypeOK, Places
  <2>2. chain' \in [Threads -> Locks \union {NULL}] /\ lh' \in [Threads -> Users \union {NULL}]
    BY <1>1, <1>2 DEF TypeOK
  <2>3. lock_waiting_for' \in [Threads -> Locks \union {NULL}]  BY <1>1, <1>2, <1>3 DEF TypeOK
  <2> QED BY <1>1, <1>2, <2>1, <2>2, <2>3 DEF TypeOK, Places, schedVars, threadVars, lockVars
<1>7. PlaceOf(t)'  BY <1>1, <1>3, <1>4 DEF PlaceOf, LockPlaces, Donating, Counting, Releasing, lockVars
<1>8. \A k \in Locks : Owns(t, k)' <=> Owns(t, k)  BY <1>1, <1>4 DEF Owns, lockVars
<1> QED BY <1>1, <1>4, <1>5, <1>6, <1>7, <1>8, QuietStep DEF schedVars, lockVars

\* The unit was taken before; the caller counts on the lock from here on.
LEMMA SetHolderStep ==
    ASSUME DonationInv, NEW t \in Threads, SetHolder(t)
    PROVE  StepHolds
<1>1. /\ current = t /\ pc[t] = "holder"
      /\ holder' = [holder EXCEPT ![lock[t]] = t]
      /\ held' = [held EXCEPT ![t] = @ \union {lock[t]}]
      /\ lock' = [lock EXCEPT ![t] = NULL] /\ pc' = [pc EXCEPT ![t] = "run"]
      /\ UNCHANGED <<schedVars, threadVars, lock_waiting_for, value, waiters, chain, lh, arg,
                     own, calls, stopped>>
  BY DEF SetHolder, At, Goto
<1>2. TypeOK /\ PlaceInv  BY DEF DonationInv
<1>3. t \in Users /\ PlaceOf(t) /\ lock[t] \in Locks /\ NULL \notin Locks
  BY <1>1, <1>2, DonationAssumption DEF PlaceInv, PlaceOf, LockPlaces, Users
<1>4. /\ pc'[t] = "run" /\ lock'[t] = NULL /\ held'[t] = held[t] \union {lock[t]}
      /\ \A u \in Threads : u # t => pc'[u] = pc[u] /\ lock'[u] = lock[u] /\ held'[u] = held[u]
  BY <1>1, <1>2 DEF TypeOK
<1>5. Moves(t)  BY <1>1, <1>3, <1>4 DEF Moves
<1>6. TypeOK'
  <2>1. pc' \in [Threads -> Places]  BY <1>1, <1>2 DEF TypeOK, Places
  <2>2. lock' \in [Threads -> Locks \union {NULL}]  BY <1>1, <1>2 DEF TypeOK
  <2>3. held' \in [Threads -> SUBSET Locks]  BY <1>1, <1>2, <1>3 DEF TypeOK
  <2>4. holder' \in [Locks -> Users \union {NULL}]  BY <1>1, <1>2, <1>3 DEF TypeOK
  <2> QED BY <1>1, <1>2, <2>1, <2>2, <2>3, <2>4 DEF TypeOK, Places, schedVars, threadVars
<1>7. PlaceOf(t)'  BY <1>1, <1>3, <1>4 DEF PlaceOf, LockPlaces, Donating, Counting, Releasing
<1>8. \A k \in Locks : Owns(t, k)' <=> Owns(t, k)  BY <1>1, <1>3, <1>4 DEF Owns
<1> QED BY <1>1, <1>4, <1>5, <1>6, <1>7, <1>8, QuietStep DEF schedVars

-----------------------------------------------------------------------------
(* lock_release() up to sema_up(), and thread_set_priority().              *)

\* A finite set of numbers has a greatest element: the priority to restore exists.
LEMMA GreatestElement ==
    ASSUME NEW S \in SUBSET Nat, IsFiniteSet(S), S # {}
    PROVE  \E m \in S : \A k \in S : k <= m
<1> DEFINE R == StrictSubsetOrdering(S)
<1> DEFINE F == FiniteSubsetsOf(S)
<1> DEFINE Above(m) == {k \in S : k > m}
<1> DEFINE T == {Above(m) : m \in S}
<1>1. IsWellFoundedOn(R, F)
  BY FS_StrictSubsetOrderingWellFounded
<1>2. \A m \in S : Above(m) \in F
  <2>1. \A m \in S : Above(m) \in SUBSET S  OBVIOUS
  <2>2. \A m \in S : IsFiniteSet(Above(m))  BY <2>1, FS_Subset
  <2> QED BY <2>1, <2>2 DEF FiniteSubsetsOf
<1>3. T \subseteq F /\ T # {}
  BY <1>2
<1>4. \E x \in T : \A y \in T : ~ (<<y, x>> \in R)
  <2> HIDE DEF R, F, T
  <2> QED BY <1>1, <1>3, WFMin
<1>5. PICK m \in S : \A y \in T : ~ (<<y, Above(m)>> \in R)
  BY <1>4
<1>6. ASSUME NEW k \in S, k > m PROVE FALSE
  <2>0. \A j \in S : j \in Int /\ k \in Int /\ m \in Int  OBVIOUS
  <2>1. Above(k) \subseteq Above(m)
    <3>1. ASSUME NEW x \in S, x > k PROVE x > m  BY <1>6, <2>0, <3>1
    <3> QED BY <3>1
  <2>2. k \in Above(m) /\ k \notin Above(k)  BY <1>6, <2>0
  <2>3. <<Above(k), Above(m)>> \in R  BY <2>1, <2>2 DEF StrictSubsetOrdering
  <2> QED BY <1>5, <2>3
<1> QED BY <1>5, <1>6

\* priority_restoration() finds a priority among the waiters of the locks left.
LEMMA BestDonorType ==
    ASSUME DonationInv, NEW ll \in SUBSET Locks
    PROVE  BestDonor(ll) \in Nat
<1> DEFINE K == {k \in ll : waiters[k] # <<>>}
           pris == {priority[Head(waiters[l])] : l \in K}
<1>1. \A k \in K : Head(waiters[k]) \in Threads
  <2>1. \A k \in K : waiters[k] \in Seq(Users) /\ waiters[k] # <<>>
    BY DEF DonationInv, WaitersInv
  <2>2. \A q \in Seq(Users) : q # <<>> => Head(q) \in Users  OBVIOUS
  <2> QED BY <2>1, <2>2, ThreadSets
<1>2. pris \subseteq Nat  BY <1>1 DEF DonationInv, TypeOK
<1>3. PICK S : S = pris \union {0}  OBVIOUS
<1>4. IsFiniteSet(S)
  <2>1. IsFiniteSet(K)  BY DonationAssumption, FS_Subset
  <2>2. PICK f : f = [l \in K |-> priority[Head(waiters[l])]]  OBVIOUS
  <2>3. f \in Surjection(K, pris)
    <3>1. \A l \in K : f[l] = priority[Head(waiters[l])]  BY <2>2
    <3>2. f \in [K -> pris]  BY <2>2
    <3>3. \A y \in pris : \E l \in K : f[l] = y  BY <3>1
    <3> QED BY <3>2, <3>3 DEF Surjection
  <2>4. IsFiniteSet(pris)  BY <2>1, <2>3, FS_Surjection
  <2> QED BY <1>3, <2>4, FS_AddElement
<1>5. \E m \in S : \A k \in S : k <= m
  <2>1. S \in SUBSET Nat /\ S # {}  BY <1>2, <1>3
  <2> QED BY <1>4, <2>1, GreatestElement
<1>6. \E m \in S : \A k \in pris : k <= m  BY <1>3, <1>5
<1>7. BestDonor(ll) = CHOOSE p \in S : \A q \in pris : q <= p  BY <1>3 DEF BestDonor
<1>8. (CHOOSE p \in S : \A q \in pris : q <= p) \in S
  <2> HIDE DEF pris
  <2> QED BY <1>6
<1>9. S \subseteq Nat  BY <1>2, <1>3
<1> QED BY <1>7, <1>8, <1>9

\* The caller no longer counts on the lock, which it still owns.
LEMMA LockReleaseStep ==
    ASSUME DonationInv, NEW t \in Threads, NEW l \in Locks, LockRelease(t, l)
    PROVE  StepHolds
<1>1. /\ current = t /\ pc[t] = "run" /\ l \in held[t]
      /\ held' = [held EXCEPT ![t] = @ \ {l}] /\ lock' = [lock EXCEPT ![t] = l]
      /\ pc' = [pc EXCEPT ![t] = "restore"]
      /\ UNCHANGED <<schedVars, threadVars, lock_waiting_for, value, waiters, holder, chain,
                     lh, arg, own, calls, stopped>>
  BY DEF LockRelease, At, Goto
<1>2. TypeOK /\ PlaceInv  BY DEF DonationInv
<1>3. t \in Users /\ PlaceOf(t)  BY <1>1, <1>2 DEF PlaceInv, Users
<1>4. /\ pc'[t] = "restore" /\ lock'[t] = l /\ held'[t] = held[t] \ {l}
      /\ \A u \in Threads : u # t => pc'[u] = pc[u] /\ lock'[u] = lock[u] /\ held'[u] = held[u]
  BY <1>1, <1>2 DEF TypeOK
<1>5. Moves(t)  BY <1>1, <1>3, <1>4 DEF Moves
<1>6. TypeOK'
  <2>1. pc' \in [Threads -> Places]  BY <1>1, <1>2 DEF TypeOK, Places
  <2>2. lock' \in [Threads -> Locks \union {NULL}]  BY <1>1, <1>2 DEF TypeOK
  <2>3. held' \in [Threads -> SUBSET Locks]  BY <1>1, <1>2 DEF TypeOK
  <2> QED BY <1>1, <1>2, <2>1, <2>2, <2>3 DEF TypeOK, Places, schedVars, threadVars
<1>7. PlaceOf(t)'  BY <1>1, <1>3, <1>4 DEF PlaceOf, LockPlaces, Donating, Counting, Releasing
<1>8. \A k \in Locks : Owns(t, k)' <=> Owns(t, k)  BY <1>1, <1>4 DEF Owns
<1> QED BY <1>1, <1>4, <1>5, <1>6, <1>7, <1>8, QuietStep DEF schedVars

\* A step of lock_release() after which t still owns the lock.
LEMMA ReleasingStep ==
    ASSUME DonationInv, NEW t \in Threads, NEW to \in Releasing, current = t,
           pc[t] \in Releasing, TypeOK', pc' = [pc EXCEPT ![t] = to],
           \A u \in Threads : u # t => arg'[u] = arg[u],
           UNCHANGED <<schedVars, lock_waiting_for, value, waiters, held, lock, chain, lh>>
    PROVE  StepHolds
<1>1. TypeOK /\ PlaceInv  BY DEF DonationInv
<1>2. t \in Users /\ PlaceOf(t)  BY <1>1 DEF PlaceInv, Users, Releasing
<1>3. pc'[t] = to /\ \A u \in Threads : u # t => pc'[u] = pc[u]  BY <1>1 DEF TypeOK
<1>4. Moves(t)  BY <1>2, <1>3 DEF Moves
<1>5. PlaceOf(t)'  BY <1>2, <1>3 DEF PlaceOf, LockPlaces, Donating, Counting, Releasing
<1>6. \A k \in Locks : Owns(t, k)' <=> Owns(t, k)  BY <1>3 DEF Owns, Releasing
<1>7. pc[t] # "loop" /\ pc'[t] # "asleep"  BY <1>3 DEF Releasing
<1> QED BY <1>4, <1>5, <1>6, <1>7, QuietStep DEF schedVars

\* priority_restoration() up to the decrement of donation_nested_level.
LEMMA RestoreCheckStep ==
    ASSUME DonationInv, NEW t \in Threads, RestoreCheck(t)
    PROVE  StepHolds
<1>1. current = t /\ pc[t] = "restore"
      /\ UNCHANGED <<schedVars, priority, orig_priority, lock_list, lock_waiting_for,
                     lockVars, lock, chain, lh, own, calls, stopped>>
  BY DEF RestoreCheck, At
<1>2. TypeOK  BY DEF DonationInv
<1>3. CASE Donated(t)
  <2>1. /\ donation_nested_level' = [donation_nested_level EXCEPT ![t] = @ - 1]
        /\ pc' = [pc EXCEPT ![t] = "match"] /\ UNCHANGED arg /\ donation_nested_level[t] # 0
    BY <1>3 DEF RestoreCheck, Goto, Donated
  <2>2. donation_nested_level' \in [Threads -> Nat]
    <3>1. donation_nested_level[t] \in Nat  BY <1>2 DEF TypeOK
    <3>2. donation_nested_level[t] - 1 \in Nat
      BY <2>1, <3>1
    <3> QED BY <1>2, <2>1, <3>2 DEF TypeOK
  <2>3. pc' \in [Threads -> Places]  BY <1>2, <2>1 DEF TypeOK, Places
  <2>4. TypeOK'  BY <1>1, <1>2, <2>1, <2>2, <2>3 DEF TypeOK, Places, schedVars, lockVars
  <2> QED BY <1>1, <2>1, <2>4, ReleasingStep DEF Releasing, schedVars, lockVars
<1>4. CASE ~ Donated(t)
  <2>1. /\ arg' = [arg EXCEPT ![t] = -1] /\ pc' = [pc EXCEPT ![t] = "clear"]
        /\ UNCHANGED donation_nested_level
    BY <1>4 DEF RestoreCheck, Goto
  <2>2. arg' \in [Threads -> Nat \union {-1}]  BY <1>2, <2>1 DEF TypeOK
  <2>3. pc' \in [Threads -> Places]  BY <1>2, <2>1 DEF TypeOK, Places
  <2>4. TypeOK'  BY <1>1, <1>2, <2>1, <2>2, <2>3 DEF TypeOK, Places, schedVars, lockVars
  <2>5. \A u \in Threads : u # t => arg'[u] = arg[u]  BY <1>2, <2>1 DEF TypeOK
  <2> QED BY <1>1, <2>1, <2>4, <2>5, ReleasingStep DEF Releasing, schedVars, lockVars
<1> QED BY <1>3, <1>4

\* The rest of priority_restoration().
LEMMA RestoreMatchStep ==
    ASSUME DonationInv, NEW t \in Threads, RestoreMatch(t)
    PROVE  StepHolds
<1>1. /\ current = t /\ pc[t] = "match" /\ pc' = [pc EXCEPT ![t] = "clear"]
      /\ UNCHANGED <<schedVars, priority, orig_priority, donation_nested_level,
                     lock_waiting_for, lockVars, lock, chain, lh, own, calls, stopped>>
  BY DEF RestoreMatch, At, Goto
<1>2. TypeOK  BY DEF DonationInv
<1>3. PICK same \in FirstWaiterMatches(t) :
        LET ll == IF same THEN lock_list[t] \ {lock[t]} ELSE lock_list[t] IN
        /\ lock_list' = [lock_list EXCEPT ![t] = ll]
        /\ arg' = [arg EXCEPT ![t] = IF ~ same THEN priority[t]
                                     ELSE IF donation_nested_level[t] = 0
                                     THEN orig_priority[t] ELSE BestDonor(ll)]
  BY DEF RestoreMatch
<1>4. PICK ll : ll = IF same THEN lock_list[t] \ {lock[t]} ELSE lock_list[t]  OBVIOUS
<1>5. PICK a : a = IF ~ same THEN priority[t]
                   ELSE IF donation_nested_level[t] = 0 THEN orig_priority[t] ELSE BestDonor(ll)
  OBVIOUS
<1>6. lock_list' = [lock_list EXCEPT ![t] = ll] /\ arg' = [arg EXCEPT ![t] = a]
  BY <1>3, <1>4, <1>5
<1>7. ll \in SUBSET Locks  BY <1>2, <1>4 DEF TypeOK
<1>8. BestDonor(ll) \in Nat  BY <1>7, BestDonorType
<1>9. a \in Nat  BY <1>2, <1>5, <1>8 DEF TypeOK
<1>10. lock_list' \in [Threads -> SUBSET Locks]  BY <1>2, <1>6, <1>7 DEF TypeOK
<1>11. arg' \in [Threads -> Nat \union {-1}]  BY <1>2, <1>6, <1>9 DEF TypeOK
<1>12. pc' \in [Threads -> Places]  BY <1>1, <1>2 DEF TypeOK, Places
<1>13. TypeOK'  BY <1>1, <1>2, <1>10, <1>11, <1>12 DEF TypeOK, Places, schedVars, lockVars
<1>14. \A u \in Threads : u # t => arg'[u] = arg[u]  BY <1>2, <1>6 DEF TypeOK
<1> QED BY <1>1, <1>13, <1>14, ReleasingStep DEF Releasing, schedVars, lockVars

\* lock_release() clearing lock->holder.
LEMMA ClearHolderStep ==
    ASSUME DonationInv, NEW t \in Threads, ClearHolder(t)
    PROVE  StepHolds
<1>1. /\ current = t /\ pc[t] = "clear" /\ holder' = [holder EXCEPT ![lock[t]] = NULL]
      /\ pc' = [pc EXCEPT ![t] = "lower"]
      /\ UNCHANGED <<schedVars, threadVars, lock_waiting_for, value, waiters, held, callVars,
                     own, calls, stopped>>
  BY DEF ClearHolder, At, Goto
<1>2. TypeOK  BY DEF DonationInv
<1>3. holder' \in [Locks -> Users \union {NULL}]  BY <1>1, <1>2 DEF TypeOK
<1>4. pc' \in [Threads -> Places]  BY <1>1, <1>2 DEF TypeOK, Places
<1>5. TypeOK'  BY <1>1, <1>2, <1>3, <1>4 DEF TypeOK, Places, schedVars, threadVars, callVars
<1> QED BY <1>1, <1>5, ReleasingStep DEF Releasing, schedVars, callVars

\* lock_release() restoring the priority.
LEMMA LowerStep ==
    ASSUME DonationInv, NEW t \in Threads, Lower(t)
    PROVE  StepHolds
<1>1. /\ current = t /\ pc[t] = "lower"
      /\ priority' = [priority EXCEPT ![t] = IF arg[t] >= 0 THEN arg[t] ELSE @]
      /\ arg' = [arg EXCEPT ![t] = 0] /\ pc' = [pc EXCEPT ![t] = "up"]
      /\ UNCHANGED <<schedVars, orig_priority, donation_nested_level, lock_list,
                     lock_waiting_for, lockVars, lock, chain, lh, own, calls, stopped>>
  BY DEF Lower, At, Goto
<1>2. TypeOK  BY DEF DonationInv
<1>3. arg[t] \in Nat \/ arg[t] = -1  BY <1>2 DEF TypeOK
<1>4. arg[t] >= 0 => arg[t] \in Nat  BY <1>3
<1>5. priority' \in [Threads -> Nat]  BY <1>1, <1>2, <1>4 DEF TypeOK
<1>6. arg' \in [Threads -> Nat \union {-1}]  BY <1>1, <1>2 DEF TypeOK
<1>7. pc' \in [Threads -> Places]  BY <1>1, <1>2 DEF TypeOK, Places
<1>8. TypeOK'  BY <1>1, <1>2, <1>5, <1>6, <1>7 DEF TypeOK, Places, schedVars, lockVars
<1>9. \A u \in Threads : u # t => arg'[u] = arg[u]  BY <1>1, <1>2 DEF TypeOK
<1> QED BY <1>1, <1>8, <1>9, ReleasingStep DEF Releasing, schedVars, lockVars

\* The beginning of thread_set_priority().
LEMMA SetPriorityStep ==
    ASSUME DonationInv, NEW t \in Threads, NEW p \in Nat, SetPriority(t, p)
    PROVE  StepHolds
<1>1. PICK to \in {"set", "set_orig"} :
          to = IF donation_nested_level[t] = 0 THEN "set" ELSE "set_orig"
  OBVIOUS
<1>2. /\ current = t /\ pc[t] = "run" /\ t \in Users /\ calls' = [calls EXCEPT ![t] = @ + 1]
      /\ own' = [own EXCEPT ![t] = p] /\ arg' = [arg EXCEPT ![t] = p]
      /\ pc' = [pc EXCEPT ![t] = to]
      /\ UNCHANGED <<schedVars, threadVars, lock_waiting_for, lockVars, lock, chain, lh, stopped>>
  BY <1>1 DEF SetPriority, Calls, At, Goto, Users
<1>3. TypeOK /\ PlaceOf(t)  BY <1>2 DEF DonationInv, PlaceInv
<1>4. /\ pc'[t] = to /\ arg'[t] = p
      /\ \A u \in Threads : u # t => pc'[u] = pc[u] /\ arg'[u] = arg[u]
  BY <1>2, <1>3 DEF TypeOK
<1>5. Moves(t)  BY <1>2, <1>4 DEF Moves, lockVars
<1>6. TypeOK'
  <2>1. pc' \in [Threads -> Places]  BY <1>2, <1>3 DEF TypeOK, Places
  <2>2. calls' \in [Threads -> Nat] /\ own' \in [Threads -> Nat]  BY <1>2, <1>3 DEF TypeOK
  <2>3. arg' \in [Threads -> Nat \union {-1}]  BY <1>2, <1>3 DEF TypeOK
  <2> QED BY <1>2, <1>3, <2>1, <2>2, <2>3 DEF TypeOK, Places, schedVars, threadVars, lockVars
<1>7. PlaceOf(t)'  BY <1>2, <1>3, <1>4 DEF PlaceOf, LockPlaces, Donating, Counting, Releasing, lockVars
<1>8. \A k \in Locks : Owns(t, k)' <=> Owns(t, k)  BY <1>2, <1>4 DEF Owns, lockVars
<1> QED BY <1>2, <1>4, <1>5, <1>6, <1>7, <1>8, QuietStep DEF schedVars, lockVars

\* thread_set_priority() setting the current priority.
LEMMA SetCurrentStep ==
    ASSUME DonationInv, NEW t \in Threads, SetCurrent(t)
    PROVE  StepHolds
<1>1. /\ current = t /\ pc[t] = "set" /\ priority' = [priority EXCEPT ![t] = arg[t]]
      /\ pc' = [pc EXCEPT ![t] = "set_orig"]
      /\ UNCHANGED <<schedVars, orig_priority, donation_nested_level, lock_list,
                     lock_waiting_for, lockVars, callVars, own, calls, stopped>>
  BY DEF SetCurrent, At, Goto
<1>2. TypeOK /\ PlaceInv  BY DEF DonationInv
<1>3. t \in Users /\ PlaceOf(t)  BY <1>1, <1>2 DEF PlaceInv, Users
<1>4. pc'[t] = "set_orig" /\ \A u \in Threads : u # t => pc'[u] = pc[u]
  BY <1>1, <1>2 DEF TypeOK
<1>5. Moves(t)  BY <1>1, <1>3, <1>4 DEF Moves, lockVars, callVars
<1>6. TypeOK'
  <2>1. pc' \in [Threads -> Places]  BY <1>1, <1>2 DEF TypeOK, Places
  <2>2. priority' \in [Threads -> Nat]  BY <1>1, <1>2, <1>3 DEF TypeOK, PlaceOf
  <2> QED BY <1>1, <1>2, <2>1, <2>2 DEF TypeOK, Places, schedVars, lockVars, callVars
<1>7. PlaceOf(t)'  BY <1>1, <1>3, <1>4 DEF PlaceOf, LockPlaces, Donating, Counting, Releasing, lockVars, callVars
<1>8. \A k \in Locks : Owns(t, k)' <=> Owns(t, k)  BY <1>1, <1>4 DEF Owns, lockVars, callVars
<1> QED BY <1>1, <1>4, <1>5, <1>6, <1>7, <1>8, QuietStep DEF schedVars, lockVars

-----------------------------------------------------------------------------
(* The scheduler.                                                          *)

\* list_push_back() and list_sort() of a thread that is not on the list, by the
\* priorities of the moment.
LEMMA SortedIn ==
    ASSUME DonationInv, NEW q \in Seq(Users), NoTwice(q), NEW t \in Users, ~ OnList(t, q)
    PROVE  LET s == ListSort(Append(q, t), ByPriority(priority))
           IN /\ s \in Seq(Users) /\ NoTwice(s) /\ Ordered(s, ByPriority(priority))
              /\ \A y : OnList(y, s) <=> OnList(y, q) \/ y = t
<1>1. PICK key : key = ByPriority(priority)  OBVIOUS
<1>2. key \in [Threads -> Int]
  <2>1. \A u \in Threads : priority[u] \in Nat  BY DEF DonationInv, TypeOK
  <2>2. \A u \in Threads : - priority[u] \in Int  BY <2>1
  <2> QED BY <1>1, <2>2 DEF ByPriority
<1>3. q \in Seq(Threads) /\ t \in Threads  BY ThreadSets
<1>4. PICK s : s = ListSort(Append(q, t), key)  OBVIOUS
<1>5. /\ s \in Seq(Threads) /\ NoTwice(s) /\ Ordered(s, key)
      /\ \A y : OnList(y, s) <=> OnList(y, q) \/ y = t
  BY <1>2, <1>3, <1>4, PushSorted
<1>6. \A y : OnList(y, q) => y \in Users  BY DEF OnList
<1>7. \A y : OnList(y, s) => y \in Users  BY <1>5, <1>6
<1>8. s \in Seq(Users)  BY <1>5, <1>7, ElementsIn
<1> QED BY <1>1, <1>4, <1>5, <1>8

\* thread_unblock() and thread_yield() queue one thread in the order of the priorities.
LEMMA QueuedIs ==
    ASSUME DonationInv, NEW rl \in Seq(Users), NoTwice(rl), NEW t \in Users, ~ OnList(t, rl)
    PROVE  /\ Queued(rl, t) \in Seq(Users) /\ NoTwice(Queued(rl, t))
           /\ Ordered(Queued(rl, t), ByPriority(priority))
           /\ \A y : OnList(y, Queued(rl, t)) <=> OnList(y, rl) \/ y = t
BY SortedIn DEF Queued

\* An order by priority, read from the front.
LEMMA FirstIsHighest ==
    ASSUME DonationInv, NEW t \in Threads, NEW u \in Threads,
           ByPriority(priority)[t] <= ByPriority(priority)[u]
    PROVE  priority[u] <= priority[t]
<1>1. PICK a \in Nat, b \in Nat : a = priority[t] /\ b = priority[u]
  BY DEF DonationInv, TypeOK
<1>2. - a <= - b  BY <1>1 DEF ByPriority
<1> QED BY <1>1, <1>2

\* schedule() with a list of threads that are awake once the step is done.
LEMMA Scheduled ==
    ASSUME PlaceInv', WaitersInv', NEW rl \in Seq(Users), NoTwice(rl),
           \A u \in Users : OnList(u, rl) => Awake(u)', Schedule(rl)
    PROVE  /\ QueueInv'
           /\ \A u : OnList(u, ready_list') => OnList(u, rl)
<1>1. CASE rl = <<>>
  <2>1. current' = Idle /\ ready_list' = rl  BY <1>1 DEF Schedule
  <2>2. \A u : ~ OnList(u, rl)  BY <1>1 DEF OnList
  <2>3. Awake(Idle)'
    <3>1. pc'[Idle] = "run"  BY DEF PlaceInv
    <3>2. \A l \in Locks : waiters'[l] \in Seq(Users)  BY DEF WaitersInv
    <3>3. \A l \in Locks : ~ OnList(Idle, waiters'[l])  BY <3>2, ThreadSets DEF OnList
    <3> QED BY <3>1, <3>3 DEF Awake
  <2>4. Awake(current)'  BY <2>1, <2>3 DEF Awake
  <2> QED BY <2>1, <2>2, <2>4, ThreadSets DEF QueueInv
<1>2. CASE rl # <<>>
  <2>1. PICK next, rest : next = Head(rl) /\ rest = Tail(rl)  OBVIOUS
  <2>2. current' = next /\ ready_list' = rest  BY <1>2, <2>1 DEF Schedule
  <2>3. /\ next \in Users /\ OnList(next, rl) /\ rest \in Seq(Users) /\ NoTwice(rest)
        /\ \A x : OnList(x, rest) <=> OnList(x, rl) /\ x # next
    BY <1>2, <2>1, FirstOut
  <2>4. Awake(next)'  BY <2>3
  <2>5. Awake(current)'  BY <2>2, <2>4 DEF Awake
  <2>6. \A u \in Users : OnList(u, ready_list') => Awake(u)'  BY <2>2, <2>3
  <2> QED BY <2>2, <2>3, <2>5, <2>6, ThreadSets DEF QueueInv
<1> QED BY <1>1, <1>2

\* schedule() with an ordered list takes a thread of the highest priority.
LEMMA ScheduledHighest ==
    ASSUME DonationInv, NEW rl \in Seq(Users), NoTwice(rl), Ordered(rl, ByPriority(priority)),
           Schedule(rl)
    PROVE  \A i \in DOMAIN ready_list' : priority[ready_list'[i]] <= priority[current']
<1>1. CASE rl = <<>>  BY <1>1 DEF Schedule
<1>2. CASE rl # <<>>
  <2>1. PICK next, rest, key : next = Head(rl) /\ rest = Tail(rl) /\ key = ByPriority(priority)
    OBVIOUS
  <2>2. current' = next /\ ready_list' = rest  BY <1>2, <2>1 DEF Schedule
  <2>3. next \in Users /\ rest \in Seq(Users) /\ \A i \in DOMAIN rest : key[next] <= key[rest[i]]
    BY <1>2, <2>1, FirstOut
  <2>4. SUFFICES ASSUME NEW i \in DOMAIN rest PROVE priority[rest[i]] <= priority[next]
    BY <2>2
  <2>5. rest[i] \in Threads /\ next \in Threads  BY <2>3, ThreadSets
  <2>6. ByPriority(priority)[next] <= ByPriority(priority)[rest[i]]  BY <2>1, <2>3
  <2> QED BY <2>5, <2>6, FirstIsHighest
<1> QED BY <1>1, <1>2

\* thread_yield() of t, which is on no list, with a list of threads that are awake.
LEMMA Yielded ==
    ASSUME DonationInv, PlaceInv', WaitersInv', NEW rl \in Seq(Users), NoTwice(rl),
           NEW t \in Users, ~ OnList(t, rl), Awake(t)',
           \A u \in Users : OnList(u, rl) => Awake(u)', Yield(t, rl)
    PROVE  QueueInv' /\ YieldsNow
<1>1. PICK q : q = Queued(rl, t)  OBVIOUS
<1>2. /\ q \in Seq(Users) /\ NoTwice(q) /\ Ordered(q, ByPriority(priority))
      /\ \A y : OnList(y, q) <=> OnList(y, rl) \/ y = t
  BY <1>1, QueuedIs
<1>3. Schedule(q)  BY <1>1 DEF Yield
<1>4. \A u \in Users : OnList(u, q) => Awake(u)'  BY <1>2
<1>5. QueueInv'  BY <1>2, <1>3, <1>4, Scheduled
<1>6. YieldsNow  BY <1>2, <1>3, ScheduledHighest DEF YieldsNow
<1> QED BY <1>5, <1>6

\* Whoever does not move stays awake if the waiters are left alone.
LEMMA AwakeKept ==
    ASSUME NEW t, Moves(t), UNCHANGED waiters
    PROVE  \A u \in Users : u # t /\ Awake(u) => Awake(u)'
BY ThreadSets DEF Moves, Awake

\* thread_yield(), also at the end of a slice.
LEMMA TickStep ==
    ASSUME DonationInv, NEW t \in Threads, Tick(t)
    PROVE  StepHolds
<1>1. /\ current = t /\ t \in Users /\ pc[t] # "loop" /\ Yield(t, ready_list)
      /\ UNCHANGED <<threadVars, lock_waiting_for, lockVars, pc, callVars, own, calls, stopped>>
  BY DEF Tick, Users
<1>2. TypeOK /\ PlaceOf(t) /\ QueueInv  BY <1>1 DEF DonationInv, PlaceInv
<1>3. Moves(t)  BY <1>1 DEF Moves, lockVars, callVars
<1>4. PlaceOf(t)'  BY <1>1, <1>2 DEF PlaceOf, lockVars, callVars
<1>5. \A k \in Locks : Owns(t, k)' <=> Owns(t, k)  BY <1>1 DEF Owns, lockVars, callVars
<1>6. PlaceInv' /\ WaitersInv' /\ MutualExclusion' /\ NoLostWakeup' /\ WakesNow
  BY <1>1, <1>3, <1>4, <1>5, LocksKept DEF lockVars
<1>7. \A u : Awake(u) => Awake(u)'  BY <1>1 DEF Awake, lockVars
<1>8. PICK rl : rl = ready_list  OBVIOUS
<1>9. /\ rl \in Seq(Users) /\ NoTwice(rl) /\ ~ OnList(t, rl) /\ Awake(t)'
      /\ \A u \in Users : OnList(u, rl) => Awake(u)'
  BY <1>1, <1>2, <1>7, <1>8 DEF QueueInv
<1>10. QueueInv' /\ YieldsNow  BY <1>1, <1>6, <1>8, <1>9, Yielded
<1>11. TypeOK'  BY <1>1, <1>2, <1>10 DEF TypeOK, QueueInv, threadVars, lockVars, callVars
<1> QED BY <1>6, <1>10, <1>11 DEF StepHolds, DonationInv

\* timer_sleep() blocking the thread.
LEMMA SleepStep ==
    ASSUME DonationInv, NEW t \in Threads, Sleep(t)
    PROVE  StepHolds
<1>1. /\ current = t /\ pc[t] = "run" /\ t \in Users /\ calls' = [calls EXCEPT ![t] = @ + 1]
      /\ Schedule(ready_list) /\ pc' = [pc EXCEPT ![t] = "asleep"]
      /\ UNCHANGED <<threadVars, lock_waiting_for, lockVars, callVars, own, stopped>>
  BY DEF Sleep, Calls, At, Goto, Users
<1>2. TypeOK /\ PlaceOf(t) /\ QueueInv  BY <1>1 DEF DonationInv, PlaceInv
<1>3. pc'[t] = "asleep" /\ \A u \in Threads : u # t => pc'[u] = pc[u]
  BY <1>1, <1>2 DEF TypeOK
<1>4. Moves(t)  BY <1>1, <1>3 DEF Moves, lockVars, callVars
<1>5. PlaceOf(t)'  BY <1>1, <1>2, <1>3 DEF PlaceOf, LockPlaces, Donating, Counting, Releasing, lockVars, callVars
<1>6. \A k \in Locks : Owns(t, k)' <=> Owns(t, k)  BY <1>1, <1>3 DEF Owns, lockVars, callVars
<1>7. PlaceInv' /\ WaitersInv' /\ MutualExclusion' /\ NoLostWakeup' /\ WakesNow
  BY <1>1, <1>4, <1>5, <1>6, LocksKept DEF lockVars
<1>8. PICK rl : rl = ready_list  OBVIOUS
<1>9. rl \in Seq(Users) /\ NoTwice(rl) /\ ~ OnList(t, rl)  BY <1>1, <1>2, <1>8 DEF QueueInv
<1>10. \A u \in Users : OnList(u, rl) => Awake(u)'
  BY <1>1, <1>2, <1>4, <1>8, <1>9, AwakeKept DEF QueueInv, lockVars
<1>11. QueueInv' /\ \A u : OnList(u, ready_list') => OnList(u, rl)
  BY <1>1, <1>7, <1>8, <1>9, <1>10, Scheduled
<1>12. YieldsNow  BY <1>1, <1>9, <1>11 DEF YieldsNow
<1>13. TypeOK'
  <2>1. pc' \in [Threads -> Places]  BY <1>1, <1>2 DEF TypeOK, Places
  <2>2. calls' \in [Threads -> Nat]  BY <1>1, <1>2 DEF TypeOK
  <2> QED BY <1>1, <1>2, <1>11, <2>1, <2>2
      DEF TypeOK, Places, QueueInv, threadVars, lockVars, callVars
<1> QED BY <1>7, <1>11, <1>12, <1>13 DEF StepHolds, DonationInv

\* The timer interrupt, which never preempts a thread in sema_down().
LEMMA WakeStep ==
    ASSUME DonationInv, NEW t \in Threads, Wake(t)
    PROVE  StepHolds
<1>1. /\ pc[t] = "asleep" /\ ready_list' = Queued(ready_list, t) /\ pc' = [pc EXCEPT ![t] = "run"]
      /\ UNCHANGED <<current, threadVars, lock_waiting_for, lockVars, callVars, own, calls, stopped>>
  BY DEF Wake, Goto
<1>2. TypeOK /\ PlaceInv /\ QueueInv  BY DEF DonationInv
<1>3. t \in Users /\ PlaceOf(t) /\ t # current /\ ~ OnList(t, ready_list)
  BY <1>1, <1>2 DEF PlaceInv, Users, QueueInv, Awake
<1>4. pc'[t] = "run" /\ \A u \in Threads : u # t => pc'[u] = pc[u]
  BY <1>1, <1>2 DEF TypeOK
<1>5. Moves(t)  BY <1>1, <1>3, <1>4 DEF Moves, lockVars, callVars
<1>6. PlaceOf(t)'  BY <1>1, <1>3, <1>4 DEF PlaceOf, LockPlaces, Donating, Counting, Releasing, lockVars, callVars
<1>7. \A k \in Locks : Owns(t, k)' <=> Owns(t, k)  BY <1>1, <1>4 DEF Owns, lockVars, callVars
<1>8. PlaceInv' /\ WaitersInv' /\ MutualExclusion' /\ NoLostWakeup' /\ WakesNow
  BY <1>1, <1>5, <1>6, <1>7, LocksKept DEF lockVars
<1>9. PICK rl, q : rl = ready_list /\ q = Queued(rl, t)  OBVIOUS
<1>10. rl \in Seq(Users) /\ NoTwice(rl) /\ ~ OnList(t, rl)  BY <1>2, <1>3, <1>9 DEF QueueInv
<1>11. q \in Seq(Users) /\ NoTwice(q) /\ \A y : OnList(y, q) <=> OnList(y, rl) \/ y = t
  BY <1>3, <1>9, <1>10, QueuedIs
<1>12. ready_list' = q  BY <1>1, <1>9
<1>13. ~ OnList(current, q)  BY <1>2, <1>3, <1>9, <1>11 DEF QueueInv
<1>14. Awake(t)'
  <2>1. \A l \in Locks : ~ OnList(t, waiters[l])  BY <1>5, MoverFree
  <2> QED BY <1>1, <1>4, <2>1 DEF Awake, lockVars
<1>15. \A u \in Threads : u # t /\ Awake(u) => Awake(u)'  BY <1>1, <1>4 DEF Awake, lockVars
<1>16. Awake(current)'
  <2>1. Awake(current) /\ current \in Threads  BY <1>2 DEF QueueInv
  <2>2. PICK c : c = current  OBVIOUS
  <2>3. Awake(c)'  BY <1>3, <1>15, <2>1, <2>2
  <2> QED BY <1>1, <2>2, <2>3 DEF Awake
<1>17. \A u \in Users : OnList(u, q) => Awake(u)'
  BY <1>2, <1>9, <1>11, <1>14, <1>15, ThreadSets DEF QueueInv
<1>18. QueueInv'  BY <1>1, <1>2, <1>11, <1>12, <1>13, <1>16, <1>17 DEF QueueInv
<1>19. YieldsNow  BY <1>12, <1>13 DEF YieldsNow
<1>20. TypeOK'
  <2>1. pc' \in [Threads -> Places]  BY <1>1, <1>2 DEF TypeOK, Places
  <2> QED BY <1>1, <1>2, <1>18, <2>1
      DEF TypeOK, Places, QueueInv, threadVars, lockVars, callVars
<1> QED BY <1>8, <1>18, <1>19, <1>20 DEF StepHolds, DonationInv

\* What the locks depend on is left alone.
LEMMA LocksStill ==
    ASSUME DonationInv, UNCHANGED <<value, waiters, held, pc, lock, chain, lh, arg, lock_waiting_for>>
    PROVE  PlaceInv' /\ WaitersInv' /\ MutualExclusion' /\ NoLostWakeup' /\ WakesNow
<1>1. PlaceInv'  BY DEF DonationInv, PlaceInv, PlaceOf
<1>2. WaitersInv'  BY DEF DonationInv, WaitersInv
<1>3. \A u \in Users, l \in Locks : Owns(u, l)' <=> Owns(u, l)  BY DEF Owns
<1>4. MutualExclusion'  BY <1>3 DEF DonationInv, MutualExclusion
<1>5. NoLostWakeup'  BY DEF DonationInv, NoLostWakeup
<1>6. WakesNow  BY DEF WakesNow
<1> QED BY <1>1, <1>2, <1>4, <1>5, <1>6

\* idle() blocking again.
LEMMA IdleBlockStep ==
    ASSUME DonationInv, IdleBlock
    PROVE  StepHolds
<1>1. /\ current = Idle /\ Schedule(ready_list)
      /\ UNCHANGED <<threadVars, lock_waiting_for, lockVars, pc, callVars, own, calls, stopped>>
  BY DEF IdleBlock
<1>2. TypeOK /\ QueueInv  BY DEF DonationInv
<1>3. PlaceInv' /\ WaitersInv' /\ MutualExclusion' /\ NoLostWakeup' /\ WakesNow
  BY <1>1, LocksStill DEF lockVars, callVars
<1>4. PICK rl : rl = ready_list  OBVIOUS
<1>5. \A u : Awake(u) => Awake(u)'  BY <1>1 DEF Awake, lockVars
<1>6. rl \in Seq(Users) /\ NoTwice(rl) /\ \A u \in Users : OnList(u, rl) => Awake(u)'
  BY <1>2, <1>4, <1>5 DEF QueueInv
<1>7. QueueInv'  BY <1>1, <1>3, <1>4, <1>6, Scheduled
<1>8. YieldsNow  BY <1>1 DEF YieldsNow
<1>9. TypeOK'  BY <1>1, <1>2, <1>7 DEF TypeOK, QueueInv, threadVars, lockVars, callVars
<1> QED BY <1>3, <1>7, <1>8, <1>9 DEF StepHolds, DonationInv

\* The rest of thread_set_priority(): t yields or goes on.
LEMMA SetOriginalStep ==
    ASSUME DonationInv, NEW t \in Threads, SetOriginal(t)
    PROVE  StepHolds
<1>1. /\ current = t /\ pc[t] = "set_orig"
      /\ orig_priority' = [orig_priority EXCEPT ![t] = arg[t]]
      /\ Yield(t, ready_list) \/ UNCHANGED schedVars
      /\ arg' = [arg EXCEPT ![t] = 0] /\ pc' = [pc EXCEPT ![t] = "run"]
      /\ UNCHANGED <<priority, donation_nested_level, lock_list, lock_waiting_for,
                     lockVars, lock, chain, lh, own, calls, stopped>>
  BY DEF SetOriginal, At, Goto
<1>2. TypeOK /\ PlaceInv /\ QueueInv  BY DEF DonationInv
<1>3. t \in Users /\ PlaceOf(t) /\ arg[t] \in Nat  BY <1>1, <1>2 DEF PlaceInv, PlaceOf, Users
<1>4. /\ pc'[t] = "run"
      /\ \A u \in Threads : u # t => pc'[u] = pc[u] /\ arg'[u] = arg[u]
  BY <1>1, <1>2 DEF TypeOK
<1>5. Moves(t)  BY <1>1, <1>3, <1>4 DEF Moves, lockVars
<1>6. PlaceOf(t)'  BY <1>1, <1>3, <1>4 DEF PlaceOf, LockPlaces, Donating, Counting, Releasing, lockVars
<1>7. \A k \in Locks : Owns(t, k)' <=> Owns(t, k)  BY <1>1, <1>4 DEF Owns, lockVars
<1>8. PlaceInv' /\ WaitersInv' /\ MutualExclusion' /\ NoLostWakeup' /\ WakesNow
  BY <1>1, <1>5, <1>6, <1>7, LocksKept DEF lockVars
<1>9. QueueInv' /\ YieldsNow
  <2>1. CASE Yield(t, ready_list)
    <3>1. PICK rl : rl = ready_list  OBVIOUS
    <3>2. rl \in Seq(Users) /\ NoTwice(rl) /\ ~ OnList(t, rl)  BY <1>1, <1>2, <3>1 DEF QueueInv
    <3>3. \A u \in Users : OnList(u, rl) => Awake(u)'
      BY <1>1, <1>2, <1>5, <3>1, <3>2, AwakeKept DEF QueueInv, lockVars
    <3>4. Awake(t)'
      <4>1. \A l \in Locks : ~ OnList(t, waiters[l])  BY <1>5, MoverFree
      <4> QED BY <1>1, <1>4, <4>1 DEF Awake, lockVars
    <3> QED BY <1>3, <1>8, <2>1, <3>1, <3>2, <3>3, <3>4, Yielded
  <2>2. CASE UNCHANGED schedVars
    <3>1. QueueInv'  BY <1>1, <1>4, <1>5, <2>2, QueueKept DEF schedVars, lockVars
    <3>2. YieldsNow  BY <1>2, <2>2 DEF YieldsNow, QueueInv, schedVars
    <3> QED BY <3>1, <3>2
  <2> QED BY <1>1, <2>1, <2>2
<1>10. TypeOK'
  <2>1. pc' \in [Threads -> Places]  BY <1>1, <1>2 DEF TypeOK, Places
  <2>2. orig_priority' \in [Threads -> Nat]  BY <1>1, <1>2, <1>3 DEF TypeOK
  <2>3. arg' \in [Threads -> Nat \union {-1}]
    <3>1. arg \in [Threads -> Nat \union {-1}]  BY <1>2 DEF TypeOK
    <3>2. \A Z : 0 \in Z /\ arg \in [Threads -> Z] => arg' \in [Threads -> Z]  BY <1>1
    <3> QED BY <3>1, <3>2
  <2> QED BY <1>1, <1>2, <1>9, <2>1, <2>2, <2>3 DEF TypeOK, Places, QueueInv, lockVars
<1> QED BY <1>8, <1>9, <1>10 DEF StepHolds, DonationInv

-----------------------------------------------------------------------------
(* The semaphore of a lock.                                                *)

\* A unit is taken: t, which had none of l, now owns it.
LEMMA TakeStep ==
    ASSUME DonationInv, NEW t, Moves(t), TypeOK', PlaceOf(t)', NEW l \in Locks, value[l] > 0,
           value' = [value EXCEPT ![l] = @ - 1],
           UNCHANGED <<current, ready_list, waiters>>, pc'[t] = "holder",
           pc[t] = "loop" => lock[t] = l,
           \A k \in Locks : Owns(t, k)' <=> Owns(t, k) \/ k = l
    PROVE  StepHolds
<1>1. value[l] = 1 /\ value'[l] = 0 /\ \A k \in Locks : k # l => value'[k] = value[k]
  <2>1. value \in [Locks -> 0 .. 1]  BY DEF DonationInv, TypeOK
  <2>2. value[l] = 1  BY <2>1
  <2> QED BY <2>1, <2>2
<1>2. \A u \in Users, k \in Locks : u # t => (Owns(u, k)' <=> Owns(u, k))  BY OthersOwn
<1>3. t \in Users  BY DEF Moves
<1>4. MutualExclusion'
  <2>1. \A u \in Users : ~ Owns(u, l)  BY <1>1 DEF DonationInv, MutualExclusion
  <2>2. \A u \in Users : Owns(u, l)' <=> u = t  BY <1>2, <1>3, <2>1
  <2>3. \A u \in Users, k \in Locks : k # l => (Owns(u, k)' <=> Owns(u, k))
    BY <1>2, <1>3
  <2>4. SUFFICES ASSUME NEW k \in Locks
                 PROVE  /\ \A x, u \in Users : Owns(x, k)' /\ Owns(u, k)' => x = u
                        /\ value'[k] = 1 <=> \A x \in Users : ~ Owns(x, k)'
    BY DEF MutualExclusion
  <2>5. CASE k = l  BY <1>1, <1>3, <2>2, <2>5
  <2>6. CASE k # l  BY <1>1, <2>3, <2>6 DEF DonationInv, MutualExclusion
  <2> QED BY <2>5, <2>6
<1>5. NoLostWakeup'
  <2>1. SUFFICES ASSUME NEW k \in Locks, value'[k] > 0, waiters'[k] # <<>>
                 PROVE  \E u \in Users : pc'[u] = "loop" /\ lock'[u] = k /\ ~ OnList(u, waiters'[k])
    BY DEF NoLostWakeup
  <2>2. k # l  BY <1>1, <2>1
  <2>3. PICK u \in Users : pc[u] = "loop" /\ lock[u] = k /\ ~ OnList(u, waiters[k])
    BY <1>1, <2>1, <2>2 DEF DonationInv, NoLostWakeup
  <2>4. u # t  BY <2>2, <2>3
  <2> QED BY <2>3, <2>4, ThreadSets DEF Moves
<1>6. PlaceInv'  BY PlacesKept
<1>7. WaitersInv'  BY WaitersKept
<1>8. QueueInv'  BY QueueKept
<1>9. WakesNow  BY DEF WakesNow
<1>10. YieldsNow  BY DEF YieldsNow, DonationInv, QueueInv
<1> QED BY <1>4, <1>5, <1>6, <1>7, <1>8, <1>9, <1>10 DEF StepHolds, DonationInv

\* lock_try_acquire() when it succeeds.
LEMMA LockTryAcquireStep ==
    ASSUME DonationInv, NEW t \in Threads, NEW l \in Locks, LockTryAcquire(t, l)
    PROVE  StepHolds
<1>1. /\ current = t /\ pc[t] = "run" /\ t \in Users /\ calls' = [calls EXCEPT ![t] = @ + 1]
      /\ value[l] > 0 /\ value' = [value EXCEPT ![l] = @ - 1]
      /\ lock' = [lock EXCEPT ![t] = l] /\ pc' = [pc EXCEPT ![t] = "holder"]
      /\ UNCHANGED <<schedVars, threadVars, lock_waiting_for, waiters, holder, held, chain,
                     lh, arg, own, stopped>>
  BY DEF LockTryAcquire, Calls, At, Goto, Users
<1>2. TypeOK /\ PlaceOf(t)  BY <1>1 DEF DonationInv, PlaceInv
<1>3. /\ pc'[t] = "holder" /\ lock'[t] = l
      /\ \A u \in Threads : u # t => pc'[u] = pc[u] /\ lock'[u] = lock[u]
  BY <1>1, <1>2 DEF TypeOK
<1>4. Moves(t)  BY <1>1, <1>3 DEF Moves
<1>5. TypeOK'
  <2>1. pc' \in [Threads -> Places]  BY <1>1, <1>2 DEF TypeOK, Places
  <2>2. calls' \in [Threads -> Nat]  BY <1>1, <1>2 DEF TypeOK
  <2>3. lock' \in [Threads -> Locks \union {NULL}]  BY <1>1, <1>2 DEF TypeOK
  <2>4. value' \in [Locks -> 0 .. 1]  BY <1>1, <1>2 DEF TypeOK
  <2> QED BY <1>1, <1>2, <2>1, <2>2, <2>3, <2>4 DEF TypeOK, Places, schedVars, threadVars
<1>6. PlaceOf(t)'  BY <1>1, <1>2, <1>3 DEF PlaceOf, LockPlaces, Donating, Counting, Releasing
<1>7. \A k \in Locks : Owns(t, k)' <=> Owns(t, k) \/ k = l  BY <1>1, <1>3 DEF Owns
<1> QED BY <1>1, <1>3, <1>4, <1>5, <1>6, <1>7, TakeStep DEF schedVars

\* sema_down() taking the unit.
LEMMA DownTakesStep ==
    ASSUME DonationInv, NEW t \in Threads, current = t, pc[t] \in {"down", "loop"}, DownTakes(t),
           UNCHANGED <<threadVars, holder, held, callVars, own, calls, stopped>>
    PROVE  StepHolds
<1>1. PICK l : l = lock[t]  OBVIOUS
<1>2. /\ value[l] > 0 /\ value' = [value EXCEPT ![l] = @ - 1]
      /\ lock_waiting_for' = [lock_waiting_for EXCEPT ![t] = NULL]
      /\ pc' = [pc EXCEPT ![t] = "holder"]
      /\ UNCHANGED <<waiters, schedVars>>
  BY <1>1 DEF DownTakes, Goto
<1>3. TypeOK /\ PlaceInv  BY DEF DonationInv
<1>4. t \in Users /\ PlaceOf(t) /\ l \in Locks
  BY <1>1, <1>3 DEF PlaceInv, PlaceOf, LockPlaces, Users
<1>5. /\ pc'[t] = "holder" /\ lock_waiting_for'[t] = NULL
      /\ \A u \in Threads : u # t => pc'[u] = pc[u] /\ lock_waiting_for'[u] = lock_waiting_for[u]
  BY <1>2, <1>3 DEF TypeOK
<1>6. Moves(t)  BY <1>4, <1>5 DEF Moves, callVars
<1>7. TypeOK'
  <2>1. pc' \in [Threads -> Places]  BY <1>2, <1>3 DEF TypeOK, Places
  <2>2. lock_waiting_for' \in [Threads -> Locks \union {NULL}]  BY <1>2, <1>3 DEF TypeOK
  <2>3. value' \in [Locks -> 0 .. 1]  BY <1>2, <1>3, <1>4 DEF TypeOK
  <2> QED BY <1>2, <1>3, <2>1, <2>2, <2>3 DEF TypeOK, Places, schedVars, threadVars, callVars
<1>8. PlaceOf(t)'  BY <1>1, <1>4, <1>5 DEF PlaceOf, LockPlaces, Donating, Counting, Releasing, callVars
<1>9. \A k \in Locks : Owns(t, k)' <=> Owns(t, k) \/ k = l  BY <1>1, <1>5 DEF Owns, callVars
<1> QED BY <1>1, <1>2, <1>4, <1>5, <1>6, <1>7, <1>8, <1>9, TakeStep DEF schedVars

\* sema_down() joining the waiters and blocking.
LEMMA DownBlocksStep ==
    ASSUME DonationInv, NEW t \in Threads, current = t, pc[t] \in {"down", "loop"}, DownBlocks(t),
           UNCHANGED <<threadVars, holder, held, callVars, own, calls, stopped>>
    PROVE  StepHolds
<1>1. PICK l, s : l = lock[t] /\ s = ListSort(Append(waiters[l], t), ByPriority(priority))
  OBVIOUS
<1>2. TypeOK /\ PlaceInv /\ WaitersInv /\ QueueInv  BY DEF DonationInv
<1>3. t \in Users /\ PlaceOf(t) /\ l \in Locks
  BY <1>1, <1>2 DEF PlaceInv, PlaceOf, LockPlaces, Users
<1>4. /\ value[l] = 0 /\ waiters' = [waiters EXCEPT ![l] = s] /\ Schedule(ready_list)
      /\ pc' = [pc EXCEPT ![t] = "loop"] /\ UNCHANGED <<value, lock_waiting_for>>
  BY <1>1, <1>2 DEF DownBlocks, Goto
<1>5. pc'[t] = "loop" /\ \A u \in Threads : u # t => pc'[u] = pc[u]
  BY <1>2, <1>4 DEF TypeOK
<1>6. Moves(t)  BY <1>3, <1>4, <1>5 DEF Moves, callVars
<1>7. \A k \in Locks : ~ OnList(t, waiters[k])  BY <1>6, MoverFree
<1>8. waiters'[l] = s /\ \A k \in Locks : k # l => waiters'[k] = waiters[k]
  BY <1>2, <1>3, <1>4 DEF WaitersInv
<1>9. /\ s \in Seq(Users) /\ NoTwice(s)
      /\ \A y : OnList(y, s) <=> OnList(y, waiters[l]) \/ y = t
  <2>1. PICK q : q = waiters[l]  OBVIOUS
  <2>2. q \in Seq(Users) /\ NoTwice(q) /\ ~ OnList(t, q)  BY <1>2, <1>3, <1>7, <2>1 DEF WaitersInv
  <2> QED BY <1>1, <1>3, <2>1, <2>2, SortedIn
<1>10. PlaceOf(t)'  BY <1>3, <1>4, <1>5 DEF PlaceOf, LockPlaces, Donating, Counting, Releasing, callVars
<1>11. PlaceInv'  BY <1>6, <1>10, PlacesKept
<1>12. WaitersInv'
  <2>1. waiters' \in [Locks -> Seq(Users)]  BY <1>2, <1>4, <1>9 DEF WaitersInv
  <2>2. \A k \in Locks : NoTwice(waiters'[k])  BY <1>2, <1>8, <1>9 DEF WaitersInv
  <2>3. ASSUME NEW k \in Locks, NEW u \in Users, OnList(u, waiters'[k])
        PROVE  pc'[u] = "loop" /\ lock'[u] = k
    <3>1. CASE u = t
      <4>1. k = l  BY <1>7, <1>8, <2>3, <3>1
      <4> QED BY <1>1, <1>5, <3>1, <4>1 DEF callVars
    <3>2. CASE u # t
      <4>1. OnList(u, waiters[k])  BY <1>8, <1>9, <2>3, <3>2
      <4>2. pc[u] = "loop" /\ lock[u] = k  BY <1>2, <4>1 DEF WaitersInv
      <4> QED BY <1>5, <3>2, <4>2, ThreadSets DEF callVars
    <3> QED BY <3>1, <3>2
  <2> QED BY <2>1, <2>2, <2>3 DEF WaitersInv
<1>13. MutualExclusion'
  <2>1. \A k \in Locks : Owns(t, k)' <=> Owns(t, k)  BY <1>5 DEF Owns, callVars
  <2> QED BY <1>4, <1>6, <2>1, ExclusionKept
<1>14. NoLostWakeup'
  <2>1. SUFFICES ASSUME NEW k \in Locks, value[k] > 0, waiters'[k] # <<>>
                 PROVE  \E u \in Users : pc'[u] = "loop" /\ lock'[u] = k /\ ~ OnList(u, waiters'[k])
    BY <1>4 DEF NoLostWakeup
  <2>2. k # l  BY <1>4, <2>1
  <2>3. PICK u \in Users : pc[u] = "loop" /\ lock[u] = k /\ ~ OnList(u, waiters[k])
    BY <1>8, <2>1, <2>2 DEF DonationInv, NoLostWakeup
  <2>4. u # t  BY <1>1, <2>2, <2>3
  <2>5. pc'[u] = "loop" /\ lock'[u] = k  BY <1>5, <2>3, <2>4, ThreadSets DEF callVars
  <2> QED BY <1>8, <2>2, <2>3, <2>5
<1>15. WakesNow
  <2>1. \A k \in Locks, u \in Users : OnList(u, waiters[k]) => OnList(u, waiters'[k])
    BY <1>8, <1>9
  <2> QED BY <2>1 DEF WakesNow
<1>16. PICK rl : rl = ready_list  OBVIOUS
<1>17. rl \in Seq(Users) /\ NoTwice(rl) /\ ~ OnList(t, rl)  BY <1>2, <1>16 DEF QueueInv
<1>18. \A u \in Users : OnList(u, rl) => Awake(u)'
  <2>1. SUFFICES ASSUME NEW u \in Users, OnList(u, rl) PROVE Awake(u)'
    OBVIOUS
  <2>2. u # t /\ Awake(u)  BY <1>2, <1>16, <1>17, <2>1 DEF QueueInv
  <2>3. pc'[u] # "asleep"  BY <1>5, <2>2, ThreadSets DEF Awake
  <2>4. \A k \in Locks : ~ OnList(u, waiters'[k])  BY <1>8, <1>9, <2>2 DEF Awake
  <2> QED BY <2>3, <2>4 DEF Awake
<1>19. QueueInv' /\ \A u : OnList(u, ready_list') => OnList(u, rl)
  BY <1>4, <1>11, <1>12, <1>16, <1>17, <1>18, Scheduled
<1>20. YieldsNow  BY <1>17, <1>19 DEF YieldsNow
<1>21. TypeOK'
  <2>1. pc' \in [Threads -> Places]  BY <1>2, <1>4 DEF TypeOK, Places
  <2> QED BY <1>2, <1>4, <1>12, <1>19, <2>1
      DEF TypeOK, Places, QueueInv, WaitersInv, threadVars, callVars
<1> QED BY <1>11, <1>12, <1>13, <1>14, <1>15, <1>19, <1>20, <1>21 DEF StepHolds, DonationInv

\* sema_down(), at its entry and each time round its loop.
LEMMA DownStep ==
    ASSUME DonationInv, NEW t \in Threads, Down(t)
    PROVE  StepHolds
<1>1. /\ current = t /\ pc[t] \in {"down", "loop"} /\ (DownTakes(t) \/ DownBlocks(t))
      /\ UNCHANGED <<threadVars, holder, held, callVars, own, calls, stopped>>
  BY DEF Down, At
<1>2. CASE DownTakes(t)  BY <1>1, <1>2, DownTakesStep
<1>3. CASE DownBlocks(t)  BY <1>1, <1>3, DownBlocksStep
<1> QED BY <1>1, <1>2, <1>3

\* A unit is given back by its owner: nobody owns the lock.
LEMMA GivenBack ==
    ASSUME DonationInv, NEW t, Moves(t), NEW l \in Locks, Owns(t, l),
           value' = [value EXCEPT ![l] = @ + 1],
           \A k \in Locks : Owns(t, k)' <=> Owns(t, k) /\ k # l
    PROVE  /\ MutualExclusion' /\ value' \in [Locks -> 0 .. 1]
           /\ value'[l] = 1 /\ \A k \in Locks : k # l => value'[k] = value[k]
<1>1. value \in [Locks -> 0 .. 1] /\ t \in Users  BY DEF DonationInv, TypeOK, Moves
<1>2. value[l] = 0
  <2>1. value[l] # 1  BY <1>1 DEF DonationInv, MutualExclusion
  <2> QED BY <1>1, <2>1
<1>3. value'[l] = 1 /\ \A k \in Locks : k # l => value'[k] = value[k]  BY <1>1, <1>2
<1>4. value' \in [Locks -> 0 .. 1]  BY <1>1, <1>2
<1>5. \A u \in Users, k \in Locks : u # t => (Owns(u, k)' <=> Owns(u, k))  BY OthersOwn
<1>6. \A u \in Users : ~ Owns(u, l)'  BY <1>1, <1>5 DEF DonationInv, MutualExclusion
<1>7. \A u \in Users, k \in Locks : k # l => (Owns(u, k)' <=> Owns(u, k))  BY <1>1, <1>5
<1>8. SUFFICES ASSUME NEW k \in Locks
               PROVE  /\ \A x, u \in Users : Owns(x, k)' /\ Owns(u, k)' => x = u
                      /\ value'[k] = 1 <=> \A x \in Users : ~ Owns(x, k)'
  BY <1>3, <1>4 DEF MutualExclusion
<1>9. CASE k = l  BY <1>3, <1>6, <1>9
<1>10. CASE k # l  BY <1>3, <1>7, <1>10 DEF DonationInv, MutualExclusion
<1> QED BY <1>9, <1>10

\* sema_up(): the first of the sorted waiters is made ready, and t yields if that one
\* has a higher priority.
WakesFirst(t, l, w, wt, rl) ==
    /\ w = SortedWaiters(l) /\ wt = Head(w) /\ rl = Queued(ready_list, wt)
    /\ waiters' = [waiters EXCEPT ![l] = Tail(w)]
    /\ IF priority[wt] > priority[t] THEN Yield(t, rl)
       ELSE ready_list' = rl /\ UNCHANGED current

\* sema_up() waking one of several waiters keeps the lists, and the choice is right.
LEMMA UpWakes ==
    ASSUME DonationInv, NEW t \in Users, current = t, NEW l \in Locks, waiters[l] # <<>>,
           Moves(t), PlaceInv', pc[t] # "loop", pc'[t] # "asleep",
           NEW w, NEW wt, NEW rl, WakesFirst(t, l, w, wt, rl)
    PROVE  /\ WaitersInv' /\ QueueInv' /\ WakesNow /\ YieldsNow
           /\ \A k \in Locks : k # l => waiters'[k] = waiters[k]
           /\ wt \in Users /\ wt # t /\ pc[wt] = "loop" /\ lock[wt] = l
           /\ ~ OnList(wt, waiters'[l])
<1>0. /\ w = SortedWaiters(l) /\ wt = Head(w) /\ rl = Queued(ready_list, wt)
      /\ waiters' = [waiters EXCEPT ![l] = Tail(w)]
      /\ IF priority[wt] > priority[t] THEN Yield(t, rl)
         ELSE ready_list' = rl /\ UNCHANGED current
  BY DEF WakesFirst
<1>1. TypeOK /\ PlaceInv /\ WaitersInv /\ QueueInv  BY DEF DonationInv
<1>2. PICK q, key, rest : q = waiters[l] /\ key = ByPriority(priority) /\ rest = Tail(w)
  OBVIOUS
<1>3. q \in Seq(Users) /\ NoTwice(q) /\ q # <<>>  BY <1>1, <1>2 DEF WaitersInv
<1>4. /\ w \in Seq(Users) /\ NoTwice(w) /\ w # <<>> /\ Ordered(w, key)
      /\ \A y : OnList(y, w) <=> OnList(y, q)
  <2>1. key \in [Threads -> Int]
    <3>1. \A u \in Threads : priority[u] \in Nat  BY <1>1 DEF TypeOK
    <3>2. \A u \in Threads : - priority[u] \in Int  BY <3>1
    <3> QED BY <1>2, <3>2 DEF ByPriority
  <2>2. q \in Seq(Threads) /\ w = ListSort(q, key)  BY <1>0, <1>2, <1>3, ThreadSets DEF SortedWaiters
  <2>3. /\ w \in Seq(Threads) /\ Len(w) = Len(q) /\ NoTwice(w) /\ Ordered(w, key)
        /\ \A y : OnList(y, w) <=> OnList(y, q)
    BY <1>3, <2>1, <2>2, SortResult
  <2>4. w # <<>>  BY <1>3, <2>3
  <2>5. \A y : OnList(y, q) => y \in Users  BY <1>3 DEF OnList
  <2>6. \A y : OnList(y, w) => y \in Users  BY <2>3, <2>5
  <2>7. w \in Seq(Users)  BY <2>3, <2>6, ElementsIn
  <2> QED BY <2>3, <2>4, <2>7
<1>5. /\ wt \in Users /\ OnList(wt, w) /\ rest \in Seq(Users) /\ NoTwice(rest)
      /\ \A x : OnList(x, rest) <=> OnList(x, w) /\ x # wt
      /\ \A i \in DOMAIN rest : key[wt] <= key[rest[i]]
  BY <1>0, <1>2, <1>4, FirstOut
<1>6. waiters'[l] = rest /\ \A k \in Locks : k # l => waiters'[k] = waiters[k]
  BY <1>0, <1>1, <1>2 DEF WaitersInv
<1>7. pc[wt] = "loop" /\ lock[wt] = l /\ wt # t  BY <1>1, <1>2, <1>4, <1>5 DEF WaitersInv
<1>8. \A k \in Locks, u \in Users : OnList(u, waiters'[k]) => OnList(u, waiters[k])
  BY <1>2, <1>4, <1>5, <1>6
<1>9. WaitersInv'
  <2>1. waiters' \in [Locks -> Seq(Users)]  BY <1>0, <1>1, <1>2, <1>5 DEF WaitersInv
  <2>2. \A k \in Locks : NoTwice(waiters'[k])  BY <1>1, <1>5, <1>6 DEF WaitersInv
  <2>3. ASSUME NEW k \in Locks, NEW u \in Users, OnList(u, waiters'[k])
        PROVE  pc'[u] = "loop" /\ lock'[u] = k
    <3>1. OnList(u, waiters[k])  BY <1>8, <2>3
    <3>2. pc[u] = "loop" /\ lock[u] = k  BY <1>1, <3>1 DEF WaitersInv
    <3>3. u # t  BY <3>2
    <3> QED BY <3>2, <3>3, ThreadSets DEF Moves
  <2> QED BY <2>1, <2>2, <2>3 DEF WaitersInv
<1>10. \A u \in Users : u # t /\ Awake(u) => Awake(u)'
  BY <1>8, ThreadSets DEF Awake, Moves
<1>11. Awake(t)'
  <2>1. \A k \in Locks : ~ OnList(t, waiters[k])  BY MoverFree
  <2> QED BY <1>8, <2>1 DEF Awake
<1>12. ~ OnList(wt, rest)  BY <1>5
<1>13. Awake(wt)'
  <2>1. pc'[wt] = "loop"  BY <1>5, <1>7, ThreadSets DEF Moves
  <2>2. \A k \in Locks : k # l => ~ OnList(wt, waiters[k])  BY <1>1, <1>5, <1>7 DEF WaitersInv
  <2>3. \A k \in Locks : ~ OnList(wt, waiters'[k])  BY <1>6, <1>12, <2>2
  <2> QED BY <2>1, <2>3 DEF Awake
<1>14. PICK ready : ready = ready_list  OBVIOUS
<1>15. /\ ready \in Seq(Users) /\ NoTwice(ready) /\ ~ OnList(t, ready)
       /\ \A u \in Users : OnList(u, ready) => Awake(u)
  BY <1>1, <1>14 DEF QueueInv
<1>16. ~ OnList(wt, ready)
  <2>1. OnList(wt, waiters[l])  BY <1>2, <1>4, <1>5
  <2> QED BY <1>5, <1>15, <2>1 DEF Awake
<1>17. rl \in Seq(Users) /\ NoTwice(rl) /\ \A y : OnList(y, rl) <=> OnList(y, ready) \/ y = wt
  BY <1>0, <1>5, <1>14, <1>15, <1>16, QueuedIs
<1>18. ~ OnList(t, rl)  BY <1>7, <1>15, <1>17
<1>19. \A u \in Users : OnList(u, rl) => Awake(u)'  BY <1>10, <1>13, <1>15, <1>17
<1>20. QueueInv' /\ YieldsNow
  <2>1. CASE priority[wt] > priority[t]
    <3>1. Yield(t, rl)  BY <1>0, <2>1
    <3> QED BY <1>9, <1>11, <1>17, <1>18, <1>19, <3>1, Yielded
  <2>2. CASE ~ (priority[wt] > priority[t])
    <3>1. ready_list' = rl /\ current' = t  BY <1>0, <2>2
    <3>2. Awake(current)'  BY <1>11, <3>1 DEF Awake
    <3>3. QueueInv'  BY <1>17, <1>18, <1>19, <3>1, <3>2, ThreadSets DEF QueueInv
    <3>4. YieldsNow  BY <1>18, <3>1 DEF YieldsNow
    <3> QED BY <3>3, <3>4
  <2> QED BY <2>1, <2>2
<1>21. WakesNow
  <2>1. SUFFICES ASSUME NEW k \in Locks, NEW u \in Users, OnList(u, waiters[k]),
                        ~ OnList(u, waiters'[k]), NEW i \in DOMAIN waiters'[k]
                 PROVE  priority[waiters'[k][i]] <= priority[u]
    BY DEF WakesNow
  <2>2. k = l  BY <1>6, <2>1
  <2>3. u = wt  BY <1>2, <1>4, <1>5, <1>6, <2>1, <2>2
  <2>4. i \in DOMAIN rest /\ waiters'[k][i] = rest[i]  BY <1>6, <2>1, <2>2
  <2>5. rest[i] \in Threads /\ wt \in Threads  BY <1>5, <2>4, ThreadSets
  <2>6. ByPriority(priority)[wt] <= ByPriority(priority)[rest[i]]  BY <1>2, <1>5, <2>4
  <2>7. priority[rest[i]] <= priority[wt]  BY <2>5, <2>6, FirstIsHighest
  <2> QED BY <2>3, <2>4, <2>7
<1> QED BY <1>5, <1>6, <1>7, <1>9, <1>12, <1>20, <1>21

\* sema_up() at the end of lock_release().
LEMMA ReleaseUpStep ==
    ASSUME DonationInv, NEW t \in Threads, ReleaseUp(t)
    PROVE  StepHolds
<1>1. PICK l : l = lock[t]  OBVIOUS
<1>2. /\ current = t /\ pc[t] = "up" /\ lock' = [lock EXCEPT ![t] = NULL]
      /\ pc' = [pc EXCEPT ![t] = "run"] /\ value' = [value EXCEPT ![l] = @ + 1]
      /\ UNCHANGED <<threadVars, lock_waiting_for, holder, held, chain, lh, arg, own, calls, stopped>>
  BY <1>1 DEF ReleaseUp, Up, At, Goto
<1>3. TypeOK /\ PlaceInv /\ QueueInv  BY DEF DonationInv
<1>4. t \in Users /\ PlaceOf(t) /\ l \in Locks /\ l \notin held[t] /\ NULL \notin Locks
  BY <1>1, <1>2, <1>3, DonationAssumption DEF PlaceInv, PlaceOf, LockPlaces, Donating, Counting, Releasing, Users
<1>5. /\ pc'[t] = "run" /\ lock'[t] = NULL
      /\ \A u \in Threads : u # t => pc'[u] = pc[u] /\ lock'[u] = lock[u]
  BY <1>2, <1>3 DEF TypeOK
<1>6. Moves(t)  BY <1>2, <1>4, <1>5 DEF Moves
<1>7. Owns(t, l) /\ \A k \in Locks : Owns(t, k)' <=> Owns(t, k) /\ k # l
  BY <1>1, <1>2, <1>4, <1>5 DEF Owns
<1>8. /\ MutualExclusion' /\ value' \in [Locks -> 0 .. 1]
      /\ \A k \in Locks : k # l => value'[k] = value[k]
  BY <1>2, <1>4, <1>6, <1>7, GivenBack
<1>9. PlaceOf(t)'  BY <1>2, <1>4, <1>5 DEF PlaceOf, LockPlaces, Donating, Counting, Releasing
<1>10. PlaceInv'  BY <1>6, <1>9, PlacesKept
<1>11. \A u \in Users : pc[u] = "loop" => pc'[u] = "loop" /\ lock'[u] = lock[u]
  BY <1>2, <1>5, ThreadSets
<1>12. WaitersInv' /\ QueueInv' => TypeOK'
  <2>1. pc' \in [Threads -> Places]  BY <1>2, <1>3 DEF TypeOK, Places
  <2>2. lock' \in [Threads -> Locks \union {NULL}]  BY <1>2, <1>3 DEF TypeOK
  <2> QED BY <1>2, <1>3, <1>8, <2>1, <2>2 DEF TypeOK, Places, QueueInv, WaitersInv, threadVars
<1>13. CASE waiters[l] = <<>>
  <2>1. UNCHANGED waiters /\ (Yield(t, ready_list) \/ UNCHANGED schedVars)
    BY <1>1, <1>13 DEF ReleaseUp, Up
  <2>2. WaitersInv'  BY <1>6, <2>1, WaitersKept
  <2>3. NoLostWakeup'
    <3>1. SUFFICES ASSUME NEW k \in Locks, value'[k] > 0, waiters[k] # <<>>
                   PROVE  \E u \in Users : pc'[u] = "loop" /\ lock'[u] = k /\ ~ OnList(u, waiters[k])
      BY <2>1 DEF NoLostWakeup
    <3>2. k # l /\ value[k] > 0  BY <1>8, <1>13, <3>1
    <3> QED BY <1>11, <3>1, <3>2 DEF DonationInv, NoLostWakeup
  <2>4. QueueInv' /\ YieldsNow
    <3>1. CASE Yield(t, ready_list)
      <4>1. PICK rl : rl = ready_list  OBVIOUS
      <4>2. rl \in Seq(Users) /\ NoTwice(rl) /\ ~ OnList(t, rl)  BY <1>2, <1>3, <4>1 DEF QueueInv
      <4>3. \A u \in Users : OnList(u, rl) => Awake(u)'
        BY <1>3, <1>6, <2>1, <4>1, <4>2, AwakeKept DEF QueueInv
      <4>4. Awake(t)'
        <5>1. \A k \in Locks : ~ OnList(t, waiters[k])  BY <1>6, MoverFree
        <5> QED BY <1>5, <2>1, <5>1 DEF Awake
      <4> QED BY <1>4, <1>10, <2>2, <3>1, <4>1, <4>2, <4>3, <4>4, Yielded
    <3>2. CASE UNCHANGED schedVars
      <4>1. QueueInv'  BY <1>5, <1>6, <2>1, <3>2, QueueKept DEF schedVars
      <4>2. YieldsNow  BY <1>3, <3>2 DEF YieldsNow, QueueInv, schedVars
      <4> QED BY <4>1, <4>2
    <3> QED BY <2>1, <3>1, <3>2
  <2>5. WakesNow  BY <2>1 DEF WakesNow
  <2> QED BY <1>8, <1>10, <1>12, <2>2, <2>3, <2>4, <2>5 DEF StepHolds, DonationInv
<1>14. CASE waiters[l] # <<>>
  <2>1. PICK w, wt, rl : w = SortedWaiters(l) /\ wt = Head(w) /\ rl = Queued(ready_list, wt)
    OBVIOUS
  <2>2. WakesFirst(t, l, w, wt, rl)  BY <1>1, <1>14, <2>1 DEF ReleaseUp, Up, WakesFirst
  <2>3. pc[t] # "loop" /\ pc'[t] # "asleep"  BY <1>2, <1>5
  <2>4. /\ WaitersInv' /\ QueueInv' /\ WakesNow /\ YieldsNow
        /\ \A k \in Locks : k # l => waiters'[k] = waiters[k]
        /\ wt \in Users /\ wt # t /\ pc[wt] = "loop" /\ lock[wt] = l
        /\ ~ OnList(wt, waiters'[l])
    BY <1>2, <1>4, <1>6, <1>10, <1>14, <2>2, <2>3, UpWakes
  <2>5. NoLostWakeup'
    <3>1. SUFFICES ASSUME NEW k \in Locks, value'[k] > 0, waiters'[k] # <<>>
                   PROVE  \E u \in Users : pc'[u] = "loop" /\ lock'[u] = k /\ ~ OnList(u, waiters'[k])
      BY DEF NoLostWakeup
    <3>2. CASE k = l  BY <1>11, <2>4, <3>2
    <3>3. CASE k # l
      <4>1. value[k] > 0 /\ waiters[k] # <<>> /\ waiters'[k] = waiters[k]
        BY <1>8, <2>4, <3>1, <3>3
      <4> QED BY <1>11, <4>1 DEF DonationInv, NoLostWakeup
    <3> QED BY <3>2, <3>3
  <2> QED BY <1>8, <1>10, <1>12, <2>4, <2>5 DEF StepHolds, DonationInv
<1> QED BY <1>13, <1>14

-----------------------------------------------------------------------------
(* The specification.                                                      *)

\* DonationInv depends on the variables only.
LEMMA StoppedStep ==
    ASSUME DonationInv, UNCHANGED vars
    PROVE  StepHolds
<1>1. UNCHANGED <<value, waiters, held, pc, lock, chain, lh, arg, lock_waiting_for>>
  BY DEF vars, lockVars, callVars
<1>2. PlaceInv' /\ WaitersInv' /\ MutualExclusion' /\ NoLostWakeup' /\ WakesNow
  BY <1>1, LocksStill
<1>3. UNCHANGED <<current, ready_list>>  BY DEF vars, schedVars
<1>4. QueueInv'  BY <1>1, <1>3 DEF DonationInv, QueueInv, Awake
<1>5. YieldsNow  BY <1>3 DEF YieldsNow, DonationInv, QueueInv
<1>6. TypeOK'  BY DEF DonationInv, TypeOK, vars, schedVars, threadVars, lockVars, callVars
<1> QED BY <1>2, <1>4, <1>5, <1>6 DEF StepHolds, DonationInv

\* Every step keeps DonationInv and chooses the highest priority.
LEMMA NextStep ==
    ASSUME DonationInv, [Next]_vars
    PROVE  StepHolds
<1>1. \A t \in Threads : Uses[t] \subseteq Locks /\ NewPriorities[t] \subseteq Nat
  BY DonationAssumption
<1>2. ASSUME NEW t \in Threads, Tick(t) \/ Sleep(t) \/ Wake(t)  PROVE StepHolds
  BY <1>2, TickStep, SleepStep, WakeStep
<1>3. ASSUME NEW t \in Threads, NEW l \in Uses[t],
             LockAcquire(t, l) \/ LockTryAcquire(t, l) \/ LockRelease(t, l)
      PROVE  StepHolds
  BY <1>1, <1>3, LockAcquireStep, LockTryAcquireStep, LockReleaseStep
<1>4. ASSUME NEW t \in Threads,
             \/ DonateRead(t) \/ DonateTest(t) \/ DonateLimit(t) \/ DonateSave(t) \/ DonateExist(t)
             \/ DonateCount(t) \/ DonatePush(t) \/ DonateBadPointer(t) \/ DonateRaise(t) \/ DonateFollow(t)
             \/ WaitFor(t) \/ Down(t) \/ SetHolder(t)
      PROVE  StepHolds
  BY <1>4, DonateReadStep, DonateTestStep, DonateSaveStep, DonateCountStep, DonatePushStep,
     DonateBadPointerStep, DonateRaiseStep, DonateFollowStep, WaitForStep, DownStep, SetHolderStep
<1>5. ASSUME NEW t \in Threads,
             RestoreCheck(t) \/ RestoreMatch(t) \/ ClearHolder(t) \/ Lower(t) \/ ReleaseUp(t)
      PROVE  StepHolds
  BY <1>5, RestoreCheckStep, RestoreMatchStep, ClearHolderStep, LowerStep, ReleaseUpStep
<1>6. ASSUME NEW t \in Threads, NEW p \in NewPriorities[t], SetPriority(t, p)  PROVE StepHolds
  BY <1>1, <1>6, SetPriorityStep
<1>7. ASSUME NEW t \in Threads, SetCurrent(t) \/ SetOriginal(t)  PROVE StepHolds
  BY <1>7, SetCurrentStep, SetOriginalStep
<1>8. CASE IdleBlock  BY <1>8, IdleBlockStep
<1>9. CASE Stopped  BY <1>9, StoppedStep DEF Stopped
<1>10. CASE UNCHANGED vars  BY <1>10, StoppedStep
<1> QED BY <1>2, <1>3, <1>4, <1>5, <1>6, <1>7, <1>8, <1>9, <1>10 DEF Next

-----------------------------------------------------------------------------
(* How far donors that race take the level of a thread past its limit.     *)

\* The sets that are counted.
LEMMA PendingFinite ==
    \A d \in Threads : /\ IsFiniteSet(Users \ {d}) /\ Cardinality(Users \ {d}) \in Nat
                       /\ IsFiniteSet(Pending(d)) /\ Cardinality(Pending(d)) \in Nat
<1> SUFFICES ASSUME NEW d \in Threads
             PROVE  /\ IsFiniteSet(Users \ {d}) /\ Cardinality(Users \ {d}) \in Nat
                    /\ IsFiniteSet(Pending(d)) /\ Cardinality(Pending(d)) \in Nat
  OBVIOUS
<1>1. IsFiniteSet(Users \ {d})
  <2>1. Users \ {d} \subseteq Threads  BY DEF Users
  <2> QED BY <2>1, DonationAssumption, FS_Subset
<1>2. IsFiniteSet(Pending(d))
  <2>1. Pending(d) \subseteq Users \ {d}  BY DEF Pending
  <2> QED BY <1>1, <2>1, FS_Subset
<1> QED BY <1>1, <1>2, FS_CardinalityType

\* One thread moves, no level rises and nobody comes to be counting.
Calm(t) ==
    /\ \A u \in Users : u # t => pc'[u] = pc[u] /\ lh'[u] = lh[u]
    /\ pc'[t] \in Counting => pc[t] \in Counting /\ lh'[t] = lh[t]
    /\ \A d \in Threads : donation_nested_level'[d] <= donation_nested_level[d]
LEMMA CalmStep ==
    ASSUME DonationInv, DonationInv', LevelInv, NEW t, Calm(t)
    PROVE  LevelInv'
<1> SUFFICES ASSUME NEW d \in Threads
             PROVE  donation_nested_level'[d] + Cardinality(Pending(d)')
                      <= MAX_NESTED_LEVEL - 1 + Cardinality(Users \ {d})
  BY DEF LevelInv
<1>1. Pending(d)' \subseteq Pending(d)  BY DEF Pending, Calm
<1>2. PICK P, Q : P = Pending(d) /\ Q = Pending(d)'  OBVIOUS
<1>3. IsFiniteSet(P) /\ Cardinality(P) \in Nat /\ Cardinality(Users \ {d}) \in Nat  BY <1>2, PendingFinite
<1>4. Cardinality(Q) \in Nat /\ Cardinality(Q) <= Cardinality(P)
  BY <1>1, <1>2, <1>3, FS_Subset, FS_CardinalityType
<1>5. donation_nested_level'[d] \in Nat /\ donation_nested_level[d] \in Nat
      /\ donation_nested_level'[d] <= donation_nested_level[d]
  BY DEF DonationInv, TypeOK, Calm
<1>6. donation_nested_level[d] + Cardinality(P) <= MAX_NESTED_LEVEL - 1 + Cardinality(Users \ {d})
  BY <1>2 DEF LevelInv
<1>7. MAX_NESTED_LEVEL - 1 \in Nat  BY DonationAssumption
<1> QED BY <1>2, <1>3, <1>4, <1>5, <1>6, <1>7

\* A thread that goes on to a place where it does not count.
LEMMA CalmMove ==
    ASSUME TypeOK, NEW t \in Threads, NEW place, place \notin Counting,
           pc' = [pc EXCEPT ![t] = place], donation_nested_level' = donation_nested_level,
           \A u \in Users : u # t => lh'[u] = lh[u]
    PROVE  Calm(t)
<1>1. Users \subseteq Threads /\ pc'[t] = place /\ \A u \in Users : u # t => pc'[u] = pc[u]
  BY ThreadSets DEF TypeOK
<1>2. \A d \in Threads : donation_nested_level'[d] <= donation_nested_level[d]
  <2>1. \A d \in Threads : donation_nested_level[d] \in Nat  BY DEF TypeOK
  <2>2. \A n \in Nat : n <= n  OBVIOUS
  <2> QED BY <2>1, <2>2
<1> QED BY <1>1, <1>2 DEF Calm

\* The test: the level is below the limit, whoever else is counting.
LEMMA LimitLevel ==
    ASSUME DonationInv, DonationInv', LevelInv, NEW t \in Threads, DonateLimit(t)
    PROVE  LevelInv'
<1> SUFFICES ASSUME NEW d \in Threads
             PROVE  donation_nested_level'[d] + Cardinality(Pending(d)')
                      <= MAX_NESTED_LEVEL - 1 + Cardinality(Users \ {d})
  BY DEF LevelInv
<1>1. /\ pc[t] = "limit" /\ UNCHANGED <<donation_nested_level, lh>>
      /\ pc' = [pc EXCEPT ![t] = IF donation_nested_level[lh[t]] >= MAX_NESTED_LEVEL THEN "want"
                                 ELSE IF donation_nested_level[lh[t]] = 0 THEN "save" ELSE "exist"]
  BY DEF DonateLimit, At, Goto, threadVars, callVars
<1>2. TypeOK /\ \A u \in Users : u # t => pc'[u] = pc[u]  BY <1>1, ThreadSets DEF DonationInv, TypeOK
<1>3. CASE d = lh[t] /\ donation_nested_level[d] < MAX_NESTED_LEVEL
  <2>1. PICK Q, U : Q = Pending(d)' /\ U = Users \ {d}  OBVIOUS
  <2>2. Q \subseteq U /\ IsFiniteSet(U) /\ Cardinality(U) \in Nat  BY <2>1, PendingFinite DEF Pending
  <2>3. Cardinality(Q) \in Nat /\ Cardinality(Q) <= Cardinality(U)
    BY <2>2, FS_Subset, FS_CardinalityType
  <2>4. donation_nested_level'[d] \in Nat /\ donation_nested_level'[d] <= MAX_NESTED_LEVEL - 1
    <3>1. donation_nested_level' = donation_nested_level /\ donation_nested_level[d] \in Nat
      BY <1>1, <1>2 DEF TypeOK
    <3>2. MAX_NESTED_LEVEL \in Nat /\ donation_nested_level[d] < MAX_NESTED_LEVEL  BY <1>3, DonationAssumption
    <3> QED BY <3>1, <3>2
  <2>5. MAX_NESTED_LEVEL - 1 \in Nat  BY DonationAssumption
  <2> QED BY <2>1, <2>2, <2>3, <2>4, <2>5
<1>4. CASE d # lh[t] \/ ~ (donation_nested_level[d] < MAX_NESTED_LEVEL)
  <2>1. Pending(d)' = Pending(d)
    <3>1. CASE d # lh[t]  BY <1>1, <1>2, <3>1 DEF Pending
    <3>2. CASE d = lh[t]
      <4>1. donation_nested_level[d] >= MAX_NESTED_LEVEL
        <5>1. donation_nested_level[d] \in Nat /\ MAX_NESTED_LEVEL \in Nat
          BY <1>2, DonationAssumption DEF TypeOK
        <5> QED BY <1>4, <3>2, <5>1
      <4>2. pc'[t] = "want"  BY <1>1, <1>2, <3>2, <4>1 DEF TypeOK
      <4> QED BY <1>1, <1>2, <4>2 DEF Pending, Counting
    <3> QED BY <3>1, <3>2
  <2> QED BY <1>1, <2>1 DEF LevelInv
<1> QED BY <1>3, <1>4

\* The count: one more, and one less to come.
LEMMA CountLevel ==
    ASSUME DonationInv, DonationInv', LevelInv, NEW t \in Threads, DonateCount(t)
    PROVE  LevelInv'
<1> SUFFICES ASSUME NEW d \in Threads
             PROVE  donation_nested_level'[d] + Cardinality(Pending(d)')
                      <= MAX_NESTED_LEVEL - 1 + Cardinality(Users \ {d})
  BY DEF LevelInv
<1>1. /\ At(t, pc[t]) /\ pc[t] = "count" /\ lh' = lh /\ pc' = [pc EXCEPT ![t] = "push"]
      /\ donation_nested_level' = [donation_nested_level EXCEPT ![lh[t]] = @ + 1]
  BY DEF DonateCount, At, Goto, callVars
<1>2. TypeOK /\ t \in Users /\ lh[t] \in Threads /\ lh[t] # t
  BY <1>1, Holder DEF Donating, Counting
<1>3. pc'[t] = "push" /\ \A u \in Users : u # t => pc'[u] = pc[u]  BY <1>1, <1>2, ThreadSets DEF TypeOK
<1>4. CASE d = lh[t]
  <2>1. PICK P, Q : P = Pending(d) /\ Q = Pending(d)'  OBVIOUS
  <2>2. t \in P /\ Q = P \ {t}  BY <1>1, <1>2, <1>3, <1>4, <2>1 DEF Pending, Counting
  <2>3. IsFiniteSet(P) /\ Cardinality(P) \in Nat /\ Cardinality(Users \ {d}) \in Nat  BY <2>1, PendingFinite
  <2>4. Cardinality(Q) = Cardinality(P) - 1  BY <2>2, <2>3, FS_RemoveElement
  <2>5. donation_nested_level[d] \in Nat /\ donation_nested_level'[d] = donation_nested_level[d] + 1
    BY <1>1, <1>2, <1>4 DEF TypeOK
  <2>6. donation_nested_level[d] + Cardinality(P) <= MAX_NESTED_LEVEL - 1 + Cardinality(Users \ {d})
    BY <2>1 DEF LevelInv
  <2>7. MAX_NESTED_LEVEL - 1 \in Nat  BY DonationAssumption
  <2> QED BY <2>1, <2>3, <2>4, <2>5, <2>6, <2>7
<1>5. CASE d # lh[t]
  <2>1. Pending(d)' = Pending(d)  BY <1>1, <1>3, <1>5 DEF Pending
  <2>2. donation_nested_level'[d] = donation_nested_level[d]  BY <1>1, <1>2, <1>5 DEF TypeOK
  <2> QED BY <2>1, <2>2 DEF LevelInv
<1> QED BY <1>4, <1>5

\* Every step keeps LevelInv.
LEMMA LevelStep ==
    ASSUME DonationInv, DonationInv', LevelInv, [Next]_vars
    PROVE  LevelInv'
<1> USE DEF Calm, Counting
<1>1. TypeOK /\ Users \subseteq Threads /\ \A d \in Threads : donation_nested_level[d] \in Nat
  BY ThreadSets DEF DonationInv, TypeOK
<1>2. ASSUME NEW t \in Threads, Tick(t) \/ Sleep(t) \/ Wake(t)  PROVE Calm(t)
  BY <1>1, <1>2 DEF Tick, Sleep, Wake, Goto, TypeOK, threadVars, callVars
<1>3. ASSUME NEW t \in Threads, NEW l,
             LockAcquire(t, l) \/ LockTryAcquire(t, l) \/ LockRelease(t, l)
      PROVE  Calm(t)
  BY <1>1, <1>3 DEF LockAcquire, LockTryAcquire, LockRelease, Goto, TypeOK, threadVars
<1>4. ASSUME NEW t \in Threads, DonateRead(t) \/ WaitFor(t)
      PROVE  Calm(t)
  <2>1. CASE DonateRead(t)
    <3>1. PICK place \in {"want", "give"} : pc' = [pc EXCEPT ![t] = place]  BY <2>1 DEF DonateRead, Goto
    <3>2. lh' = [lh EXCEPT ![t] = holder[chain[t]]] /\ donation_nested_level' = donation_nested_level
      BY <2>1 DEF DonateRead, threadVars
    <3>3. \A u \in Users : u # t => lh'[u] = lh[u]  BY <1>1, <3>2 DEF TypeOK
    <3> QED BY <1>1, <3>1, <3>2, <3>3, CalmMove
  <2>2. CASE WaitFor(t)
    <3>1. /\ pc' = [pc EXCEPT ![t] = "down"] /\ lh' = [lh EXCEPT ![t] = NULL]
          /\ donation_nested_level' = donation_nested_level
      BY <2>2 DEF WaitFor, Goto, threadVars
    <3>2. \A u \in Users : u # t => lh'[u] = lh[u]  BY <1>1, <3>1 DEF TypeOK
    <3> QED BY <1>1, <3>1, <3>2, CalmMove
  <2> QED BY <1>4, <2>1, <2>2
<1>5. ASSUME NEW t \in Threads, DonateTest(t) \/ DonateSave(t) \/ DonateExist(t) \/ DonatePush(t)
      PROVE  Calm(t)
  <2>1. UNCHANGED <<donation_nested_level, lh>>
    BY <1>5 DEF DonateTest, DonateSave, DonateExist, DonatePush, threadVars, callVars
  <2>2. /\ \A u \in Users : u # t => pc'[u] = pc[u]
        /\ pc'[t] \in Counting => pc[t] \in Counting
    <3>1. CASE DonateTest(t)  BY <1>1, <3>1 DEF DonateTest, At, Goto, TypeOK
    <3>2. CASE DonateSave(t)  BY <1>1, <3>2 DEF DonateSave, At, Goto, TypeOK
    <3>3. CASE DonateExist(t)  BY <1>1, <3>3 DEF DonateExist, At, Goto, TypeOK
    <3>4. CASE DonatePush(t)  BY <1>1, <3>4 DEF DonatePush, At, Goto, TypeOK
    <3> QED BY <1>5, <3>1, <3>2, <3>3, <3>4
  <2> QED BY <1>1, <2>1, <2>2
<1>6. ASSUME NEW t \in Threads, DonateBadPointer(t) \/ DonateRaise(t) \/ DonateFollow(t)
      PROVE  Calm(t)
  <2>1. UNCHANGED <<donation_nested_level, lh>>
    BY <1>6 DEF DonateBadPointer, DonateRaise, DonateFollow, threadVars, callVars
  <2>2. /\ \A u \in Users : u # t => pc'[u] = pc[u]
        /\ pc'[t] \in Counting => pc[t] \in Counting
    <3>1. CASE DonateBadPointer(t)  BY <1>1, <3>1 DEF DonateBadPointer
    <3>2. CASE DonateRaise(t)  BY <1>1, <3>2 DEF DonateRaise, At, Goto, TypeOK
    <3>3. CASE DonateFollow(t)  BY <1>1, <3>3 DEF DonateFollow, At, Goto, TypeOK
    <3> QED BY <1>6, <3>1, <3>2, <3>3
  <2> QED BY <1>1, <2>1, <2>2
<1>7. ASSUME NEW t \in Threads, Down(t) \/ SetHolder(t)
      PROVE  Calm(t)
  <2>1. PICK place \in {"holder", "loop", "run"} : pc' = [pc EXCEPT ![t] = place]
    BY <1>7 DEF Down, DownTakes, DownBlocks, SetHolder, Goto
  <2>2. UNCHANGED <<donation_nested_level, lh>>  BY <1>7 DEF Down, SetHolder, threadVars, callVars
  <2> QED BY <1>1, <2>1, <2>2, CalmMove
<1>8. ASSUME NEW t \in Threads, RestoreCheck(t)
      PROVE  Calm(t)
  <2>1. /\ lh' = lh
        /\ \/ /\ donation_nested_level[t] # 0
              /\ donation_nested_level' = [donation_nested_level EXCEPT ![t] = @ - 1]
              /\ pc' = [pc EXCEPT ![t] = "match"]
           \/ /\ donation_nested_level' = donation_nested_level
              /\ pc' = [pc EXCEPT ![t] = "clear"]
    BY <1>8 DEF RestoreCheck, Donated, Goto
  <2>2. /\ \A u \in Users : u # t => pc'[u] = pc[u]
        /\ pc'[t] \notin Counting
    BY <1>1, <2>1 DEF TypeOK
  <2>3. ASSUME NEW d \in Threads  PROVE donation_nested_level'[d] <= donation_nested_level[d]
    <3>1. donation_nested_level[d] \in Nat /\ DOMAIN donation_nested_level = Threads  BY <1>1 DEF TypeOK
    <3>2. donation_nested_level'[d] \in {donation_nested_level[d], donation_nested_level[d] - 1}
      BY <2>1, <3>1
    <3> QED BY <3>1, <3>2
  <2> QED BY <2>1, <2>2, <2>3
<1>9. ASSUME NEW t \in Threads, RestoreMatch(t) \/ ClearHolder(t) \/ Lower(t) \/ ReleaseUp(t)
      PROVE  Calm(t)
  <2>1. PICK place \in {"clear", "lower", "up", "run"} : pc' = [pc EXCEPT ![t] = place]
    BY <1>9 DEF RestoreMatch, ClearHolder, Lower, ReleaseUp, Goto
  <2>2. UNCHANGED <<donation_nested_level, lh>>
    BY <1>9 DEF RestoreMatch, ClearHolder, Lower, ReleaseUp, threadVars, callVars
  <2> QED BY <1>1, <2>1, <2>2, CalmMove
<1>10. ASSUME NEW t \in Threads, SetCurrent(t) \/ SetOriginal(t) \/ \E p \in NewPriorities[t] : SetPriority(t, p)
      PROVE  Calm(t)
  <2>1. PICK place \in {"set", "set_orig", "run"} : pc' = [pc EXCEPT ![t] = place]
    BY <1>10 DEF SetCurrent, SetOriginal, SetPriority, Goto
  <2>2. UNCHANGED <<donation_nested_level, lh>>
    BY <1>10 DEF SetCurrent, SetOriginal, SetPriority, threadVars, callVars
  <2> QED BY <1>1, <2>1, <2>2, CalmMove
<1>11. ASSUME IdleBlock \/ Stopped \/ UNCHANGED vars  PROVE Calm(Idle)
  BY <1>1, <1>11 DEF IdleBlock, Stopped, vars, threadVars, callVars
<1> HIDE DEF Calm
<1>12. (\E t \in Threads : DonateLimit(t) \/ DonateCount(t)) \/ \E t \in Threads : Calm(t)
  BY <1>2, <1>3, <1>4, <1>5, <1>6, <1>7, <1>8, <1>9, <1>10, <1>11, ThreadSets DEF Next
<1> QED BY <1>12, CalmStep, LimitLevel, CountLevel

\* All locks are free and nobody waits at first.
LEMMA InitHolds ==
    ASSUME Init
    PROVE  DonationInv
<1>1. Main \in Users /\ Users \subseteq Threads /\ NULL \notin Locks  BY DonationAssumption DEF Users
<1>2. \A x : ~ OnList(x, <<>>)  BY DEF OnList
<1>3. <<>> \in Seq(Users) /\ NoTwice(<<>>)  BY DEF NoTwice
<1>4. TypeOK
  <2>1. 0 \in Nat /\ 0 \in Nat \union {-1} /\ 1 \in 0 .. 1
    BY DonationAssumption
  <2>2. pc \in [Threads -> Places]  BY DEF Init, Places
  <2>3. arg \in [Threads -> Nat \union {-1}] /\ calls \in [Threads -> Nat]  BY <2>1 DEF Init
  <2>4. donation_nested_level \in [Threads -> Nat] /\ value \in [Locks -> 0 .. 1]
    BY <2>1 DEF Init
  <2>5. waiters \in [Locks -> Seq(Users)] /\ holder \in [Locks -> Users \union {NULL}]
    BY <1>3 DEF Init
  <2> QED BY <1>1, <1>3, <2>2, <2>3, <2>4, <2>5, DonationAssumption DEF TypeOK, Places, Init
<1>5. PlaceInv
  BY <1>1, DonationAssumption DEF Init, PlaceInv, PlaceOf, LockPlaces, Donating, Counting, Releasing, Users
<1>6. WaitersInv  BY <1>2, <1>3 DEF Init, WaitersInv
<1>7. QueueInv
  <2>1. Awake(Main)  BY <1>1, <1>2 DEF Init, Awake
  <2> QED BY <1>1, <1>2, <1>3, <2>1 DEF Init, QueueInv
<1>8. \A t \in Users, l \in Locks : ~ Owns(t, l)  BY <1>1 DEF Init, Owns
<1>9. MutualExclusion  BY <1>8 DEF Init, MutualExclusion
<1>10. NoLostWakeup  BY DEF Init, NoLostWakeup
<1> QED BY <1>4, <1>5, <1>6, <1>7, <1>9, <1>10 DEF DonationInv

LEMMA LevelInit ==
    ASSUME Init
    PROVE  LevelInv
<1> SUFFICES ASSUME NEW d \in Threads
             PROVE  donation_nested_level[d] + Cardinality(Pending(d))
                      <= MAX_NESTED_LEVEL - 1 + Cardinality(Users \ {d})
  BY DEF LevelInv
<1>1. Pending(d) = {}
  <2>1. \A u \in Threads : pc[u] \in {"run", "asleep"}  BY DEF Init
  <2> QED BY <2>1, ThreadSets DEF Pending, Counting
<1>2. Cardinality(Pending(d)) = 0 /\ donation_nested_level[d] = 0  BY <1>1, FS_EmptySet DEF Init
<1>3. MAX_NESTED_LEVEL - 1 \in Nat  BY DonationAssumption
<1>4. Cardinality(Users \ {d}) \in Nat  BY PendingFinite
<1> QED BY <1>2, <1>3, <1>4

\* DonationInv and LevelInv hold in every state of the locks and the scheduler below them.
THEOREM DonationInvariant == Spec => [](DonationInv /\ LevelInv)
<1>1. Init => DonationInv /\ LevelInv  BY InitHolds, LevelInit
<1>2. DonationInv /\ LevelInv /\ [Next]_vars => DonationInv' /\ LevelInv'
  <2>1. DonationInv /\ [Next]_vars => DonationInv'  BY NextStep DEF StepHolds
  <2> QED BY <2>1, LevelStep
<1> QED BY <1>1, <1>2, PTL DEF Spec

\* lock_acquire(), lock_try_acquire() and lock_release() with donation exclude each
\* other, lose no wakeup, take the level of nested donations past its limit by no more
\* than the donors that race, and leave lock_waiting_for true, for any number of
\* threads, locks and nested donations.
THEOREM LocksAreSound == Spec => []LocksSound
<1>1. ASSUME DonationInv, LevelInv PROVE LevelLimited
  <2> SUFFICES ASSUME NEW d \in Threads
               PROVE  donation_nested_level[d] <= MAX_NESTED_LEVEL - 1 + Cardinality(Users \ {d})
    BY DEF LevelLimited
  <2>1. Cardinality(Pending(d)) \in Nat /\ Cardinality(Users \ {d}) \in Nat /\ donation_nested_level[d] \in Nat
    BY <1>1, PendingFinite DEF DonationInv, TypeOK
  <2>2. donation_nested_level[d] + Cardinality(Pending(d)) <= MAX_NESTED_LEVEL - 1 + Cardinality(Users \ {d})
    BY <1>1 DEF LevelInv
  <2>3. MAX_NESTED_LEVEL - 1 \in Nat  BY DonationAssumption
  <2> QED BY <2>1, <2>2, <2>3
<1>2. DonationInv => TypeOK /\ MutualExclusion /\ NoLostWakeup /\ WaitingForIsTrue
  BY DEF DonationInv, WaitingForIsTrue, PlaceInv, PlaceOf
<1>3. DonationInv /\ LevelInv => LocksSound  BY <1>1, <1>2 DEF LocksSound
<1> QED BY <1>3, DonationInvariant, PTL

\* sema_up() wakes a waiter of the highest priority and thread_yield() runs a ready
\* thread of the highest priority, whatever donations did to them while they were queued.
THEOREM HighestIsChosen == Spec => HighestRuns
<1>1. DonationInv /\ [Next]_vars => WakesNow /\ YieldsNow  BY NextStep DEF StepHolds
<1>2. DonationInv /\ [Next]_vars =>
        [\A l \in Locks, t \in Users :
            OnList(t, waiters[l]) /\ ~ OnList(t, waiters'[l]) =>
                \A i \in DOMAIN waiters'[l] : priority[waiters'[l][i]] <= priority[t]]_vars
  BY <1>1 DEF WakesNow
<1>3. DonationInv /\ [Next]_vars =>
        [current # Idle /\ OnList(current, ready_list') =>
            \A i \in DOMAIN ready_list' : priority[ready_list'[i]] <= priority[current']]_vars
  BY <1>1 DEF YieldsNow
<1> QED BY <1>2, <1>3, DonationInvariant, PTL
    DEF Spec, HighestRuns, WakesHighest, YieldRunsHighest

=============================================================================
