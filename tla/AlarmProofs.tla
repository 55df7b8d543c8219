---------------------------- MODULE AlarmProofs ----------------------------
(***************************************************************************)
(* Proofs about Alarm: the lists of the alarm clock and of the priority    *)
(* scheduler stay sound, and the clock implements AlarmSpec, for every set *)
(* of threads, all priorities and every sleep.  Then proofs about Relay:   *)
(* the relays copy every byte once and in order, for every buffer size.    *)
(***************************************************************************)
EXTENDS Alarm, Relay, SequenceTheorems

Users == Threads \ {Idle}
Statuses == {"RUNNING", "READY", "BLOCKED"}

\* The ready list rl and the statuses st fit together, with cur on the CPU.
FitReady(rl, st) ==
    /\ rl \in Seq(Users) /\ NoTwice(rl) /\ Ordered(rl, ByPriority)
    /\ \A t \in Users : OnList(t, rl) <=> st[t] = "READY"
FitRunning(cur, st) ==
    /\ cur \in Threads /\ st \in [Threads -> Statuses]
    /\ \A t \in Threads : st[t] = "RUNNING" <=> t = cur
ReadyInv == FitReady(ready_list, status) /\ FitRunning(current, status)

\* The sleepers are in the order of their deadlines.
SleepInv ==
    /\ waiting_list \in Seq(Users) /\ NoTwice(waiting_list)
    /\ Ordered(waiting_list, waiting_ticks)
    /\ \A t \in Users : OnList(t, waiting_list) <=> status[t] = "BLOCKED"

\* Only other threads than idle are in timer_sleep().
PlaceInv ==
    /\ pc[Idle] \in {"block", "hlt"}
    /\ \A t \in Users : pc[t] \in {"run", "slept"}

AlarmInv == TypeOK /\ ReadyInv /\ SleepInv /\ PlaceInv

\* Nobody who is ready has a higher priority than the running thread.
Highest == \A i \in DOMAIN ready_list : Priority[ready_list[i]] <= Priority[current]

-----------------------------------------------------------------------------
\* thread_unblock(): the threads in seq join the ready list, which stays ordered.
LEMMA MadeReady ==
    ASSUME NEW rl \in Seq(Users), NEW seq \in Seq(Users), NoTwice(rl), NoTwice(seq),
           \A x : ~ (OnList(x, rl) /\ OnList(x, seq))
    PROVE  /\ MakeReady(rl, seq) \in Seq(Users) /\ NoTwice(MakeReady(rl, seq))
           /\ Ordered(MakeReady(rl, seq), ByPriority)
           /\ \A x : OnList(x, MakeReady(rl, seq)) <=> OnList(x, rl) \/ OnList(x, seq)
<1>1. PICK c : c = rl \o seq  OBVIOUS
<1>2. /\ c \in Seq(Users) /\ NoTwice(c)
      /\ \A x : OnList(x, c) <=> OnList(x, rl) \/ OnList(x, seq)
  BY <1>1, Joined
<1>3. c \in Seq(Threads) /\ ByPriority \in [Threads -> Int]
  <2>1. c \in Seq(Threads)  BY <1>2 DEF Users
  <2> QED BY <2>1, AlarmAssumption DEF ByPriority
<1>4. PICK s : s = ListSort(c, ByPriority)  OBVIOUS
<1>5. /\ s \in Seq(Threads) /\ NoTwice(s) /\ Ordered(s, ByPriority)
      /\ \A x : OnList(x, s) <=> OnList(x, c)
  BY <1>2, <1>3, <1>4, SortResult
<1>6. s \in Seq(Users)
  <2>1. \A i \in 1 .. Len(s) : OnList(s[i], s)  BY <1>5 DEF OnList
  <2>2. \A i \in 1 .. Len(s) : OnList(s[i], c)  BY <1>5, <2>1
  <2>3. \A i \in 1 .. Len(s) : s[i] \in Users  BY <1>2, <2>2 DEF OnList
  <2> QED BY <1>5, <2>3
<1> QED BY <1>1, <1>2, <1>4, <1>5, <1>6 DEF MakeReady

\* schedule(): with nobody RUNNING any more, the first of the ready list gets the CPU,
\* and no thread left there has a higher priority; the sleepers are not touched.
LEMMA ScheduleStep ==
    ASSUME NEW rl, NEW st \in [Threads -> {"READY", "BLOCKED"}], FitReady(rl, st),
           Schedule(rl, st)
    PROVE  /\ ReadyInv' /\ Highest' /\ thread_ticks' = 0
           /\ \A t \in Users : status'[t] = "BLOCKED" <=> st[t] = "BLOCKED"
<1>0. rl \in Seq(Users) /\ Users \subseteq Threads /\ Idle \in Threads /\ Idle \notin Users
  BY AlarmAssumption DEF FitReady, Users
<1>1. CASE rl = <<>>
  <2>1. /\ current' = Idle /\ status' = [st EXCEPT ![Idle] = "RUNNING"]
        /\ ready_list' = rl /\ thread_ticks' = 0
    BY <1>1 DEF Schedule
  <2>2. \A t \in Users : status'[t] = st[t]  BY <1>0, <2>1
  <2>3. FitReady(rl, status')  BY <2>2 DEF FitReady
  <2>4. FitRunning(Idle, status')  BY <1>0, <2>1 DEF FitRunning, Statuses
  <2>5. Highest'  BY <1>1, <2>1 DEF Highest
  <2>6. ReadyInv'  BY <2>1, <2>3, <2>4 DEF ReadyInv
  <2> QED BY <2>1, <2>2, <2>5, <2>6
<1>2. CASE rl # <<>>
  <2>1. PICK next, rest : next = Head(rl) /\ rest = Tail(rl)  OBVIOUS
  <2>2. /\ current' = next /\ status' = [st EXCEPT ![next] = "RUNNING"]
        /\ ready_list' = rest /\ thread_ticks' = 0
    BY <1>2, <2>1 DEF Schedule
  <2>3. PICK n \in Nat : Len(rl) = n + 1
    <3>1. Len(rl) \in Nat /\ Len(rl) # 0  BY <1>0, <1>2
    <3> QED BY <3>1
  <2>4. /\ rest \in Seq(Users) /\ Len(rest) = n /\ DOMAIN rest = 1 .. n
        /\ \A i \in 1 .. n : rest[i] = rl[i + 1]
        /\ next = rl[1] /\ next \in Users
    BY <1>0, <1>2, <2>1, <2>3
  <2>5. DOMAIN rl = 1 .. n + 1 /\ \A i \in 1 .. n : i + 1 \in 1 .. n + 1 /\ 1 \in 1 .. n + 1
                                                    /\ 1 < i + 1 /\ i + 1 # 1
    BY <1>0, <2>3
  <2>6. NoTwice(rl) /\ Ordered(rl, ByPriority) /\ \A t \in Users : OnList(t, rl) <=> st[t] = "READY"
    BY DEF FitReady
  <2>7. NoTwice(rest)
    <3>1. SUFFICES ASSUME NEW i \in 1 .. n, NEW j \in 1 .. n, rest[i] = rest[j] PROVE i = j
      BY <2>4 DEF NoTwice
    <3>2. rl[i + 1] = rl[j + 1]  BY <2>4, <3>1
    <3>3. i + 1 = j + 1  BY <2>3, <2>5, <2>6, <3>2 DEF NoTwice
    <3> QED BY <3>3
  <2>8. Ordered(rest, ByPriority)
    <3>1. SUFFICES ASSUME NEW i \in 1 .. n, NEW j \in 1 .. n, i < j
                   PROVE  ByPriority[rest[i]] <= ByPriority[rest[j]]
      BY <2>4 DEF Ordered
    <3>2. i + 1 < j + 1 /\ i + 1 \in 1 .. n + 1 /\ j + 1 \in 1 .. n + 1  BY <3>1
    <3>3. ByPriority[rl[i + 1]] <= ByPriority[rl[j + 1]]  BY <2>3, <2>6, <3>2 DEF Ordered
    <3> QED BY <2>4, <3>3
  <2>9. \A t : OnList(t, rest) <=> OnList(t, rl) /\ t # next
    <3>1. ASSUME NEW t, OnList(t, rest) PROVE OnList(t, rl) /\ t # next
      <4>1. PICK i \in 1 .. n : rest[i] = t  BY <2>4, <3>1 DEF OnList
      <4>2. rl[i + 1] = t  BY <2>4, <4>1
      <4>3. t # next  BY <2>3, <2>4, <2>5, <2>6, <4>2 DEF NoTwice
      <4> QED BY <2>5, <4>2, <4>3 DEF OnList
    <3>2. ASSUME NEW t, OnList(t, rl), t # next PROVE OnList(t, rest)
      <4>1. PICK i \in 1 .. n + 1 : rl[i] = t  BY <2>5, <3>2 DEF OnList
      <4>2. i # 1  BY <2>4, <3>2, <4>1
      <4>3. PICK j \in 1 .. n : i = j + 1
        <5>1. i - 1 \in 1 .. n /\ i = (i - 1) + 1  BY <4>2
        <5> QED BY <5>1
      <4> QED BY <2>4, <4>1, <4>3 DEF OnList
    <3> QED BY <3>1, <3>2
  <2>10. /\ status' \in [Threads -> Statuses] /\ status'[next] = "RUNNING"
         /\ \A t \in Threads : t # next => status'[t] = st[t]
    BY <1>0, <2>2, <2>4 DEF Statuses
  <2>11. \A t \in Users : OnList(t, rest) <=> status'[t] = "READY"
    BY <1>0, <2>6, <2>9, <2>10
  <2>12. FitReady(rest, status')  BY <2>4, <2>7, <2>8, <2>11 DEF FitReady
  <2>13. FitRunning(next, status')  BY <1>0, <2>4, <2>10 DEF FitRunning
  <2>14. ReadyInv'  BY <2>2, <2>12, <2>13 DEF ReadyInv
  <2>15. \A i \in 1 .. n : Priority[rest[i]] <= Priority[next]
    <3>1. SUFFICES ASSUME NEW i \in 1 .. n PROVE Priority[rest[i]] <= Priority[next]
      OBVIOUS
    <3>2. ByPriority[rl[1]] <= ByPriority[rl[i + 1]]  BY <2>3, <2>5, <2>6 DEF Ordered
    <3>3. rest[i] \in Threads /\ next \in Threads /\ rl[i + 1] = rest[i] /\ rl[1] = next
      BY <1>0, <2>4
    <3>4. ByPriority[next] <= ByPriority[rest[i]]  BY <3>2, <3>3
    <3>5. PICK a \in Nat, b \in Nat : a = Priority[next] /\ b = Priority[rest[i]]
      BY <3>3, AlarmAssumption
    <3>6. - a <= - b  BY <3>3, <3>4, <3>5 DEF ByPriority
    <3> QED BY <3>5, <3>6
  <2>16. Highest'  BY <2>2, <2>4, <2>15 DEF Highest
  <2>17. next \in Users /\ st[next] = "READY"
    <3>1. OnList(next, rl)  BY <2>4, <2>5 DEF OnList
    <3> QED BY <2>4, <2>6, <3>1
  <2>18. \A t \in Users : status'[t] = "BLOCKED" <=> st[t] = "BLOCKED"
    BY <1>0, <2>10, <2>17
  <2> QED BY <2>2, <2>14, <2>16, <2>18
<1> QED BY <1>1, <1>2

\* thread_yield() from a state in which the running thread is on no list.
LEMMA YieldStep ==
    ASSUME NEW rl, NEW st, FitReady(rl, st), FitRunning(current, st), Yield(rl, st)
    PROVE  /\ ReadyInv' /\ Highest' /\ thread_ticks' = 0
           /\ \A t \in Users : status'[t] = "BLOCKED" <=> st[t] = "BLOCKED"
<1>0. Users \subseteq Threads /\ Idle \in Threads /\ Idle \notin Users
  BY AlarmAssumption DEF Users
<1>1. PICK su : su = [st EXCEPT ![current] = "READY"]  OBVIOUS
<1>2. PICK ru : ru = IF current = Idle THEN rl ELSE MakeReady(rl, <<current>>)  OBVIOUS
<1>3. Schedule(ru, su)  BY <1>1, <1>2 DEF Yield
<1>4. /\ su \in [Threads -> {"READY", "BLOCKED"}] /\ su[current] = "READY"
      /\ \A t \in Threads : t # current => su[t] = st[t]
      /\ st[current] = "RUNNING" /\ current \in Threads
  BY <1>1 DEF FitRunning, Statuses
<1>5. FitReady(ru, su)
  <2>1. CASE current = Idle
    <3>1. ru = rl /\ \A t \in Users : su[t] = st[t]  BY <1>0, <1>2, <1>4, <2>1
    <3> QED BY <3>1 DEF FitReady
  <2>2. CASE current # Idle
    <3>1. current \in Users /\ rl \in Seq(Users) /\ NoTwice(rl)
          /\ \A t \in Users : OnList(t, rl) <=> st[t] = "READY"
      BY <1>4, <2>2 DEF FitReady, Users
    <3>2. PICK one : one = <<current>>  OBVIOUS
    <3>3. one \in Seq(Users) /\ NoTwice(one) /\ \A y : OnList(y, one) <=> y = current
      BY <3>1, <3>2, Single
    <3>4. \A x : ~ (OnList(x, rl) /\ OnList(x, one))  BY <1>4, <3>1, <3>3
    <3>5. ru = MakeReady(rl, one)  BY <1>2, <2>2, <3>2
    <3>6. /\ ru \in Seq(Users) /\ NoTwice(ru) /\ Ordered(ru, ByPriority)
          /\ \A x : OnList(x, ru) <=> OnList(x, rl) \/ OnList(x, one)
      BY <3>1, <3>3, <3>4, <3>5, MadeReady
    <3>7. \A t \in Users : OnList(t, ru) <=> su[t] = "READY"
      BY <1>0, <1>4, <3>1, <3>3, <3>6
    <3> QED BY <3>6, <3>7 DEF FitReady
  <2> QED BY <2>1, <2>2
<1>6. /\ ReadyInv' /\ Highest' /\ thread_ticks' = 0
      /\ \A t \in Users : status'[t] = "BLOCKED" <=> su[t] = "BLOCKED"
  BY <1>3, <1>4, <1>5, ScheduleStep
<1>7. \A t \in Users : su[t] = "BLOCKED" <=> st[t] = "BLOCKED"  BY <1>0, <1>4
<1> QED BY <1>6, <1>7

-----------------------------------------------------------------------------
(* The steps.  Each keeps the invariant, gives the CPU to the highest      *)
(* ready thread if it gives it to another, and is a step of AlarmSpec or   *)
(* leaves its variables alone.                                             *)

Chosen == current' # current /\ ready_list' # <<>> =>
            \A i \in DOMAIN ready_list' : Priority[ready_list'[i]] <= Priority[current']
AlarmStep == \/ A!ATick \/ \E t \in Threads : A!ASleep(t)
             \/ UNCHANGED A!avars
StepHolds == AlarmInv' /\ Chosen /\ AlarmStep

\* No step moves the sleepers or their deadlines unless the code says so.
SleepersKept ==
    /\ UNCHANGED <<waiting_list, waiting_ticks, ticks>>
    /\ \A t \in Users : status'[t] = "BLOCKED" <=> status[t] = "BLOCKED"

\* A step that adds no sleeper, wakes none and does not tick is invisible to the alarm
\* clock.
LEMMA KeptStep ==
    ASSUME AlarmInv, SleepersKept
    PROVE  SleepInv' /\ AlarmStep
<1>1. SleepInv'  BY DEF AlarmInv, SleepInv, SleepersKept
<1>2. UNCHANGED A!avars  BY DEF SleepersKept, A!avars
<1> QED BY <1>1, <1>2 DEF AlarmStep

\* If the running thread has the highest priority, schedule() chose well.
LEMMA HighestChosen ==
    ASSUME Highest'
    PROVE  Chosen
BY DEF Highest, Chosen

\* The type invariant of the variables that the other parts do not mention.
LEMMA TypeParts ==
    ASSUME ReadyInv', SleepInv', thread_ticks' \in 0 .. TIME_SLICE - 1, ticks' \in 0 .. MaxTicks,
           waiting_ticks' \in [Threads -> Int], start' \in [Threads -> Nat],
           arg' \in [Threads -> Sleeps \union {0}],
           pc' \in [Threads -> {"run", "slept", "block", "hlt"}], panicked' \in BOOLEAN
    PROVE  TypeOK'
<1>1. \A q \in Seq(Users) : q \in Seq(Threads)  BY DEF Users
<1> QED BY <1>1 DEF TypeOK, ReadyInv, SleepInv, FitReady, FitRunning, Statuses

\* thread_yield() keeps AlarmInv.
LEMMA CallYieldStep ==
    ASSUME AlarmInv, NEW t \in Threads, CallYield(t), UNCHANGED panicked
    PROVE  StepHolds
<1>1. Yield(ready_list, status)
      /\ UNCHANGED <<ticks, waiting_list, waiting_ticks, pc, start, arg>>
  BY DEF CallYield
<1>2. FitReady(ready_list, status) /\ FitRunning(current, status)  BY DEF AlarmInv, ReadyInv
<1>3. /\ ReadyInv' /\ Highest' /\ thread_ticks' = 0
      /\ \A u \in Users : status'[u] = "BLOCKED" <=> status[u] = "BLOCKED"
  BY <1>1, <1>2, YieldStep
<1>4. SleepersKept  BY <1>1, <1>3 DEF SleepersKept
<1>5. SleepInv' /\ AlarmStep  BY <1>4, KeptStep
<1>6. TypeOK'
  <2>1. 0 \in 0 .. TIME_SLICE - 1  BY AlarmAssumption
  <2> QED BY <1>1, <1>3, <1>5, <2>1, TypeParts DEF AlarmInv, TypeOK
<1>7. PlaceInv'  BY <1>1 DEF AlarmInv, PlaceInv
<1> QED BY <1>3, <1>5, <1>6, <1>7, HighestChosen DEF StepHolds, AlarmInv

\* timer_sleep() up to the test of its argument keeps AlarmInv.
LEMMA SleepStartStep ==
    ASSUME AlarmInv, NEW t \in Threads, NEW n \in Sleeps, SleepStart(t, n), UNCHANGED panicked
    PROVE  StepHolds
<1>1. /\ start' = [start EXCEPT ![t] = ticks] /\ arg' = [arg EXCEPT ![t] = n]
      /\ pc' = [pc EXCEPT ![t] = "slept"] /\ t # Idle
      /\ UNCHANGED <<current, status, ready_list, thread_ticks, ticks, waiting_list, waiting_ticks>>
  BY DEF SleepStart
<1>2. ReadyInv'  BY <1>1 DEF AlarmInv, ReadyInv
<1>3. SleepersKept  BY <1>1 DEF SleepersKept
<1>4. SleepInv' /\ AlarmStep  BY <1>3, KeptStep
<1>5. TypeOK'
  <2>1. ticks \in Nat  BY DEF AlarmInv, TypeOK
  <2>2. start' \in [Threads -> Nat]  BY <1>1, <2>1 DEF AlarmInv, TypeOK
  <2>3. arg' \in [Threads -> Sleeps \union {0}]  BY <1>1 DEF AlarmInv, TypeOK
  <2>4. pc' \in [Threads -> {"run", "slept", "block", "hlt"}]  BY <1>1 DEF AlarmInv, TypeOK
  <2> QED BY <1>1, <1>2, <1>4, <2>2, <2>3, <2>4, TypeParts DEF AlarmInv, TypeOK
<1>6. PlaceInv'  BY <1>1 DEF AlarmInv, PlaceInv, TypeOK, Users
<1>7. Chosen  BY <1>1 DEF Chosen
<1> QED BY <1>2, <1>4, <1>5, <1>6, <1>7 DEF StepHolds, AlarmInv

\* idle() blocking again keeps AlarmInv.
LEMMA IdleBlockStep ==
    ASSUME AlarmInv, IdleBlock, UNCHANGED panicked
    PROVE  StepHolds
<1>0. Idle \in Threads /\ Idle \notin Users /\ Users \subseteq Threads
  BY AlarmAssumption DEF Users
<1>1. PICK st : st = [status EXCEPT ![Idle] = "BLOCKED"]  OBVIOUS
<1>2. /\ current = Idle /\ Schedule(ready_list, st) /\ pc' = [pc EXCEPT ![Idle] = "hlt"]
      /\ UNCHANGED <<ticks, waiting_list, waiting_ticks, start, arg>>
  BY <1>1 DEF IdleBlock
<1>3. status \in [Threads -> Statuses] /\ \A t \in Threads : status[t] = "RUNNING" <=> t = Idle
  BY <1>2 DEF AlarmInv, ReadyInv, FitRunning
<1>4. st \in [Threads -> {"READY", "BLOCKED"}] /\ \A t \in Users : st[t] = status[t]
  BY <1>0, <1>1, <1>3 DEF Statuses
<1>5. FitReady(ready_list, st)  BY <1>4 DEF AlarmInv, ReadyInv, FitReady
<1>6. /\ ReadyInv' /\ Highest' /\ thread_ticks' = 0
      /\ \A t \in Users : status'[t] = "BLOCKED" <=> st[t] = "BLOCKED"
  BY <1>2, <1>4, <1>5, ScheduleStep
<1>7. SleepersKept  BY <1>2, <1>4, <1>6 DEF SleepersKept
<1>8. SleepInv' /\ AlarmStep  BY <1>7, KeptStep
<1>9. TypeOK'
  <2>1. 0 \in 0 .. TIME_SLICE - 1  BY AlarmAssumption
  <2>2. pc' \in [Threads -> {"run", "slept", "block", "hlt"}]  BY <1>2 DEF AlarmInv, TypeOK
  <2> QED BY <1>2, <1>6, <1>8, <2>1, <2>2, TypeParts DEF AlarmInv, TypeOK
<1>10. PlaceInv'  BY <1>0, <1>2 DEF AlarmInv, PlaceInv, TypeOK
<1> QED BY <1>6, <1>8, <1>9, <1>10, HighestChosen DEF StepHolds, AlarmInv

\* The sleeper queues by its deadline, and the CPU goes to another thread.
LEMMA SleepBlockStep ==
    ASSUME AlarmInv, NEW t \in Threads, SleepBlock(t), UNCHANGED panicked
    PROVE  StepHolds
<1>0. Idle \in Threads /\ Idle \notin Users /\ Users \subseteq Threads
  BY AlarmAssumption DEF Users
<1>1. PICK st : st = [status EXCEPT ![t] = "BLOCKED"]  OBVIOUS
<1>2. PICK wt : wt = [waiting_ticks EXCEPT ![t] = start[t] + arg[t]]  OBVIOUS
<1>3. /\ current = t /\ pc[t] = "slept" /\ waiting_ticks' = wt
      /\ waiting_list' = ListSort(Append(waiting_list, t), wt)
      /\ Schedule(ready_list, st) /\ pc' = [pc EXCEPT ![t] = "run"]
      /\ start' = [start EXCEPT ![t] = 0] /\ arg' = [arg EXCEPT ![t] = 0]
      /\ ticks' = ticks
  BY <1>1, <1>2 DEF SleepBlock, QueueSleeper
<1>4. t \in Users  BY <1>3 DEF AlarmInv, PlaceInv, Users
<1>5. status \in [Threads -> Statuses] /\ \A u \in Threads : status[u] = "RUNNING" <=> u = t
  BY <1>3 DEF AlarmInv, ReadyInv, FitRunning
<1>6. wt \in [Threads -> Int] /\ \A u \in Threads : u # t => wt[u] = waiting_ticks[u]
  <2>1. start[t] \in Int /\ arg[t] \in Int
    <3>1. start[t] \in Nat /\ arg[t] \in Sleeps \union {0}  BY DEF AlarmInv, TypeOK
    <3>2. Sleeps \union {0} \subseteq Int  BY AlarmAssumption
    <3>3. arg[t] \in Int  BY <3>1, <3>2
    <3> QED BY <3>1, <3>3
  <2>2. start[t] + arg[t] \in Int  BY <2>1
  <2> QED BY <1>2, <2>2 DEF AlarmInv, TypeOK
<1>7. /\ st \in [Threads -> {"READY", "BLOCKED"}] /\ st[t] = "BLOCKED"
      /\ \A u \in Threads : u # t => st[u] = status[u]
  BY <1>1, <1>5 DEF Statuses
<1>8. FitReady(ready_list, st)
  <2>1. \A u \in Users : st[u] = "READY" <=> status[u] = "READY"  BY <1>0, <1>5, <1>7
  <2> QED BY <2>1 DEF AlarmInv, ReadyInv, FitReady
<1>9. /\ ReadyInv' /\ Highest' /\ thread_ticks' = 0
      /\ \A u \in Users : status'[u] = "BLOCKED" <=> st[u] = "BLOCKED"
  BY <1>3, <1>7, <1>8, ScheduleStep
<1>10. /\ waiting_list \in Seq(Users) /\ NoTwice(waiting_list)
       /\ \A u \in Users : OnList(u, waiting_list) <=> status[u] = "BLOCKED"
  BY DEF AlarmInv, SleepInv
<1>11. ~ OnList(t, waiting_list)  BY <1>4, <1>5, <1>10
<1>12. /\ waiting_list' \in Seq(Threads) /\ NoTwice(waiting_list') /\ Ordered(waiting_list', wt)
       /\ \A y : OnList(y, waiting_list') <=> OnList(y, waiting_list) \/ y = t
  <2>1. waiting_list \in Seq(Threads)  BY <1>10 DEF Users
  <2> QED BY <1>3, <1>6, <1>10, <1>11, <2>1, PushSorted
<1>13. waiting_list' \in Seq(Users)
  <2>1. \A i \in 1 .. Len(waiting_list') : OnList(waiting_list'[i], waiting_list')
    BY <1>12 DEF OnList
  <2>2. \A y : OnList(y, waiting_list) => y \in Users  BY <1>10 DEF OnList
  <2>3. \A i \in 1 .. Len(waiting_list') : waiting_list'[i] \in Users
    BY <1>4, <1>12, <2>1, <2>2
  <2> QED BY <1>12, <2>3
<1>14. \A u \in Users : OnList(u, waiting_list') <=> status'[u] = "BLOCKED"
  BY <1>0, <1>7, <1>9, <1>10, <1>12
<1>15. SleepInv'  BY <1>3, <1>12, <1>13, <1>14 DEF SleepInv
<1>16. A!ASleep(t)
  <2>1. {u \in Threads : OnList(u, waiting_list')} = {u \in Threads : OnList(u, waiting_list)} \union {t}
    BY <1>12
  <2>2. waiting_ticks' = [waiting_ticks EXCEPT ![t] = waiting_ticks'[t]]
    BY <1>2, <1>3 DEF AlarmInv, TypeOK
  <2> QED BY <1>3, <1>11, <2>1, <2>2 DEF A!ASleep
<1>17. TypeOK'
  <2>1. 0 \in 0 .. TIME_SLICE - 1  BY AlarmAssumption
  <2>2. pc' \in [Threads -> {"run", "slept", "block", "hlt"}]  BY <1>3 DEF AlarmInv, TypeOK
  <2>3. start' \in [Threads -> Nat]  BY <1>3 DEF AlarmInv, TypeOK
  <2>4. arg' \in [Threads -> Sleeps \union {0}]  BY <1>3 DEF AlarmInv, TypeOK
  <2>5. ticks' \in 0 .. MaxTicks  BY <1>3 DEF AlarmInv, TypeOK
  <2>6. panicked' \in BOOLEAN  BY DEF AlarmInv, TypeOK
  <2> QED BY <1>3, <1>6, <1>9, <1>15, <2>1, <2>2, <2>3, <2>4, <2>5, <2>6, TypeParts
<1>18. PlaceInv'  BY <1>0, <1>3, <1>4 DEF AlarmInv, PlaceInv, TypeOK
<1>19. AlarmStep  BY <1>16 DEF AlarmStep
<1> QED BY <1>9, <1>15, <1>17, <1>18, <1>19, HighestChosen DEF StepHolds, AlarmInv

\* timer_interrupt(): the loop stops at the first sleeper that is not due; since the
\* list is ordered it has popped all that are.
LEMMA TimerInterruptStep ==
    ASSUME AlarmInv, TimerInterrupt, UNCHANGED panicked
    PROVE  StepHolds
<1>0. Idle \in Threads /\ Idle \notin Users /\ Users \subseteq Threads
  BY AlarmAssumption DEF Users
<1>1. PICK n \in Nat : n = Len(waiting_list) /\ DOMAIN waiting_list = 1 .. n
                       /\ waiting_list \in Seq(Users)
  BY DEF AlarmInv, SleepInv
<1>2. PICK k \in 0 .. Len(waiting_list) :
          /\ DueUpTo(k, ticks + 1)
          /\ waiting_list' = Popped(k)
          /\ \E woken \in {MakeReady(ready_list, SubSeq(waiting_list, 1, k))} :
             TickWith(woken,
                      [t \in Threads |-> IF \E i \in 1 .. k : waiting_list[i] = t
                                         THEN "READY" ELSE status[t]])
  BY DEF TimerInterrupt
<1>3. PICK due, rl, st : /\ due = SubSeq(waiting_list, 1, k) /\ rl = MakeReady(ready_list, due)
                         /\ st = [t \in Threads |-> IF \E i \in 1 .. k : waiting_list[i] = t
                                                    THEN "READY" ELSE status[t]]
                         /\ TickWith(rl, st)
  BY <1>2
<1>4. /\ ticks < MaxTicks /\ ticks' = ticks + 1
      /\ pc' = IF pc[current] = "hlt" THEN [pc EXCEPT ![current] = "block"] ELSE pc
      /\ UNCHANGED <<waiting_ticks, start, arg>>
  BY DEF TimerInterrupt
<1>5. /\ NoTwice(waiting_list) /\ Ordered(waiting_list, waiting_ticks)
      /\ \A t \in Users : OnList(t, waiting_list) <=> status[t] = "BLOCKED"
  BY DEF AlarmInv, SleepInv
<1>6. /\ due \in Seq(Users) /\ waiting_list' \in Seq(Users) /\ NoTwice(due) /\ NoTwice(waiting_list')
      /\ \A x : OnList(x, due) <=> \E i \in 1 .. k : waiting_list[i] = x
      /\ \A x : OnList(x, waiting_list') <=> \E i \in k + 1 .. n : waiting_list[i] = x
      /\ \A x : OnList(x, waiting_list') <=> OnList(x, waiting_list) /\ ~ OnList(x, due)
      /\ Ordered(waiting_list', waiting_ticks)
  BY <1>1, <1>2, <1>3, <1>5, Cut DEF Popped
<1>7. \A x : OnList(x, due) => OnList(x, waiting_list)
  <2>1. 1 .. k \subseteq 1 .. n  BY <1>1
  <2> QED BY <1>1, <1>6, <2>1 DEF OnList
<1>8. /\ status \in [Threads -> Statuses] /\ current \in Threads
      /\ \A t \in Threads : status[t] = "RUNNING" <=> t = current
      /\ ready_list \in Seq(Users) /\ NoTwice(ready_list)
      /\ \A t \in Users : OnList(t, ready_list) <=> status[t] = "READY"
  BY DEF AlarmInv, ReadyInv, FitReady, FitRunning
<1>9. \A x : OnList(x, waiting_list) => x \in Users /\ status[x] = "BLOCKED"
  BY <1>1, <1>5 DEF OnList
<1>10. \A x : ~ (OnList(x, ready_list) /\ OnList(x, due))  BY <1>7, <1>8, <1>9
<1>11. /\ rl \in Seq(Users) /\ NoTwice(rl) /\ Ordered(rl, ByPriority)
       /\ \A x : OnList(x, rl) <=> OnList(x, ready_list) \/ OnList(x, due)
  <2>1. ready_list \in Seq(Users) /\ NoTwice(ready_list)  BY <1>8
  <2>2. due \in Seq(Users) /\ NoTwice(due)  BY <1>6
  <2>3. rl = MakeReady(ready_list, due)  BY <1>3
  <2> QED BY <1>10, <2>1, <2>2, <2>3, MadeReady
<1>12. /\ DOMAIN st = Threads
       /\ \A t \in Threads : OnList(t, due) => st[t] = "READY"
       /\ \A t \in Threads : ~ OnList(t, due) => st[t] = status[t]
  BY <1>3, <1>6
<1>13. FitReady(rl, st)
  <2>1. \A t \in Users : OnList(t, rl) <=> st[t] = "READY"  BY <1>0, <1>8, <1>11, <1>12
  <2> QED BY <1>11, <2>1 DEF FitReady
<1>14. FitRunning(current, st)
  <2>1. st \in [Threads -> Statuses]  BY <1>3, <1>8 DEF Statuses
  <2>2. \A t \in Threads : st[t] = "RUNNING" <=> t = current
    BY <1>7, <1>8, <1>9, <1>12
  <2> QED BY <1>8, <2>1, <2>2 DEF FitRunning
<1>15. /\ ReadyInv' /\ Chosen /\ thread_ticks' \in 0 .. TIME_SLICE - 1
       /\ \A t \in Users : status'[t] = "BLOCKED" <=> st[t] = "BLOCKED"
  <2>1. CASE thread_ticks + 1 >= TIME_SLICE /\ Yield(rl, st)
    <3>1. /\ ReadyInv' /\ Highest' /\ thread_ticks' = 0
          /\ \A t \in Users : status'[t] = "BLOCKED" <=> st[t] = "BLOCKED"
      BY <1>13, <1>14, <2>1, YieldStep
    <3>2. 0 \in 0 .. TIME_SLICE - 1  BY AlarmAssumption
    <3> QED BY <3>1, <3>2, HighestChosen
  <2>2. CASE /\ thread_ticks + 1 < TIME_SLICE /\ thread_ticks' = thread_ticks + 1
             /\ ready_list' = rl /\ status' = st /\ UNCHANGED current
    <3>1. ReadyInv' /\ Chosen  BY <1>13, <1>14, <2>2 DEF ReadyInv, Chosen
    <3>2. thread_ticks \in Nat /\ TIME_SLICE \in Nat  BY AlarmAssumption DEF AlarmInv, TypeOK
    <3>3. thread_ticks' \in 0 .. TIME_SLICE - 1  BY <2>2, <3>2
    <3> QED BY <2>2, <3>1, <3>3
  <2> QED BY <1>3, <2>1, <2>2 DEF TickWith
<1>16. \A t \in Users : OnList(t, waiting_list') <=> status'[t] = "BLOCKED"
  BY <1>0, <1>5, <1>6, <1>7, <1>12, <1>15
<1>17. SleepInv'  BY <1>4, <1>6, <1>16 DEF SleepInv
<1>18. \A t \in Threads : OnList(t, waiting_list') <=>
                            OnList(t, waiting_list) /\ waiting_ticks[t] > ticks'
  <2>0. ticks' \in Int /\ waiting_ticks \in [Threads -> Int]  BY <1>4 DEF AlarmInv, TypeOK
  <2>1. /\ \A i \in 1 .. k : waiting_ticks[waiting_list[i]] <= ticks'
        /\ k < n => waiting_ticks[waiting_list[k + 1]] > ticks'
    BY <1>1, <1>2, <1>4 DEF DueUpTo
  <2>2. ASSUME NEW t \in Threads, OnList(t, waiting_list') PROVE waiting_ticks[t] > ticks'
    <3>1. PICK i \in k + 1 .. n : waiting_list[i] = t  BY <1>6, <2>2
    <3>2. k < n /\ k + 1 \in 1 .. n /\ i \in 1 .. n /\ (k + 1 = i \/ k + 1 < i)  BY <1>1
    <3>3. PICK a, b : a = waiting_ticks[waiting_list[k + 1]] /\ b = waiting_ticks[t]  OBVIOUS
    <3>4. waiting_list[k + 1] \in Threads  BY <1>0, <1>1, <3>2
    <3>5. a \in Int /\ b \in Int /\ a > ticks'  BY <2>0, <2>1, <3>2, <3>3, <3>4
    <3>6. CASE k + 1 = i  BY <3>1, <3>3, <3>5, <3>6
    <3>7. CASE k + 1 < i
      <4>1. a <= b  BY <1>1, <1>5, <3>1, <3>2, <3>3, <3>7 DEF Ordered
      <4> QED BY <2>0, <3>3, <3>5, <4>1
    <3> QED BY <3>2, <3>6, <3>7
  <2>3. ASSUME NEW t \in Threads, OnList(t, due) PROVE ~ (waiting_ticks[t] > ticks')
    <3>1. PICK i \in 1 .. k : waiting_list[i] = t  BY <1>6, <2>3
    <3>2. waiting_ticks[t] <= ticks' /\ waiting_ticks[t] \in Int  BY <2>0, <2>1, <3>1
    <3> QED BY <2>0, <3>2
  <2> QED BY <1>6, <2>2, <2>3
<1>19. A!ATick
  <2>1. {t \in Threads : OnList(t, waiting_list')}
          = {t \in {u \in Threads : OnList(u, waiting_list)} : waiting_ticks[t] > ticks'}
    BY <1>18
  <2> QED BY <1>4, <2>1 DEF A!ATick
<1>20. pc' \in [Threads -> {"run", "slept", "block", "hlt"}]  BY <1>4 DEF AlarmInv, TypeOK
<1>21. TypeOK'
  <2>1. ticks' \in 0 .. MaxTicks  BY <1>4, AlarmAssumption DEF AlarmInv, TypeOK
  <2> QED BY <1>4, <1>15, <1>17, <1>20, <2>1, TypeParts DEF AlarmInv, TypeOK
<1>22. PlaceInv'
  <2>1. \A t \in Users : pc'[t] \in {"run", "slept"}
    BY <1>0, <1>4, <1>8 DEF AlarmInv, PlaceInv, TypeOK
  <2>2. pc'[Idle] \in {"block", "hlt"}  BY <1>0, <1>4, <1>8 DEF AlarmInv, PlaceInv, TypeOK
  <2> QED BY <2>1, <2>2 DEF PlaceInv
<1>23. AlarmStep  BY <1>19 DEF AlarmStep
<1> QED BY <1>15, <1>17, <1>21, <1>22, <1>23 DEF StepHolds, AlarmInv

-----------------------------------------------------------------------------
\* Every step keeps AlarmInv, chooses the highest priority and is a step of the alarm
\* clock.
LEMMA NextStep ==
    ASSUME AlarmInv, [Next]_vars
    PROVE  StepHolds
<1>1. ASSUME NEW t \in Threads, CallYield(t), UNCHANGED panicked PROVE StepHolds
  BY <1>1, CallYieldStep
<1>2. ASSUME NEW t \in Threads, SleepBlock(t), UNCHANGED panicked PROVE StepHolds
  BY <1>2, SleepBlockStep
<1>3. ASSUME NEW t \in Threads, NEW n \in Sleeps, SleepStart(t, n), UNCHANGED panicked PROVE StepHolds
  BY <1>3, SleepStartStep
<1>4. CASE TimerInterrupt /\ UNCHANGED panicked  BY <1>4, TimerInterruptStep
<1>5. CASE IdleBlock /\ UNCHANGED panicked  BY <1>5, IdleBlockStep
<1>6. CASE UNCHANGED vars
  <2>1. AlarmInv'
    BY <1>6 DEF vars, AlarmInv, TypeOK, ReadyInv, SleepInv, PlaceInv
  <2>2. Chosen  BY <1>6 DEF vars, Chosen
  <2>3. SleepersKept  BY <1>6 DEF vars, SleepersKept
  <2>4. AlarmStep  BY <2>3, KeptStep
  <2> QED BY <2>1, <2>2, <2>4 DEF StepHolds
<1>7. CASE ClockStops  BY <1>6, <1>7 DEF ClockStops
<1>8. CASE TimerPanics
  <2>1. panicked' \in BOOLEAN  BY <1>8 DEF TimerPanics
  <2>2. UNCHANGED <<current, status, ready_list, thread_ticks, ticks, waiting_list, waiting_ticks,
                    pc, start, arg>>
    BY <1>8 DEF TimerPanics
  <2>3. AlarmInv'
    BY <2>1, <2>2 DEF AlarmInv, TypeOK, ReadyInv, SleepInv, PlaceInv
  <2>4. Chosen  BY <2>2 DEF Chosen
  <2>5. SleepersKept  BY <2>2 DEF SleepersKept
  <2>6. AlarmStep  BY <2>5, KeptStep
  <2> QED BY <2>3, <2>4, <2>6 DEF StepHolds
<1> QED BY <1>1, <1>2, <1>3, <1>4, <1>5, <1>6, <1>7, <1>8 DEF Next, Runs

\* The first ready list holds every thread but Main and idle, once.
LEMMA OrdersHoldAll ==
    ASSUME NEW S, IsFiniteSet(S), NEW q \in Orders(S)
    PROVE  q \in Seq(S) /\ NoTwice(q) /\ \A x : OnList(x, q) <=> x \in S
<1>1. PICK n \in Nat : n = Cardinality(S)  BY FS_CardinalityType
<1>2. q \in [1 .. n -> S] /\ \A i, j \in 1 .. n : q[i] = q[j] => i = j  BY <1>1 DEF Orders
<1>3. q \in Seq(S) /\ Len(q) = n /\ DOMAIN q = 1 .. n  BY <1>2
<1>4. q \in Injection(1 .. n, S)  BY <1>2 DEF Injection, IsInjective
<1>5. Cardinality(1 .. n) = n  BY FS_Interval
<1>6. q \in Surjection(1 .. n, S)  BY <1>1, <1>4, <1>5, FS_Injection
<1>7. \A x \in S : \E i \in 1 .. n : q[i] = x  BY <1>6 DEF Surjection
<1> QED BY <1>2, <1>3, <1>7 DEF NoTwice, OnList

\* Both lists are empty at first, and so is the alarm clock.
LEMMA InitHolds ==
    ASSUME Init
    PROVE  AlarmInv /\ A!AInit
<1> DEFINE S == Threads \ {Main, Idle}
<1>0. Idle \in Threads /\ Main \in Users /\ S \subseteq Users /\ Users \subseteq Threads
      /\ Idle \notin Users
  BY AlarmAssumption DEF Users
<1>1. PICK q \in Orders(S) : ready_list = MakeReady(<<>>, q)  BY DEF Init
<1>2. IsFiniteSet(S)  BY AlarmAssumption, FS_Subset
<1>3. q \in Seq(S) /\ NoTwice(q) /\ \A x : OnList(x, q) <=> x \in S
  BY <1>1, <1>2, OrdersHoldAll
<1>4. PICK e : e = <<>>  OBVIOUS
<1>5. e \in Seq(Users) /\ NoTwice(e) /\ \A x : ~ OnList(x, e)  BY <1>4 DEF NoTwice, OnList
<1>6. /\ ready_list \in Seq(Users) /\ NoTwice(ready_list) /\ Ordered(ready_list, ByPriority)
      /\ \A x : OnList(x, ready_list) <=> OnList(x, e) \/ OnList(x, q)
  <2>1. q \in Seq(Users) /\ \A x : ~ (OnList(x, e) /\ OnList(x, q))  BY <1>0, <1>3, <1>5
  <2>2. ready_list = MakeReady(e, q)  BY <1>1, <1>4
  <2> QED BY <1>3, <1>5, <2>1, <2>2, MadeReady
<1>7. /\ current = Main
      /\ status = [t \in Threads |-> IF t = Main THEN "RUNNING"
                                     ELSE IF t = Idle THEN "BLOCKED" ELSE "READY"]
      /\ thread_ticks = 0 /\ ticks = 0 /\ waiting_list = <<>>
      /\ waiting_ticks = [t \in Threads |-> 0]
      /\ pc = [t \in Threads |-> IF t = Idle THEN "hlt" ELSE "run"]
      /\ start = [t \in Threads |-> 0] /\ arg = [t \in Threads |-> 0] /\ panicked = FALSE
  BY DEF Init
<1>8. FitReady(ready_list, status)
  <2>1. \A t \in Users : status[t] = "READY" <=> t \in S  BY <1>0, <1>7
  <2>2. \A t \in Users : OnList(t, ready_list) <=> t \in S  BY <1>3, <1>5, <1>6
  <2> QED BY <1>6, <2>1, <2>2 DEF FitReady
<1>9. FitRunning(current, status)  BY <1>0, <1>7 DEF FitRunning, Statuses
<1>10. SleepInv
  <2>1. waiting_list \in Seq(Users) /\ NoTwice(waiting_list) /\ \A x : ~ OnList(x, waiting_list)
    BY <1>4, <1>5, <1>7
  <2>2. Ordered(waiting_list, waiting_ticks)  BY <1>7 DEF Ordered
  <2>3. \A t \in Users : status[t] # "BLOCKED"  BY <1>0, <1>7
  <2> QED BY <2>1, <2>2, <2>3 DEF SleepInv
<1>11. PlaceInv  BY <1>0, <1>7 DEF PlaceInv
<1>12. TypeOK
  <2>1. ready_list \in Seq(Threads) /\ waiting_list \in Seq(Threads)  BY <1>6, <1>10 DEF SleepInv, Users
  <2>2. status \in [Threads -> {"RUNNING", "READY", "BLOCKED"}]  BY <1>7
  <2>3. thread_ticks \in 0 .. TIME_SLICE - 1 /\ ticks \in 0 .. MaxTicks
    BY <1>7, AlarmAssumption
  <2>4. pc \in [Threads -> {"run", "slept", "block", "hlt"}]  BY <1>7
  <2>5. waiting_ticks \in [Threads -> Int] /\ start \in [Threads -> Nat]
        /\ arg \in [Threads -> Sleeps \union {0}]
    BY <1>7
  <2> QED BY <1>0, <1>7, <2>1, <2>2, <2>3, <2>4, <2>5 DEF TypeOK
<1>13. A!AInit
  <2>1. {t \in Threads : OnList(t, waiting_list)} = {}  BY <1>4, <1>5, <1>7
  <2> QED BY <1>7, <2>1 DEF A!AInit
<1> QED BY <1>8, <1>9, <1>10, <1>11, <1>12, <1>13 DEF AlarmInv, ReadyInv

\* AlarmInv holds in every state of timer_sleep(), timer_interrupt() and the scheduler
\* below them: both lists are ordered and hold the threads their status says.
THEOREM AlarmInvariant == Spec => []AlarmInv
<1>1. Init => AlarmInv  BY InitHolds
<1>2. AlarmInv /\ [Next]_vars => AlarmInv'  BY NextStep DEF StepHolds
<1> QED BY <1>1, <1>2, PTL DEF Spec

\* An element of a list that links nothing twice is linked at most once.
LEMMA OnceOnly ==
    ASSUME NEW S, NEW seq \in Seq(S), NoTwice(seq), NEW x
    PROVE  Cardinality({i \in DOMAIN seq : seq[i] = x}) <= 1
<1> DEFINE T == {i \in DOMAIN seq : seq[i] = x}
<1>1. DOMAIN seq = 1 .. Len(seq)  OBVIOUS
<1>2. CASE T = {}
  <2>1. Cardinality(T) = 0  BY <1>2, FS_EmptySet
  <2> QED BY <2>1
<1>3. CASE T # {}
  <2>1. PICK i \in 1 .. Len(seq) : seq[i] = x  BY <1>1, <1>3
  <2>2. T = {i}  BY <1>1, <2>1 DEF NoTwice
  <2>3. Cardinality(T) = 1  BY <2>2, FS_Singleton
  <2> QED BY <2>3
<1> QED BY <1>2, <1>3

\* The part of ListsSound about states.
LEMMA OneList ==
    ASSUME AlarmInv
    PROVE  TypeOK /\ SleeperOnOneList
<1>1. \A t \in Users : /\ OnList(t, ready_list) <=> status[t] = "READY"
                       /\ OnList(t, waiting_list) <=> status[t] = "BLOCKED"
  BY DEF AlarmInv, ReadyInv, FitReady, SleepInv
<1>2. \A t : /\ Cardinality({i \in DOMAIN ready_list : ready_list[i] = t}) <= 1
             /\ Cardinality({i \in DOMAIN waiting_list : waiting_list[i] = t}) <= 1
  BY OnceOnly DEF AlarmInv, ReadyInv, FitReady, SleepInv
<1> QED BY <1>1, <1>2 DEF SleeperOnOneList, Users, AlarmInv

\* A thread is on the list its status names and on no other, and whenever the CPU
\* changes hands nobody left on the ready list has a higher priority: thread_block(),
\* thread_unblock(), thread_yield() and timer_interrupt() for any number of threads.
THEOREM ListsAreSound == Spec => ListsSound
<1>1. AlarmInv /\ [Next]_vars => Chosen  BY NextStep DEF StepHolds
<1>2. AlarmInv /\ [Next]_vars =>
        [current' # current /\ ready_list' # <<>> =>
          \A i \in DOMAIN ready_list' : Priority[ready_list'[i]] <= Priority[current']]_vars
  BY <1>1 DEF Chosen
<1>3. AlarmInv => TypeOK /\ SleeperOnOneList  BY OneList
<1> QED BY <1>2, <1>3, AlarmInvariant, PTL DEF Spec, ListsSound, HighestPriorityRuns

\* timer.c implements the alarm clock: every tick wakes exactly the sleepers that are
\* due, whatever their number, their priorities and the order they came in.
THEOREM AlarmImplemented == Spec => ImplementsAlarm
<1>1. Init => A!AInit  BY InitHolds
<1>2. AlarmInv /\ [Next]_vars => [A!ATick \/ \E t \in Threads : A!ASleep(t)]_A!avars
  BY NextStep DEF StepHolds, AlarmStep
<1> QED BY <1>1, <1>2, AlarmInvariant, PTL DEF Spec, ImplementsAlarm, A!ASpec

-----------------------------------------------------------------------------
(* Relay: squish-pty.c and squish-unix.c.  What was printed, what the pipe *)
(* holds and what is still to be read are always, put together, what the   *)
(* child wrote (OutputInv); PtyInv and UnixInv say what is left at the end *)
(* of the loop and of main().                                              *)

PipeRecords == [in : BOOLEAN, out : BOOLEAN, buf : [0 .. BUFSIZ - 1 -> Int], size : Nat, ofs : Nat, active : BOOLEAN]
PipeInv(p) == p \in PipeRecords /\ p.ofs + p.size <= BUFSIZ

SqRecords ==
    [kind : {"pty", "unix"}, pipes : [1 .. 2 -> PipeRecords],
     pc : {"setup", "loop", "accept", "final", "done", "exited"},
     stdin : Seq(Int), wire : Seq(Int), stdout : Seq(Int), keyed : Seq(Int), dropped : Seq(Int),
     typed : Nat, written : Nat, alive : BOOLEAN, connected : BOOLEAN,
     died : {"no", "status", "signal"}, signalled : BOOLEAN, result : {"none", "failed", "sigpipe", "zero", "no", "status", "signal"}]

\* What has been printed, what is in the pipe, what has still to be read.
Output(s) == s.stdout \o Held(s.pipes[2]) \o s.wire
Rising(seq, n) == /\ \A i \in DOMAIN seq : seq[i] <= n
                  /\ \A i, j \in DOMAIN seq : i < j => seq[i] < seq[j]
OutputInv(s) ==
    /\ s.kind = "pty" \/ s.dropped = << >> => Output(s) = Bytes(1, s.written)
    /\ Rising(Output(s), s.written)
InputInv(s) == s.kind = "pty" => s.keyed \o Held(s.pipes[1]) \o s.stdin = Bytes(1, s.typed)
\* A child that died is not connected any more, and only then is there a signal.
ChildInv(s) ==
    /\ s.connected => s.alive
    /\ s.died # "no" => ~ s.alive
    /\ s.signalled => s.died # "no"
    /\ s.pc = "setup" => ~ s.alive /\ s.died = "no" /\ s.wire = << >> /\ s.pipes[2].in /\ s.pipes[2].size = 0
\* main() came to its end.
Ended(s) == s.pc = "exited" /\ s.result \notin {"failed", "sigpipe"}
PtyInv(s) ==
    /\ s.result # "sigpipe"
    /\ s.pc # "accept"
    /\ ~ s.pipes[2].in => s.wire = << >> /\ ~ s.connected
    /\ s.pc \in {"final", "done"} \/ Ended(s) => ~ s.connected
    /\ s.pc = "done" \/ Ended(s) => s.pipes[2].size = 0 /\ s.wire = << >>
    /\ s.pc \in {"final", "done"} /\ s.pipes[2].in => ~ s.alive
    /\ Ended(s) /\ s.pipes[2].in => ~ s.alive /\ s.result = s.died
UnixInv(s) ==
    /\ s.pipes[2].in
    /\ (s.pc \in {"accept", "done"} \/ Ended(s)) /\ s.dropped = << >> => s.pipes[2].size = 0
EndInv(s) == (s.kind = "pty" => PtyInv(s)) /\ (s.kind = "unix" => UnixInv(s))
SqInv(s) ==
    /\ s \in SqRecords
    /\ \A i \in {1, 2} : PipeInv(s.pipes[i])
    /\ OutputInv(s) /\ InputInv(s) /\ ChildInv(s) /\ EndInv(s)

LEMMA Split ==
    ASSUME NEW s \in Seq(Int), NEW n \in 0 .. Len(s)
    PROVE  \E a, b \in Seq(Int) : /\ a = SubSeq(s, 1, n) /\ b = SubSeq(s, n + 1, Len(s))
                                  /\ Len(a) = n /\ Len(b) = Len(s) - n /\ a \o b = s
<1>1. Len(s) \in Nat /\ \A i \in 1 .. Len(s) : s[i] \in Int
  BY LenProperties
<1>2. SubSeq(s, 1, n) \in Seq(Int) /\ Len(SubSeq(s, 1, n)) = n
  BY <1>1, SubSeqProperties
<1>3. SubSeq(s, n + 1, Len(s)) \in Seq(Int) /\ Len(SubSeq(s, n + 1, Len(s))) = Len(s) - n
  <2>1. \A i \in n + 1 .. Len(s) : s[i] \in Int
    BY <1>1
  <2> QED BY <1>1, <2>1, SubSeqProperties
<1>4. SubSeq(s, 1, n) \o SubSeq(s, n + 1, Len(s)) = SubSeq(s, 1, Len(s))
  <2>1. 1 \in 1 .. Len(s) + 1 /\ n \in 1 - 1 .. Len(s) /\ Len(s) \in n .. Len(s)
    BY <1>1
  <2> QED BY <2>1, ConcatAdjacentSubSeq, Zenon
<1>5. SubSeq(s, 1, Len(s)) = s
  BY SubSeqFull
<1> QED BY <1>2, <1>3, <1>4, <1>5

\* Concatenation is associative.
LEMMA Regrouped ==
    \A a, b, c \in Seq(Int) : (a \o b) \o c = a \o (b \o c)
<1> SUFFICES ASSUME NEW a \in Seq(Int), NEW b \in Seq(Int), NEW c \in Seq(Int)
             PROVE  (a \o b) \o c = a \o (b \o c)
  OBVIOUS
<1> QED BY ConcatAssociative

ShiftIn(a, b, c, d) == a \o (b \o c) \o d = a \o b \o (c \o d)
ShiftOut(a, b, c, d) == (a \o b) \o c \o d = a \o (b \o c) \o d
ShiftEnd(a, b, c, x) == a \o b \o Append(c, x) = Append(a \o b \o c, x)

\* Bytes go from the third part to the second, or from the second to the first.
LEMMA MovedIn ==
    \A a, b, c, d \in Seq(Int) : ShiftIn(a, b, c, d)
<1> SUFFICES ASSUME NEW a \in Seq(Int), NEW b \in Seq(Int), NEW c \in Seq(Int), NEW d \in Seq(Int)
             PROVE  a \o (b \o c) \o d = a \o b \o (c \o d)
  BY DEF ShiftIn
<1>1. PICK ab : ab = a \o b
  OBVIOUS
<1>2. ab \in Seq(Int)
  BY <1>1, ConcatProperties
<1>3. (a \o b) \o c = a \o (b \o c)
  BY Regrouped, Zenon
<1>4. (ab \o c) \o d = ab \o (c \o d)
  BY <1>2, Regrouped, Zenon
<1> QED BY <1>1, <1>3, <1>4
LEMMA MovedOut ==
    \A a, b, c, d \in Seq(Int) : ShiftOut(a, b, c, d)
<1> SUFFICES ASSUME NEW a \in Seq(Int), NEW b \in Seq(Int), NEW c \in Seq(Int), NEW d \in Seq(Int)
             PROVE  (a \o b) \o c \o d = a \o (b \o c) \o d
  BY DEF ShiftOut
<1>1. (a \o b) \o c = a \o (b \o c)
  BY Regrouped, Zenon
<1> QED BY <1>1

\* A byte is added at the end.
LEMMA Added ==
    \A a, b, c \in Seq(Int), x \in Int : ShiftEnd(a, b, c, x)
<1> SUFFICES ASSUME NEW a \in Seq(Int), NEW b \in Seq(Int), NEW c \in Seq(Int), NEW x \in Int
             PROVE  a \o b \o Append(c, x) = Append(a \o b \o c, x)
  BY DEF ShiftEnd
<1>1. PICK ab, one : ab = a \o b /\ one = <<x>>
  OBVIOUS
<1>2. ab \in Seq(Int) /\ one \in Seq(Int)
  BY <1>1, ConcatProperties
<1>3. Append(c, x) = c \o one
  BY <1>1, AppendIsConcat
<1>4. PICK abc : abc = ab \o c
  OBVIOUS
<1>5. abc \in Seq(Int)
  BY <1>2, <1>4, ConcatProperties
<1>6. (ab \o c) \o one = ab \o (c \o one)
  BY <1>2, Regrouped, ZenonT(40)
<1>7. Append(abc, x) = abc \o one
  BY <1>1, <1>5, AppendIsConcat
<1> QED BY <1>1, <1>3, <1>4, <1>6, <1>7

LEMMA BytesSeq ==
    ASSUME NEW n \in Nat
    PROVE  /\ Bytes(1, n) \in Seq(Int) /\ Len(Bytes(1, n)) = n
           /\ \A i \in 1 .. n : Bytes(1, n)[i] = i
<1>1. Bytes(1, n) = [i \in 1 .. n |-> i]
  BY DEF Bytes
<1>2. [i \in 1 .. n |-> i] \in Seq(Int) /\ Len([i \in 1 .. n |-> i]) = n
  OBVIOUS
<1> QED BY <1>1, <1>2

LEMMA BytesGrow ==
    ASSUME NEW n \in Nat
    PROVE  Append(Bytes(1, n), n + 1) = Bytes(1, n + 1)
<1>1. PICK a, b : a = Append(Bytes(1, n), n + 1) /\ b = Bytes(1, n + 1)
  OBVIOUS
<1>2. a \in Seq(Int) /\ Len(a) = n + 1 /\ a[n + 1] = n + 1 /\ \A i \in 1 .. n : a[i] = i
  BY <1>1, BytesSeq, AppendProperties
<1>3. b \in Seq(Int) /\ Len(b) = n + 1 /\ \A i \in 1 .. n + 1 : b[i] = i
  BY <1>1, BytesSeq
<1>4. \A i \in 1 .. n + 1 : a[i] = b[i]
  BY <1>2, <1>3
<1>5. a = b
  BY <1>2, <1>3, <1>4, SeqEqual
<1> QED BY <1>1, <1>5

LEMMA RisingGrows ==
    ASSUME NEW s \in Seq(Int), NEW n \in Nat, Rising(s, n)
    PROVE  Rising(Append(s, n + 1), n + 1)
<1>1. PICK t : t = Append(s, n + 1)
  OBVIOUS
<1>2. /\ t \in Seq(Int) /\ Len(t) = Len(s) + 1 /\ t[Len(s) + 1] = n + 1 /\ \A i \in 1 .. Len(s) : t[i] = s[i]
      /\ DOMAIN s = 1 .. Len(s) /\ DOMAIN t = 1 .. Len(s) + 1 /\ Len(s) \in Nat
      /\ \A i \in 1 .. Len(s) : s[i] \in Int
  BY <1>1, AppendProperties, LenProperties
<1>3. ASSUME NEW i \in DOMAIN t PROVE t[i] <= n + 1
  <2>1. CASE i = Len(s) + 1
    BY <1>2, <2>1
  <2>2. CASE i # Len(s) + 1
    <3>1. i \in 1 .. Len(s) /\ t[i] = s[i] /\ s[i] <= n /\ s[i] \in Int
      BY <1>2, <2>2 DEF Rising
    <3> QED BY <3>1
  <2> QED BY <2>1, <2>2
<1>4. \A i, j \in DOMAIN t : i < j => t[i] < t[j]
  <2> SUFFICES ASSUME NEW i \in DOMAIN t, NEW j \in DOMAIN t, i < j PROVE t[i] < t[j]
    OBVIOUS
  <2>1. i \in 1 .. Len(s) /\ t[i] = s[i] /\ s[i] <= n /\ s[i] \in Int
    BY <1>2 DEF Rising
  <2>2. CASE j = Len(s) + 1
    BY <1>2, <2>1, <2>2
  <2>3. CASE j # Len(s) + 1
    <3>1. j \in 1 .. Len(s) /\ t[j] = s[j]
      BY <1>2, <2>3
    <3> QED BY <1>2, <2>1, <3>1 DEF Rising
  <2> QED BY <2>2, <2>3
<1> QED BY <1>1, <1>3, <1>4 DEF Rising

\* The middle may be left out.
LEMMA RisingWithout ==
    ASSUME NEW a \in Seq(Int), NEW b \in Seq(Int), NEW c \in Seq(Int), NEW n \in Nat, Rising(a \o b \o c, n)
    PROVE  Rising(a \o c, n)
<1>1. PICK ab, s, t : ab = a \o b /\ s = ab \o c /\ t = a \o c
  OBVIOUS
<1>2. PICK x, y, z : x = Len(a) /\ y = Len(b) /\ z = Len(c)
  OBVIOUS
<1>3. x \in Nat /\ y \in Nat /\ z \in Nat
  BY <1>2, LenProperties
<1>4. ab \in Seq(Int) /\ Len(ab) = x + y /\ \A i \in 1 .. x : ab[i] = a[i]
  BY <1>1, <1>2, <1>3, ConcatProperties
<1>5. /\ s \in Seq(Int) /\ Len(s) = x + y + z
      /\ \A i \in 1 .. x + y + z : s[i] = IF i <= x + y THEN ab[i] ELSE c[i - (x + y)]
  BY <1>1, <1>2, <1>3, <1>4, ConcatProperties
<1>6. /\ t \in Seq(Int) /\ Len(t) = x + z
      /\ \A i \in 1 .. x + z : t[i] = IF i <= x THEN a[i] ELSE c[i - x]
  BY <1>1, <1>2, <1>3, ConcatProperties
<1>7. DOMAIN s = 1 .. x + y + z /\ DOMAIN t = 1 .. x + z
  BY <1>5, <1>6, LenProperties
<1> DEFINE at(i) == IF i <= x THEN i ELSE i + y
<1>8. \A i \in 1 .. x + z : at(i) \in 1 .. x + y + z /\ t[i] = s[at(i)]
  <2> SUFFICES ASSUME NEW i \in 1 .. x + z PROVE at(i) \in 1 .. x + y + z /\ t[i] = s[at(i)]
    OBVIOUS
  <2>1. CASE i <= x
    <3>1. at(i) = i /\ i \in 1 .. x /\ i \in 1 .. x + y + z /\ i <= x + y
      BY <1>3, <2>1
    <3>2. t[i] = a[i] /\ s[i] = ab[i]
      BY <1>5, <1>6, <2>1, <3>1
    <3> HIDE DEF at
    <3> QED BY <1>4, <3>1, <3>2
  <2>2. CASE i > x
    <3>1. at(i) = i + y /\ at(i) \in 1 .. x + y + z /\ ~ (at(i) <= x + y) /\ at(i) - (x + y) = i - x
      BY <1>3, <2>2
    <3>2. t[i] = c[i - x]
      BY <1>3, <1>6, <2>2
    <3> HIDE DEF at
    <3> QED BY <1>5, <3>1, <3>2
  <2> QED BY <1>3, <2>1, <2>2
<1>9. \A i, j \in 1 .. x + z : i < j => at(i) < at(j)
  BY <1>3
<1>10. Rising(s, n)
  BY <1>1
<1> HIDE DEF at
<1>11. \A i \in DOMAIN t : t[i] <= n
  BY <1>7, <1>8, <1>10 DEF Rising
<1>12. \A i, j \in DOMAIN t : i < j => t[i] < t[j]
  BY <1>7, <1>8, <1>9, <1>10 DEF Rising
<1> QED BY <1>1, <1>11, <1>12 DEF Rising

\* h is what size bytes of buf from ofs on are.
Shows(h, buf, ofs, size) ==
    h \in Seq(Int) /\ Len(h) = size /\ \A i \in 1 .. size : h[i] = buf[ofs + i - 1]

LEMMA WindowSeq ==
    ASSUME BUFSIZ \in Nat, NEW size \in Nat, NEW ofs \in Nat, NEW buf \in [0 .. BUFSIZ - 1 -> Int], ofs + size <= BUFSIZ,
           NEW h, h = [i \in 1 .. size |-> buf[ofs + i - 1]]
    PROVE  /\ h \in Seq(Int) /\ Len(h) = size
           /\ \A i \in 1 .. size : h[i] = buf[ofs + i - 1] /\ ofs + i - 1 \in 0 .. BUFSIZ - 1
<1>1. \A i \in 1 .. size : ofs + i - 1 \in 0 .. BUFSIZ - 1
  OBVIOUS
<1>2. \A i \in 1 .. size : buf[ofs + i - 1] \in Int
  BY <1>1
<1>3. h \in [1 .. size -> Int] /\ \A i \in 1 .. size : h[i] = buf[ofs + i - 1]
  BY <1>2
<1>4. h \in Seq(Int) /\ Len(h) = size
  BY <1>3
<1> QED BY <1>1, <1>3, <1>4

LEMMA HeldSeq ==
    ASSUME RelayAssumption, NEW p, PipeInv(p)
    PROVE  Held(p) \in Seq(Int) /\ Len(Held(p)) = p.size /\ Shows(Held(p), p.buf, p.ofs, p.size)
<1>1. PICK size, ofs, buf : size = p.size /\ ofs = p.ofs /\ buf = p.buf
  OBVIOUS
<1>2. size \in Nat /\ ofs \in Nat /\ buf \in [0 .. BUFSIZ - 1 -> Int] /\ ofs + size <= BUFSIZ /\ BUFSIZ \in Nat
  BY <1>1 DEF PipeInv, PipeRecords, RelayAssumption
<1>3. PICK h : h = [i \in 1 .. size |-> buf[ofs + i - 1]]
  OBVIOUS
<1>4. h \in Seq(Int) /\ Len(h) = size /\ \A i \in 1 .. size : h[i] = buf[ofs + i - 1]
  BY <1>2, <1>3, WindowSeq
<1>5. Held(p) = h
  BY <1>1, <1>3 DEF Held
<1> QED BY <1>1, <1>4, <1>5 DEF Shows

\* What is read comes behind what the pipe holds.
LEMMA FillHolds ==
    ASSUME RelayAssumption, NEW p, PipeInv(p), NEW bytes \in Seq(Int), Len(bytes) <= Room(p), NEW q, q = Fill(p, bytes)
    PROVE  /\ PipeInv(q) /\ q.in = p.in /\ q.out = p.out /\ q.size = p.size + Len(bytes)
           /\ Held(q) = Held(p) \o bytes
<1>1. PICK size, ofs, old, n : size = p.size /\ ofs = p.ofs /\ old = p.buf /\ n = Len(bytes)
  OBVIOUS
<1>2. size \in Nat /\ ofs \in Nat /\ old \in [0 .. BUFSIZ - 1 -> Int] /\ ofs + size <= BUFSIZ /\ BUFSIZ \in Nat /\ p \in PipeRecords
  BY <1>1 DEF PipeInv, PipeRecords, RelayAssumption
<1>3. n \in Nat /\ \A i \in 1 .. n : bytes[i] \in Int
  BY <1>1, LenProperties
<1>4. n <= BUFSIZ - ofs - size
  BY <1>1 DEF Room
<1>5. ofs + size + n <= BUFSIZ
  BY <1>2, <1>3, <1>4
<1>6. PICK buf : buf = [i \in DOMAIN old |-> IF ofs + size <= i /\ i < ofs + size + n THEN bytes[i - (ofs + size) + 1] ELSE old[i]]
  OBVIOUS
<1>7. buf \in [0 .. BUFSIZ - 1 -> Int]
  <2>1. DOMAIN old = 0 .. BUFSIZ - 1
    BY <1>2
  <2>2. \A i \in 0 .. BUFSIZ - 1 : (IF ofs + size <= i /\ i < ofs + size + n THEN bytes[i - (ofs + size) + 1] ELSE old[i]) \in Int
    BY <1>2, <1>3
  <2> QED BY <1>6, <2>1, <2>2
<1>8. ~ (size + n = BUFSIZ /\ ofs # 0)
  BY <1>2, <1>3, <1>5
<1>9. PICK m : m = size + n
  OBVIOUS
<1>10. q = [p EXCEPT !.active = TRUE, !.size = m, !.ofs = ofs, !.buf = buf]
  BY <1>1, <1>6, <1>8, <1>9 DEF Fill
<1>11. m \in Nat
  BY <1>2, <1>3, <1>9
<1>12. q \in PipeRecords /\ q.in = p.in /\ q.out = p.out /\ q.size = m /\ q.ofs = ofs /\ q.buf = buf
  BY <1>2, <1>7, <1>10, <1>9, <1>11 DEF PipeRecords
<1>13. PipeInv(q)
  BY <1>2, <1>3, <1>5, <1>9, <1>12 DEF PipeInv
<1>14. PICK h, g : h = Held(p) /\ g = Held(q)
  OBVIOUS
<1>15. Shows(h, old, ofs, size)
  BY <1>1, <1>14, HeldSeq
<1>16. Shows(g, buf, ofs, m)
  BY <1>9, <1>12, <1>13, <1>14, HeldSeq
<1>17. g = h \o bytes
  <2>1. \A i \in 0 .. BUFSIZ - 1 :
            buf[i] = IF ofs + size <= i /\ i < ofs + size + n THEN bytes[i - (ofs + size) + 1] ELSE old[i]
    <3>1. DOMAIN old = 0 .. BUFSIZ - 1
      BY <1>2
    <3> QED BY <1>6, <3>1
  <2>2. PICK hb : hb = h \o bytes
    OBVIOUS
  <2>3. /\ hb \in Seq(Int) /\ Len(hb) = Len(h) + Len(bytes)
        /\ \A i \in 1 .. Len(h) + Len(bytes) : hb[i] = IF i <= Len(h) THEN h[i] ELSE bytes[i - Len(h)]
    <3>1. h \in Seq(Int)
      BY <1>15 DEF Shows
    <3> QED BY <2>2, <3>1, ConcatProperties
  <2>4. Len(h) = size /\ Len(bytes) = n
    BY <1>1, <1>15 DEF Shows
  <2>5. hb \in Seq(Int) /\ Len(hb) = size + n /\ \A i \in 1 .. size + n : hb[i] = IF i <= size THEN h[i] ELSE bytes[i - size]
    BY <2>3, <2>4
  <2>6. ASSUME NEW i \in 1 .. size + n PROVE g[i] = hb[i]
    <3>1. PICK j : j = ofs + i - 1
      OBVIOUS
    <3>2. j \in 0 .. BUFSIZ - 1
      BY <1>2, <1>3, <1>5, <3>1
    <3>3. g[i] = buf[j]
      BY <1>9, <1>16, <3>1 DEF Shows
    <3>4. CASE i <= size
      <4>1. i \in 1 .. size /\ ~ (ofs + size <= j)
        BY <1>2, <1>3, <3>1, <3>4
      <4>2. h[i] = old[j]
        BY <1>15, <3>1, <4>1 DEF Shows
      <4>3. buf[j] = old[j]
        BY <2>1, <3>2, <4>1
      <4>4. hb[i] = h[i]
        BY <2>5, <3>4
      <4> QED BY <3>3, <4>2, <4>3, <4>4
    <3>5. CASE i > size
      <4>1. ofs + size <= j /\ j < ofs + size + n /\ j - (ofs + size) + 1 = i - size /\ ~ (i <= size)
        BY <1>2, <1>3, <3>1, <3>5
      <4>2. buf[j] = bytes[i - size]
        BY <2>1, <3>2, <4>1
      <4>3. hb[i] = bytes[i - size]
        BY <2>5, <4>1
      <4> QED BY <3>3, <4>2, <4>3
    <3> QED BY <1>2, <1>3, <3>4, <3>5
  <2>7. g \in Seq(Int) /\ Len(g) = Len(hb)
    BY <1>9, <1>16, <2>5 DEF Shows
  <2>8. \A i \in 1 .. Len(g) : g[i] = hb[i]
    BY <2>5, <2>6, <2>7
  <2>9. g = hb
    BY <2>5, <2>7, <2>8, SeqEqual
  <2> QED BY <2>2, <2>9
<1> QED BY <1>1, <1>9, <1>12, <1>13, <1>14, <1>17

\* What is written leaves the pipe at its head.
LEMMA DrainHolds ==
    ASSUME RelayAssumption, NEW p, PipeInv(p), NEW n \in 1 .. p.size, NEW q, q = Drain(p, n)
    PROVE  /\ PipeInv(q) /\ q.in = p.in /\ q.out = p.out
           /\ SubSeq(Held(p), 1, n) \in Seq(Int)
           /\ SubSeq(Held(p), 1, n) \o Held(q) = Held(p)
<1>1. PICK size, ofs, buf : size = p.size /\ ofs = p.ofs /\ buf = p.buf
  OBVIOUS
<1>2. size \in Nat /\ ofs \in Nat /\ buf \in [0 .. BUFSIZ - 1 -> Int] /\ ofs + size <= BUFSIZ /\ BUFSIZ \in Nat
      /\ p \in PipeRecords /\ n \in 1 .. size
  BY <1>1 DEF PipeInv, PipeRecords, RelayAssumption
<1>3. PICK new, m : new = (IF size = n THEN 0 ELSE ofs + n) /\ m = size - n
  OBVIOUS
<1>4. new \in Nat /\ m \in Nat /\ new + m <= BUFSIZ /\ (m # 0 => new = ofs + n)
  BY <1>2, <1>3
<1>5. q = [p EXCEPT !.ofs = new, !.size = m]
  BY <1>1, <1>3 DEF Drain
<1>6. q \in PipeRecords /\ q.in = p.in /\ q.out = p.out /\ q.size = m /\ q.ofs = new /\ q.buf = buf
  BY <1>1, <1>2, <1>4, <1>5 DEF PipeRecords
<1>7. PipeInv(q)
  BY <1>4, <1>6 DEF PipeInv
<1>8. PICK h, g, a : h = Held(p) /\ g = Held(q) /\ a = SubSeq(h, 1, n)
  OBVIOUS
<1>9. Shows(h, buf, ofs, size)
  BY <1>1, <1>8, HeldSeq
<1>10. Shows(g, buf, new, m)
  BY <1>3, <1>6, <1>7, <1>8, HeldSeq
<1>11. PICK ag : ag = a \o g
  OBVIOUS
<1>12. h \in Seq(Int) /\ g \in Seq(Int) /\ Len(h) = size /\ Len(g) = m
  BY <1>9, <1>10 DEF Shows
<1>13. a \in Seq(Int) /\ Len(a) = n /\ \A i \in 1 .. n : a[i] = h[i]
  <2>1. \A i \in 1 .. n : h[i] \in Int
    BY <1>2, <1>12, LenProperties
  <2>2. 1 \in Int /\ n \in Int /\ 1 <= n /\ n - 1 + 1 = n
    BY <1>2
  <2>3. /\ a \in Seq(Int) /\ Len(a) = IF 1 <= n THEN n - 1 + 1 ELSE 0
        /\ \A i \in 1 .. n - 1 + 1 : a[i] = h[1 + i - 1]
    BY <1>8, <2>1, <2>2, SubSeqProperties
  <2> QED BY <2>2, <2>3
<1>14. ag = h
  <2>1. ag \in Seq(Int) /\ Len(ag) = Len(a) + Len(g)
        /\ \A i \in 1 .. Len(a) + Len(g) : ag[i] = IF i <= Len(a) THEN a[i] ELSE g[i - Len(a)]
    BY <1>11, <1>12, <1>13, ConcatProperties
  <2>2. Len(a) + Len(g) = size
    BY <1>2, <1>3, <1>12, <1>13
  <2>3. Len(ag) = size /\ \A i \in 1 .. size : ag[i] = IF i <= n THEN a[i] ELSE g[i - n]
    BY <1>13, <2>1, <2>2
  <2>4. ASSUME NEW i \in 1 .. size PROVE ag[i] = h[i]
    <3>1. CASE i <= n
      BY <1>2, <1>13, <2>3, <3>1
    <3>2. CASE i > n
      <4>1. i - n \in 1 .. m /\ new = ofs + n
        BY <1>2, <1>3, <1>4, <3>2
      <4>2. new + (i - n) - 1 = ofs + i - 1
        BY <1>2, <4>1
      <4>3. g[i - n] = buf[new + (i - n) - 1] /\ h[i] = buf[ofs + i - 1]
        BY <1>9, <1>10, <4>1 DEF Shows
      <4>4. ag[i] = g[i - n]
        BY <1>2, <2>3, <3>2
      <4> QED BY <4>2, <4>3, <4>4
    <3> QED BY <1>2, <3>1, <3>2
  <2> QED BY <1>12, <2>1, <2>3, <2>4, SeqEqual
<1> QED BY <1>6, <1>7, <1>8, <1>11, <1>13, <1>14

\* The parts of the invariant, of a state that has its types.
LEMMA SqTypes ==
    ASSUME NEW s, SqInv(s), RelayAssumption
    PROVE  /\ s \in SqRecords
           /\ s.pipes \in [1 .. 2 -> PipeRecords] /\ PipeInv(s.pipes[1]) /\ PipeInv(s.pipes[2])
           /\ s.pipes[1] \in PipeRecords /\ s.pipes[2] \in PipeRecords
           /\ s.stdin \in Seq(Int) /\ s.wire \in Seq(Int) /\ s.stdout \in Seq(Int)
           /\ s.keyed \in Seq(Int) /\ s.dropped \in Seq(Int) /\ s.typed \in Nat /\ s.written \in Nat
           /\ Held(s.pipes[1]) \in Seq(Int) /\ Held(s.pipes[2]) \in Seq(Int)
<1>1. s \in SqRecords /\ PipeInv(s.pipes[1]) /\ PipeInv(s.pipes[2])
  BY DEF SqInv
<1>2. Held(s.pipes[1]) \in Seq(Int) /\ Held(s.pipes[2]) \in Seq(Int)
  BY <1>1, HeldSeq
<1>3. /\ s.pipes \in [1 .. 2 -> PipeRecords]
      /\ s.stdin \in Seq(Int) /\ s.wire \in Seq(Int) /\ s.stdout \in Seq(Int)
      /\ s.keyed \in Seq(Int) /\ s.dropped \in Seq(Int) /\ s.typed \in Nat /\ s.written \in Nat
  BY <1>1 DEF SqRecords
<1>4. s.pipes[1] \in PipeRecords /\ s.pipes[2] \in PipeRecords
  BY <1>1 DEF PipeInv
<1> QED BY <1>1, <1>2, <1>3, <1>4

\* One pipe is replaced.
LEMMA PipeReplaced ==
    ASSUME NEW pipes \in [1 .. 2 -> PipeRecords], PipeInv(pipes[1]), PipeInv(pipes[2]), NEW i \in {1, 2},
           NEW q, PipeInv(q), NEW new, new = [pipes EXCEPT ![i] = q]
    PROVE  /\ new \in [1 .. 2 -> PipeRecords] /\ \A j \in {1, 2} : PipeInv(new[j])
           /\ new[i] = q /\ \A j \in {1, 2} : j # i => new[j] = pipes[j]
<1>1. q \in PipeRecords /\ i \in 1 .. 2
  BY DEF PipeInv
<1>2. new \in [1 .. 2 -> PipeRecords] /\ new[i] = q /\ \A j \in {1, 2} : j # i => new[j] = pipes[j]
  BY <1>1
<1>3. ASSUME NEW j \in {1, 2} PROVE PipeInv(new[j])
  <2>1. CASE j = i
    BY <1>2, <2>1
  <2>2. CASE j # i
    BY <1>2, <2>2
  <2> QED BY <2>1, <2>2
<1> QED BY <1>2, <1>3

\* The end of a turn of the loop.
LEMMA LoopedKeeps ==
    ASSUME NEW s, SqInv(s), s.pc = "loop", RelayAssumption
    PROVE  SqInv(Looped(s))
<1>1. s \in SqRecords
  BY DEF SqInv
<1>2. CASE s.kind = "unix"
  <2>1. Continues(s)
    BY <1>2 DEF SqInv, EndInv, UnixInv, Continues
  <2> QED BY <2>1 DEF Looped
<1>3. CASE s.kind = "pty" /\ Continues(s)
  BY <1>3 DEF Looped
<1>4. CASE s.kind = "pty" /\ ~ Continues(s)
  <2>1. PICK t : t = [s EXCEPT !.pc = "final"]
    OBVIOUS
  <2>2. Looped(s) = t
    BY <1>4, <2>1 DEF Looped
  <2>3. /\ t.pc = "final"
        /\ t.kind = s.kind /\ t.pipes = s.pipes /\ t.stdin = s.stdin /\ t.wire = s.wire
        /\ t.stdout = s.stdout /\ t.keyed = s.keyed /\ t.dropped = s.dropped /\ t.typed = s.typed
        /\ t.written = s.written /\ t.alive = s.alive /\ t.connected = s.connected /\ t.died = s.died
        /\ t.signalled = s.signalled /\ t.result = s.result
        /\ t = [kind |-> t.kind, pipes |-> t.pipes, pc |-> t.pc, stdin |-> t.stdin, wire |-> t.wire, stdout |-> t.stdout,
                keyed |-> t.keyed, dropped |-> t.dropped, typed |-> t.typed, written |-> t.written, alive |-> t.alive,
                connected |-> t.connected, died |-> t.died, signalled |-> t.signalled, result |-> t.result]
    BY <1>1, <2>1 DEF SqRecords
  <2>4. t \in SqRecords
    BY <1>1, <2>3 DEF SqRecords
  <2>5. ~ s.pipes[2].in
    BY <1>4 DEF Continues
  <2>6. OutputInv(t) /\ InputInv(t)
    BY <2>3 DEF SqInv, OutputInv, InputInv, Output
  <2>7. ChildInv(t)
    BY <2>3 DEF SqInv, ChildInv
  <2>8. EndInv(t)
    BY <1>4, <2>3, <2>5 DEF SqInv, EndInv, PtyInv, Ended
  <2>9. \A i \in {1, 2} : PipeInv(t.pipes[i])
    BY <2>3 DEF SqInv
  <2> QED BY <2>2, <2>4, <2>6, <2>7, <2>8, <2>9 DEF SqInv
<1> QED BY <1>1, <1>2, <1>3, <1>4 DEF SqRecords

\* A pass of the loop reads from standard input.
LEMMA ReadInputKeeps ==
    ASSUME RelayAssumption, SqInv(sq), Read(1)
    PROVE  SqInv(sq')
<1>1. PICK p, source, n, t : p = sq.pipes[1] /\ source = sq.stdin /\ n = Min2(Len(source), Room(p)) /\ t = sq'
  OBVIOUS
<1>2. PICK a, b, q, new : /\ a = SubSeq(source, 1, n) /\ b = SubSeq(source, n + 1, Len(source))
                          /\ q = Fill(p, a) /\ new = [sq.pipes EXCEPT ![1] = q]
  OBVIOUS
<1>3. sq \in SqRecords /\ sq.pc = "loop" /\ source \in Seq(Int) /\ PipeInv(p) /\ Wants(p)
  BY <1>1, SqTypes DEF Read, Serves
<1>4. a \in Seq(Int) /\ b \in Seq(Int) /\ a \o b = source /\ Len(a) <= Room(p)
  <2>1. Len(source) \in Nat
    BY <1>3, LenProperties
  <2>2. Room(p) \in Nat
    <3>1. p.size \in Nat /\ p.ofs \in Nat /\ p.ofs + p.size <= BUFSIZ /\ BUFSIZ \in Nat
      BY <1>3 DEF PipeInv, PipeRecords, RelayAssumption
    <3> QED BY <3>1 DEF Room
  <2>3. n \in 0 .. Len(source) /\ n <= Room(p)
    BY <1>1, <2>1, <2>2 DEF Min2
  <2>4. \E x, y \in Seq(Int) : /\ x = SubSeq(source, 1, n) /\ y = SubSeq(source, n + 1, Len(source))
                               /\ Len(x) = n /\ Len(y) = Len(source) - n /\ x \o y = source
    BY <1>3, <2>3, Split, Zenon
  <2> QED BY <1>2, <2>3, <2>4
<1>5. PipeInv(q) /\ q.in = p.in /\ q.out = p.out /\ Held(q) = Held(p) \o a
  BY <1>2, <1>3, <1>4, FillHolds
<1>6. t = [[sq EXCEPT !.pipes[1] = q] EXCEPT !.stdin = b]
  BY <1>1, <1>2, Zenon DEF Read
<1>7. /\ t.pipes = new /\ t.stdin = b
      /\ t.kind = sq.kind /\ t.pc = sq.pc /\ t.wire = sq.wire /\ t.stdout = sq.stdout
      /\ t.keyed = sq.keyed /\ t.dropped = sq.dropped /\ t.typed = sq.typed /\ t.written = sq.written
      /\ t.alive = sq.alive /\ t.connected = sq.connected /\ t.died = sq.died /\ t.signalled = sq.signalled
      /\ t.result = sq.result
      /\ t = [kind |-> t.kind, pipes |-> t.pipes, pc |-> t.pc, stdin |-> t.stdin, wire |-> t.wire, stdout |-> t.stdout,
                keyed |-> t.keyed, dropped |-> t.dropped, typed |-> t.typed, written |-> t.written, alive |-> t.alive,
                connected |-> t.connected, died |-> t.died, signalled |-> t.signalled, result |-> t.result]
  BY <1>2, <1>3, <1>6 DEF SqRecords
<1>8. /\ new \in [1 .. 2 -> PipeRecords] /\ \A j \in {1, 2} : PipeInv(new[j])
      /\ new[1] = q /\ new[2] = sq.pipes[2]
  BY <1>2, <1>5, SqTypes, PipeReplaced, SMTT(20)
<1>9. t \in SqRecords
  BY <1>3, <1>4, <1>7, <1>8 DEF SqRecords
<1>10. OutputInv(t)
  BY <1>7, <1>8 DEF SqInv, OutputInv, Output
<1>11. InputInv(t)
  <2>1. PICK k, h : k = sq.keyed /\ h = Held(p)
    OBVIOUS
  <2>2. k \in Seq(Int) /\ h \in Seq(Int) /\ a \in Seq(Int) /\ b \in Seq(Int)
    BY <1>1, <1>4, <2>1, SqTypes
  <2>3. ShiftIn(k, h, a, b)
    BY <2>2, MovedIn, Zenon
  <2>4. k \o (h \o a) \o b = k \o h \o (a \o b)
    BY <2>3, Zenon DEF ShiftIn
  <2>5. sq.keyed \o (Held(p) \o a) \o b = sq.keyed \o Held(p) \o (a \o b)
    BY <2>1, <2>4, Zenon
  <2> QED BY <1>1, <1>4, <1>5, <1>7, <1>8, <2>5 DEF SqInv, InputInv
<1>12. ChildInv(t)
  BY <1>3, <1>7, <1>8 DEF SqInv, ChildInv
<1>13. EndInv(t)
  BY <1>3, <1>7, <1>8 DEF SqInv, EndInv, PtyInv, UnixInv, Ended
<1> QED BY <1>1, <1>7, <1>8, <1>9, <1>10, <1>11, <1>12, <1>13 DEF SqInv

\* A pass of the loop reads what the child wrote.
LEMMA ReadOutputKeeps ==
    ASSUME RelayAssumption, SqInv(sq), Read(2)
    PROVE  SqInv(sq')
<1>1. PICK p, source, n, t : p = sq.pipes[2] /\ source = sq.wire /\ n = Min2(Len(source), Room(p)) /\ t = sq'
  OBVIOUS
<1>2. PICK a, b, q, new : /\ a = SubSeq(source, 1, n) /\ b = SubSeq(source, n + 1, Len(source))
                          /\ q = Fill(p, a) /\ new = [sq.pipes EXCEPT ![2] = q]
  OBVIOUS
<1>3. sq \in SqRecords /\ sq.pc = "loop" /\ source \in Seq(Int) /\ PipeInv(p) /\ Wants(p)
  BY <1>1, SqTypes DEF Read, Serves
<1>4. a \in Seq(Int) /\ b \in Seq(Int) /\ a \o b = source /\ Len(a) <= Room(p)
  <2>1. Len(source) \in Nat
    BY <1>3, LenProperties
  <2>2. Room(p) \in Nat
    <3>1. p.size \in Nat /\ p.ofs \in Nat /\ p.ofs + p.size <= BUFSIZ /\ BUFSIZ \in Nat
      BY <1>3 DEF PipeInv, PipeRecords, RelayAssumption
    <3> QED BY <3>1 DEF Room
  <2>3. n \in 0 .. Len(source) /\ n <= Room(p)
    BY <1>1, <2>1, <2>2 DEF Min2
  <2>4. \E x, y \in Seq(Int) : /\ x = SubSeq(source, 1, n) /\ y = SubSeq(source, n + 1, Len(source))
                               /\ Len(x) = n /\ Len(y) = Len(source) - n /\ x \o y = source
    BY <1>3, <2>3, Split, Zenon
  <2> QED BY <1>2, <2>3, <2>4
<1>5. PipeInv(q) /\ q.in = p.in /\ q.out = p.out /\ Held(q) = Held(p) \o a
  BY <1>2, <1>3, <1>4, FillHolds, ZenonT(40)
<1>6. t = [[sq EXCEPT !.pipes[2] = q] EXCEPT !.wire = b]
  <2>1. (2 = 1) = FALSE
    OBVIOUS
  <2> QED BY <1>1, <1>2, <2>1, Zenon DEF Read
<1>7. /\ t.pipes = new /\ t.wire = b
      /\ t.kind = sq.kind /\ t.pc = sq.pc /\ t.stdin = sq.stdin /\ t.stdout = sq.stdout
      /\ t.keyed = sq.keyed /\ t.dropped = sq.dropped /\ t.typed = sq.typed /\ t.written = sq.written
      /\ t.alive = sq.alive /\ t.connected = sq.connected /\ t.died = sq.died /\ t.signalled = sq.signalled
      /\ t.result = sq.result
      /\ t = [kind |-> t.kind, pipes |-> t.pipes, pc |-> t.pc, stdin |-> t.stdin, wire |-> t.wire, stdout |-> t.stdout,
                keyed |-> t.keyed, dropped |-> t.dropped, typed |-> t.typed, written |-> t.written, alive |-> t.alive,
                connected |-> t.connected, died |-> t.died, signalled |-> t.signalled, result |-> t.result]
  BY <1>2, <1>3, <1>6 DEF SqRecords
<1>8. /\ new \in [1 .. 2 -> PipeRecords] /\ \A j \in {1, 2} : PipeInv(new[j])
      /\ new[2] = q /\ new[1] = sq.pipes[1]
  BY <1>2, <1>5, SqTypes, PipeReplaced
<1>9. t \in SqRecords
  BY <1>3, <1>4, <1>7, <1>8 DEF SqRecords
<1>10. Output(t) = Output(sq)
  <2>1. PICK o, h : o = sq.stdout /\ h = Held(p)
    OBVIOUS
  <2>2. o \in Seq(Int) /\ h \in Seq(Int) /\ a \in Seq(Int) /\ b \in Seq(Int)
    BY <1>1, <1>4, <2>1, SqTypes
  <2>3. ShiftIn(o, h, a, b)
    BY <2>2, MovedIn, Zenon
  <2>4. sq.stdout \o (Held(p) \o a) \o b = sq.stdout \o Held(p) \o (a \o b)
    BY <2>1, <2>3, Zenon DEF ShiftIn
  <2> QED BY <1>1, <1>4, <1>5, <1>7, <1>8, <2>4 DEF Output
<1>11. OutputInv(t) /\ InputInv(t)
  <2>1. OutputInv(t)
    BY <1>7, <1>10 DEF SqInv, OutputInv
  <2> QED BY <1>7, <1>8, <2>1 DEF SqInv, InputInv
<1>12. ChildInv(t)
  BY <1>3, <1>7, <1>8 DEF SqInv, ChildInv
<1>13. new[2].in
  BY <1>3, <1>5, <1>8 DEF Wants
<1>14. EndInv(t)
  BY <1>3, <1>7, <1>13 DEF SqInv, EndInv, PtyInv, UnixInv, Ended
<1> QED BY <1>1, <1>7, <1>8, <1>9, <1>11, <1>12, <1>14 DEF SqInv

\* A pass of the loop writes to the child.
LEMMA WriteInputKeeps ==
    ASSUME RelayAssumption, SqInv(sq), Write(1)
    PROVE  SqInv(sq')
<1>1. PICK p : p = sq.pipes[1]
  OBVIOUS
<1>2. sq \in SqRecords /\ sq.pc = "loop" /\ PipeInv(p)
  BY <1>1, SqTypes DEF Write, Serves
<1>3. PICK n \in 1 .. p.size :
          sq' = Looped([[sq EXCEPT !.pipes[1] = Drain(p, n)] EXCEPT !.keyed = @ \o SubSeq(Held(p), 1, n)])
  BY <1>1, Zenon DEF Write
<1>4. PICK x, q : x = SubSeq(Held(p), 1, n) /\ q = Drain(p, n)
  OBVIOUS
<1>5. PICK out, new : out = sq.keyed \o x /\ new = [sq.pipes EXCEPT ![1] = q]
  OBVIOUS
<1>6. PICK t : t = [[sq EXCEPT !.pipes[1] = q] EXCEPT !.keyed = out]
  OBVIOUS
<1>7. [[sq EXCEPT !.pipes[1] = q] EXCEPT !.keyed = @ \o x] = [[sq EXCEPT !.pipes[1] = q] EXCEPT !.keyed = out]
  BY <1>2, <1>5 DEF SqRecords
<1>8. sq' = Looped(t)
  BY <1>3, <1>4, <1>6, <1>7
<1>9. PipeInv(q) /\ q.in = p.in /\ x \in Seq(Int) /\ x \o Held(q) = Held(p)
  BY <1>2, <1>4, DrainHolds
<1>10. out \in Seq(Int)
  BY <1>5, <1>9, SqTypes, ConcatProperties
<1>11. /\ t.pipes = new /\ t.keyed = out
       /\ t.kind = sq.kind /\ t.pc = sq.pc /\ t.stdin = sq.stdin /\ t.wire = sq.wire
       /\ t.stdout = sq.stdout /\ t.dropped = sq.dropped /\ t.typed = sq.typed /\ t.written = sq.written
       /\ t.alive = sq.alive /\ t.connected = sq.connected /\ t.died = sq.died /\ t.signalled = sq.signalled
       /\ t.result = sq.result
       /\ t = [kind |-> t.kind, pipes |-> t.pipes, pc |-> t.pc, stdin |-> t.stdin, wire |-> t.wire, stdout |-> t.stdout,
                keyed |-> t.keyed, dropped |-> t.dropped, typed |-> t.typed, written |-> t.written, alive |-> t.alive,
                connected |-> t.connected, died |-> t.died, signalled |-> t.signalled, result |-> t.result]
  BY <1>2, <1>5, <1>6 DEF SqRecords
<1>12. /\ new \in [1 .. 2 -> PipeRecords] /\ \A j \in {1, 2} : PipeInv(new[j])
       /\ new[1] = q /\ new[2] = sq.pipes[2]
  <2>1. sq.pipes \in [1 .. 2 -> PipeRecords] /\ PipeInv(sq.pipes[1]) /\ PipeInv(sq.pipes[2])
    BY SqTypes
  <2> QED BY <1>5, <1>9, <2>1, PipeReplaced
<1>13. t \in SqRecords
  BY <1>2, <1>10, <1>11, <1>12 DEF SqRecords
<1>14. out \o Held(q) \o sq.stdin = sq.keyed \o Held(p) \o sq.stdin
  <2>1. PICK a, h, c : a = sq.keyed /\ h = Held(q) /\ c = sq.stdin
    OBVIOUS
  <2>2. a \in Seq(Int) /\ x \in Seq(Int) /\ h \in Seq(Int) /\ c \in Seq(Int)
    BY <1>9, <2>1, SqTypes, HeldSeq
  <2>3. ShiftOut(a, x, h, c)
    BY <2>2, MovedOut, Zenon
  <2>4. (sq.keyed \o x) \o Held(q) \o sq.stdin = sq.keyed \o (x \o Held(q)) \o sq.stdin
    BY <2>1, <2>3, Zenon DEF ShiftOut
  <2> QED BY <1>5, <1>9, <2>4
<1>15. OutputInv(t) /\ InputInv(t)
  <2>1. OutputInv(t)
    BY <1>11, <1>12 DEF SqInv, OutputInv, Output
  <2>2. InputInv(t)
    BY <1>1, <1>11, <1>12, <1>14 DEF SqInv, InputInv
  <2> QED BY <2>1, <2>2
<1>16. ChildInv(t)
  BY <1>2, <1>11 DEF SqInv, ChildInv
<1>17. EndInv(t)
  BY <1>1, <1>2, <1>9, <1>11, <1>12 DEF SqInv, EndInv, PtyInv, UnixInv, Ended
<1>18. SqInv(t)
  BY <1>11, <1>12, <1>13, <1>15, <1>16, <1>17 DEF SqInv
<1> QED BY <1>2, <1>8, <1>11, <1>18, LoopedKeeps

\* A pass of the loop writes to standard output.
LEMMA WriteOutputKeeps ==
    ASSUME RelayAssumption, SqInv(sq), Write(2)
    PROVE  SqInv(sq')
<1>1. PICK p : p = sq.pipes[2]
  OBVIOUS
<1>2. sq \in SqRecords /\ sq.pc = "loop" /\ PipeInv(p)
  BY <1>1, SqTypes DEF Write, Serves
<1>3. PICK n \in 1 .. p.size :
          sq' = Looped([[sq EXCEPT !.pipes[2] = Drain(p, n)] EXCEPT !.stdout = @ \o SubSeq(Held(p), 1, n)])
  <2>1. (2 = 1) = FALSE
    OBVIOUS
  <2> QED BY <1>1, <2>1, Zenon DEF Write
<1>4. PICK x, q : x = SubSeq(Held(p), 1, n) /\ q = Drain(p, n)
  OBVIOUS
<1>5. PICK out, new : out = sq.stdout \o x /\ new = [sq.pipes EXCEPT ![2] = q]
  OBVIOUS
<1>6. PICK t : t = [[sq EXCEPT !.pipes[2] = q] EXCEPT !.stdout = out]
  OBVIOUS
<1>7. [[sq EXCEPT !.pipes[2] = q] EXCEPT !.stdout = @ \o x] = [[sq EXCEPT !.pipes[2] = q] EXCEPT !.stdout = out]
  BY <1>2, <1>5 DEF SqRecords
<1>8. sq' = Looped(t)
  BY <1>3, <1>4, <1>6, <1>7
<1>9. PipeInv(q) /\ q.in = p.in /\ x \in Seq(Int) /\ x \o Held(q) = Held(p)
  BY <1>2, <1>4, DrainHolds
<1>10. out \in Seq(Int)
  BY <1>5, <1>9, SqTypes, ConcatProperties
<1>11. /\ t.pipes = new /\ t.stdout = out
       /\ t.kind = sq.kind /\ t.pc = sq.pc /\ t.stdin = sq.stdin /\ t.wire = sq.wire
       /\ t.keyed = sq.keyed /\ t.dropped = sq.dropped /\ t.typed = sq.typed /\ t.written = sq.written
       /\ t.alive = sq.alive /\ t.connected = sq.connected /\ t.died = sq.died /\ t.signalled = sq.signalled
       /\ t.result = sq.result
       /\ t = [kind |-> t.kind, pipes |-> t.pipes, pc |-> t.pc, stdin |-> t.stdin, wire |-> t.wire, stdout |-> t.stdout,
                keyed |-> t.keyed, dropped |-> t.dropped, typed |-> t.typed, written |-> t.written, alive |-> t.alive,
                connected |-> t.connected, died |-> t.died, signalled |-> t.signalled, result |-> t.result]
  BY <1>2, <1>5, <1>6 DEF SqRecords
<1>12. /\ new \in [1 .. 2 -> PipeRecords] /\ \A j \in {1, 2} : PipeInv(new[j])
       /\ new[2] = q /\ new[1] = sq.pipes[1]
  <2>1. sq.pipes \in [1 .. 2 -> PipeRecords] /\ PipeInv(sq.pipes[1]) /\ PipeInv(sq.pipes[2])
    BY SqTypes
  <2> QED BY <1>5, <1>9, <2>1, PipeReplaced
<1>13. t \in SqRecords
  BY <1>2, <1>10, <1>11, <1>12 DEF SqRecords
<1>14. out \o Held(q) \o sq.wire = sq.stdout \o Held(p) \o sq.wire
  <2>1. PICK a, h, c : a = sq.stdout /\ h = Held(q) /\ c = sq.wire
    OBVIOUS
  <2>2. a \in Seq(Int) /\ x \in Seq(Int) /\ h \in Seq(Int) /\ c \in Seq(Int)
    BY <1>9, <2>1, SqTypes, HeldSeq
  <2>3. ShiftOut(a, x, h, c)
    BY <2>2, MovedOut, Zenon
  <2>4. (sq.stdout \o x) \o Held(q) \o sq.wire = sq.stdout \o (x \o Held(q)) \o sq.wire
    BY <2>1, <2>3, Zenon DEF ShiftOut
  <2> QED BY <1>5, <1>9, <2>4
<1>15. OutputInv(t) /\ InputInv(t)
  <2>1. Output(t) = Output(sq)
    BY <1>1, <1>11, <1>12, <1>14 DEF Output
  <2>2. OutputInv(t)
    BY <1>11, <2>1 DEF SqInv, OutputInv
  <2> QED BY <1>11, <1>12, <2>2 DEF SqInv, InputInv
<1>16. ChildInv(t)
  BY <1>2, <1>11 DEF SqInv, ChildInv
<1>17. EndInv(t)
  BY <1>1, <1>2, <1>9, <1>11, <1>12 DEF SqInv, EndInv, PtyInv, UnixInv, Ended
<1>18. SqInv(t)
  BY <1>11, <1>12, <1>13, <1>15, <1>16, <1>17 DEF SqInv
<1> QED BY <1>2, <1>8, <1>11, <1>18, LoopedKeeps

\* A step that moves no byte: what is in the pipes, before and behind them stays.
SameData(s, t) ==
    /\ t.kind = s.kind /\ t.stdin = s.stdin /\ t.wire = s.wire /\ t.stdout = s.stdout
    /\ t.keyed = s.keyed /\ t.dropped = s.dropped /\ t.typed = s.typed /\ t.written = s.written
    /\ t.pipes[1].buf = s.pipes[1].buf /\ t.pipes[1].size = s.pipes[1].size /\ t.pipes[1].ofs = s.pipes[1].ofs
    /\ t.pipes[2].buf = s.pipes[2].buf /\ t.pipes[2].size = s.pipes[2].size /\ t.pipes[2].ofs = s.pipes[2].ofs
LEMMA DataKept ==
    ASSUME RelayAssumption, NEW s, SqInv(s), NEW t, t \in SqRecords, SameData(s, t)
    PROVE  /\ \A i \in {1, 2} : PipeInv(t.pipes[i])
           /\ OutputInv(t) /\ InputInv(t)
<1>1. t.pipes[1] \in PipeRecords /\ t.pipes[2] \in PipeRecords
  BY DEF SqRecords
<1>2. PipeInv(s.pipes[1]) /\ PipeInv(s.pipes[2])
  BY SqTypes
<1>3. PipeInv(t.pipes[1]) /\ PipeInv(t.pipes[2])
  BY <1>1, <1>2 DEF PipeInv, SameData
<1>4. Held(t.pipes[1]) = Held(s.pipes[1]) /\ Held(t.pipes[2]) = Held(s.pipes[2])
  BY DEF Held, SameData
<1>5. OutputInv(t)
  BY <1>4 DEF SqInv, OutputInv, Output, SameData
<1>6. InputInv(t)
  BY <1>4 DEF SqInv, InputInv, SameData
<1> QED BY <1>3, <1>5, <1>6

\* The loop learns of the child's death.
LEMMA ChildSeenKeeps ==
    ASSUME RelayAssumption, SqInv(sq), ChildSeen
    PROVE  SqInv(sq')
<1>1. sq \in SqRecords
  BY SqTypes
<1>2. PICK t : t = [sq EXCEPT !.pc = "final"]
  OBVIOUS
<1>3. /\ t.pc = "final"
      /\ t.kind = sq.kind /\ t.pipes = sq.pipes /\ t.stdin = sq.stdin /\ t.wire = sq.wire
      /\ t.stdout = sq.stdout /\ t.keyed = sq.keyed /\ t.dropped = sq.dropped /\ t.typed = sq.typed
      /\ t.written = sq.written /\ t.alive = sq.alive /\ t.connected = sq.connected /\ t.died = sq.died
      /\ t.signalled = sq.signalled /\ t.result = sq.result
      /\ t = [kind |-> t.kind, pipes |-> t.pipes, pc |-> t.pc, stdin |-> t.stdin, wire |-> t.wire, stdout |-> t.stdout,
                keyed |-> t.keyed, dropped |-> t.dropped, typed |-> t.typed, written |-> t.written, alive |-> t.alive,
                connected |-> t.connected, died |-> t.died, signalled |-> t.signalled, result |-> t.result]
  BY <1>1, <1>2 DEF SqRecords
<1>4. t \in SqRecords
  BY <1>1, <1>3 DEF SqRecords
<1>5. \A i \in {1, 2} : PipeInv(t.pipes[i])
  BY <1>3, <1>4, DataKept DEF SameData
<1>6. OutputInv(t) /\ InputInv(t)
  BY <1>3, <1>4, DataKept DEF SameData
<1>7. ChildInv(t)
  BY <1>3 DEF ChildSeen, Serves, SqInv, ChildInv
<1>8. EndInv(t)
  BY <1>1, <1>3 DEF ChildSeen, Serves, SqInv, ChildInv, EndInv, PtyInv, UnixInv, Ended, SqRecords
<1>9. sq' = t
  BY <1>2, Zenon DEF ChildSeen
<1> QED BY <1>4, <1>5, <1>6, <1>7, <1>8, <1>9 DEF SqInv

\* main() gives up.
LEMMA FailKeeps ==
    ASSUME RelayAssumption, SqInv(sq), fail_io
    PROVE  SqInv(sq')
<1>1. sq \in SqRecords
  BY SqTypes
<1>2. PICK t : t = [sq EXCEPT !.pc = "exited", !.result = "failed"]
  OBVIOUS
<1>3. /\ t.pc = "exited" /\ t.result = "failed"
      /\ t.kind = sq.kind /\ t.pipes = sq.pipes /\ t.stdin = sq.stdin /\ t.wire = sq.wire
      /\ t.stdout = sq.stdout /\ t.keyed = sq.keyed /\ t.dropped = sq.dropped /\ t.typed = sq.typed
      /\ t.written = sq.written /\ t.alive = sq.alive /\ t.connected = sq.connected /\ t.died = sq.died
      /\ t.signalled = sq.signalled
      /\ t = [kind |-> t.kind, pipes |-> t.pipes, pc |-> t.pc, stdin |-> t.stdin, wire |-> t.wire, stdout |-> t.stdout,
                keyed |-> t.keyed, dropped |-> t.dropped, typed |-> t.typed, written |-> t.written, alive |-> t.alive,
                connected |-> t.connected, died |-> t.died, signalled |-> t.signalled, result |-> t.result]
  BY <1>1, <1>2 DEF SqRecords
<1>4. t \in SqRecords
  BY <1>1, <1>3 DEF SqRecords
<1>5. \A i \in {1, 2} : PipeInv(t.pipes[i])
  BY <1>3, <1>4, DataKept DEF SameData
<1>6. OutputInv(t) /\ InputInv(t)
  BY <1>3, <1>4, DataKept DEF SameData
<1>7. ChildInv(t)
  BY <1>3 DEF fail_io, Serves, SqInv, ChildInv
<1>8. EndInv(t)
  BY <1>1, <1>3 DEF fail_io, Serves, SqInv, ChildInv, EndInv, PtyInv, UnixInv, Ended, SqRecords
<1>9. sq' = t
  BY <1>2, Zenon DEF fail_io
<1> QED BY <1>4, <1>5, <1>6, <1>7, <1>8, <1>9 DEF SqInv

\* SIGPIPE.
LEMMA BrokenPipeKeeps ==
    ASSUME RelayAssumption, SqInv(sq), BrokenPipe
    PROVE  SqInv(sq')
<1>1. sq \in SqRecords
  BY SqTypes
<1>2. PICK t : t = [sq EXCEPT !.pc = "exited", !.result = "sigpipe"]
  OBVIOUS
<1>3. /\ t.pc = "exited" /\ t.result = "sigpipe"
      /\ t.kind = sq.kind /\ t.pipes = sq.pipes /\ t.stdin = sq.stdin /\ t.wire = sq.wire
      /\ t.stdout = sq.stdout /\ t.keyed = sq.keyed /\ t.dropped = sq.dropped /\ t.typed = sq.typed
      /\ t.written = sq.written /\ t.alive = sq.alive /\ t.connected = sq.connected /\ t.died = sq.died
      /\ t.signalled = sq.signalled
      /\ t = [kind |-> t.kind, pipes |-> t.pipes, pc |-> t.pc, stdin |-> t.stdin, wire |-> t.wire, stdout |-> t.stdout,
                keyed |-> t.keyed, dropped |-> t.dropped, typed |-> t.typed, written |-> t.written, alive |-> t.alive,
                connected |-> t.connected, died |-> t.died, signalled |-> t.signalled, result |-> t.result]
  BY <1>1, <1>2 DEF SqRecords
<1>4. t \in SqRecords
  BY <1>1, <1>3 DEF SqRecords
<1>5. \A i \in {1, 2} : PipeInv(t.pipes[i])
  BY <1>3, <1>4, DataKept DEF SameData
<1>6. OutputInv(t) /\ InputInv(t)
  BY <1>3, <1>4, DataKept DEF SameData
<1>7. ChildInv(t)
  BY <1>3 DEF BrokenPipe, Serves, SqInv, ChildInv
<1>8. EndInv(t)
  BY <1>1, <1>3 DEF BrokenPipe, Serves, SqInv, ChildInv, EndInv, PtyInv, UnixInv, Ended, SqRecords
<1>9. sq' = t
  BY <1>2, Zenon DEF BrokenPipe
<1> QED BY <1>4, <1>5, <1>6, <1>7, <1>8, <1>9 DEF SqInv

\* main() of squish-pty starts the child.
LEMMA SetupPtyKeeps ==
    ASSUME RelayAssumption, SqInv(sq), SetupPty
    PROVE  SqInv(sq')
<1>1. sq \in SqRecords
  BY SqTypes
<1>2. PICK t : t = [sq EXCEPT !.alive = TRUE, !.connected = TRUE, !.pc = "loop"]
  OBVIOUS
<1>3. /\ t.pc = "loop" /\ t.alive = TRUE /\ t.connected = TRUE
      /\ t.kind = sq.kind /\ t.pipes = sq.pipes /\ t.stdin = sq.stdin /\ t.wire = sq.wire
      /\ t.stdout = sq.stdout /\ t.keyed = sq.keyed /\ t.dropped = sq.dropped /\ t.typed = sq.typed
      /\ t.written = sq.written /\ t.died = sq.died /\ t.signalled = sq.signalled /\ t.result = sq.result
      /\ t = [kind |-> t.kind, pipes |-> t.pipes, pc |-> t.pc, stdin |-> t.stdin, wire |-> t.wire, stdout |-> t.stdout,
                keyed |-> t.keyed, dropped |-> t.dropped, typed |-> t.typed, written |-> t.written, alive |-> t.alive,
                connected |-> t.connected, died |-> t.died, signalled |-> t.signalled, result |-> t.result]
  BY <1>1, <1>2 DEF SqRecords
<1>4. t \in SqRecords
  BY <1>1, <1>3 DEF SqRecords
<1>5. \A i \in {1, 2} : PipeInv(t.pipes[i])
  BY <1>3, <1>4, DataKept DEF SameData
<1>6. OutputInv(t) /\ InputInv(t)
  BY <1>3, <1>4, DataKept DEF SameData
<1>7. ChildInv(t)
  BY <1>3 DEF SetupPty, Serves, SqInv, ChildInv
<1>8. EndInv(t)
  BY <1>1, <1>3 DEF SetupPty, Serves, SqInv, ChildInv, EndInv, PtyInv, UnixInv, Ended, SqRecords
<1>9. sq' = t
  BY <1>2, Zenon DEF SetupPty
<1> QED BY <1>4, <1>5, <1>6, <1>7, <1>8, <1>9 DEF SqInv

\* main() of squish-unix starts the child.
LEMMA SetupUnixKeeps ==
    ASSUME RelayAssumption, SqInv(sq), SetupUnix
    PROVE  SqInv(sq')
<1>1. sq \in SqRecords
  BY SqTypes
<1>2. PICK t : t = [sq EXCEPT !.alive = TRUE, !.pc = "accept"]
  OBVIOUS
<1>3. /\ t.pc = "accept" /\ t.alive = TRUE
      /\ t.kind = sq.kind /\ t.pipes = sq.pipes /\ t.stdin = sq.stdin /\ t.wire = sq.wire
      /\ t.stdout = sq.stdout /\ t.keyed = sq.keyed /\ t.dropped = sq.dropped /\ t.typed = sq.typed
      /\ t.written = sq.written /\ t.connected = sq.connected /\ t.died = sq.died /\ t.signalled = sq.signalled
      /\ t.result = sq.result
      /\ t = [kind |-> t.kind, pipes |-> t.pipes, pc |-> t.pc, stdin |-> t.stdin, wire |-> t.wire, stdout |-> t.stdout,
                keyed |-> t.keyed, dropped |-> t.dropped, typed |-> t.typed, written |-> t.written, alive |-> t.alive,
                connected |-> t.connected, died |-> t.died, signalled |-> t.signalled, result |-> t.result]
  BY <1>1, <1>2 DEF SqRecords
<1>4. t \in SqRecords
  BY <1>1, <1>3 DEF SqRecords
<1>5. \A i \in {1, 2} : PipeInv(t.pipes[i])
  BY <1>3, <1>4, DataKept DEF SameData
<1>6. OutputInv(t) /\ InputInv(t)
  BY <1>3, <1>4, DataKept DEF SameData
<1>7. ChildInv(t)
  BY <1>3 DEF SetupUnix, Serves, SqInv, ChildInv
<1>8. EndInv(t)
  BY <1>1, <1>3 DEF SetupUnix, Serves, SqInv, ChildInv, EndInv, PtyInv, UnixInv, Ended, SqRecords
<1>9. sq' = t
  BY <1>2, Zenon DEF SetupUnix
<1> QED BY <1>4, <1>5, <1>6, <1>7, <1>8, <1>9 DEF SqInv

\* main() returns.
LEMMA ExitKeeps ==
    ASSUME RelayAssumption, SqInv(sq), Exit
    PROVE  SqInv(sq')
<1>1. sq \in SqRecords
  BY SqTypes
<1>2. PICK r : r = IF sq.kind = "pty" /\ ~ sq.alive THEN sq.died ELSE "zero"
  OBVIOUS
<1>3. r \in {"none", "failed", "sigpipe", "zero", "no", "status", "signal"}
  BY <1>1, <1>2 DEF SqRecords
<1>4. PICK t : t = [sq EXCEPT !.pc = "exited", !.result = r]
  OBVIOUS
<1>5. /\ t.pc = "exited" /\ t.result = r
      /\ t.kind = sq.kind /\ t.pipes = sq.pipes /\ t.stdin = sq.stdin /\ t.wire = sq.wire
      /\ t.stdout = sq.stdout /\ t.keyed = sq.keyed /\ t.dropped = sq.dropped /\ t.typed = sq.typed
      /\ t.written = sq.written /\ t.alive = sq.alive /\ t.connected = sq.connected /\ t.died = sq.died
      /\ t.signalled = sq.signalled
      /\ t = [kind |-> t.kind, pipes |-> t.pipes, pc |-> t.pc, stdin |-> t.stdin, wire |-> t.wire, stdout |-> t.stdout,
                keyed |-> t.keyed, dropped |-> t.dropped, typed |-> t.typed, written |-> t.written, alive |-> t.alive,
                connected |-> t.connected, died |-> t.died, signalled |-> t.signalled, result |-> t.result]
  BY <1>1, <1>4 DEF SqRecords
<1>6. t \in SqRecords
  BY <1>1, <1>5, <1>2, <1>3 DEF SqRecords
<1>7. \A i \in {1, 2} : PipeInv(t.pipes[i])
  BY <1>5, <1>6, DataKept DEF SameData
<1>8. OutputInv(t) /\ InputInv(t)
  BY <1>5, <1>6, DataKept DEF SameData
<1>9. ChildInv(t)
  BY <1>5, <1>2, <1>3 DEF Exit, Serves, SqInv, ChildInv
<1>10. EndInv(t)
  BY <1>1, <1>5, <1>2, <1>3 DEF Exit, Serves, SqInv, ChildInv, EndInv, PtyInv, UnixInv, Ended, SqRecords
<1>11. sq' = t
  BY <1>4, <1>2, <1>3, Zenon DEF Exit
<1> QED BY <1>6, <1>7, <1>8, <1>9, <1>10, <1>11 DEF SqInv

\* The child dies.
LEMMA DiesKeeps ==
    ASSUME RelayAssumption, SqInv(sq), ChildDies
    PROVE  SqInv(sq')
<1>1. sq \in SqRecords
  BY SqTypes
<1>2. PICK how \in {"status", "signal"} : sq' = [sq EXCEPT !.alive = FALSE, !.connected = FALSE, !.died = how]
  BY DEF ChildDies
<1>3. PICK t : t = [sq EXCEPT !.alive = FALSE, !.connected = FALSE, !.died = how]
  OBVIOUS
<1>4. /\ t.alive = FALSE /\ t.connected = FALSE /\ t.died = how
      /\ t.kind = sq.kind /\ t.pipes = sq.pipes /\ t.pc = sq.pc /\ t.stdin = sq.stdin
      /\ t.wire = sq.wire /\ t.stdout = sq.stdout /\ t.keyed = sq.keyed /\ t.dropped = sq.dropped
      /\ t.typed = sq.typed /\ t.written = sq.written /\ t.signalled = sq.signalled /\ t.result = sq.result
      /\ t = [kind |-> t.kind, pipes |-> t.pipes, pc |-> t.pc, stdin |-> t.stdin, wire |-> t.wire, stdout |-> t.stdout,
                keyed |-> t.keyed, dropped |-> t.dropped, typed |-> t.typed, written |-> t.written, alive |-> t.alive,
                connected |-> t.connected, died |-> t.died, signalled |-> t.signalled, result |-> t.result]
  BY <1>1, <1>3 DEF SqRecords
<1>5. t \in SqRecords
  BY <1>1, <1>4, <1>2 DEF SqRecords
<1>6. \A i \in {1, 2} : PipeInv(t.pipes[i])
  BY <1>4, <1>5, DataKept DEF SameData
<1>7. OutputInv(t) /\ InputInv(t)
  BY <1>4, <1>5, DataKept DEF SameData
<1>8. ChildInv(t)
  BY <1>4, <1>2 DEF ChildDies, Serves, SqInv, ChildInv
<1>9. EndInv(t)
  BY <1>1, <1>4, <1>2 DEF ChildDies, Serves, SqInv, ChildInv, EndInv, PtyInv, UnixInv, Ended, SqRecords
<1>10. sq' = t
  BY <1>3, <1>2, Zenon DEF ChildDies
<1> QED BY <1>5, <1>6, <1>7, <1>8, <1>9, <1>10 DEF SqInv

\* The child closes its side.
LEMMA DisconnectsKeeps ==
    ASSUME RelayAssumption, SqInv(sq), Disconnects
    PROVE  SqInv(sq')
<1>1. sq \in SqRecords
  BY SqTypes
<1>2. PICK t : t = [sq EXCEPT !.connected = FALSE]
  OBVIOUS
<1>3. /\ t.connected = FALSE
      /\ t.kind = sq.kind /\ t.pipes = sq.pipes /\ t.pc = sq.pc /\ t.stdin = sq.stdin
      /\ t.wire = sq.wire /\ t.stdout = sq.stdout /\ t.keyed = sq.keyed /\ t.dropped = sq.dropped
      /\ t.typed = sq.typed /\ t.written = sq.written /\ t.alive = sq.alive /\ t.died = sq.died
      /\ t.signalled = sq.signalled /\ t.result = sq.result
      /\ t = [kind |-> t.kind, pipes |-> t.pipes, pc |-> t.pc, stdin |-> t.stdin, wire |-> t.wire, stdout |-> t.stdout,
                keyed |-> t.keyed, dropped |-> t.dropped, typed |-> t.typed, written |-> t.written, alive |-> t.alive,
                connected |-> t.connected, died |-> t.died, signalled |-> t.signalled, result |-> t.result]
  BY <1>1, <1>2 DEF SqRecords
<1>4. t \in SqRecords
  BY <1>1, <1>3 DEF SqRecords
<1>5. \A i \in {1, 2} : PipeInv(t.pipes[i])
  BY <1>3, <1>4, DataKept DEF SameData
<1>6. OutputInv(t) /\ InputInv(t)
  BY <1>3, <1>4, DataKept DEF SameData
<1>7. ChildInv(t)
  BY <1>3 DEF Disconnects, Serves, SqInv, ChildInv
<1>8. EndInv(t)
  BY <1>1, <1>3 DEF Disconnects, Serves, SqInv, ChildInv, EndInv, PtyInv, UnixInv, Ended, SqRecords
<1>9. sq' = t
  BY <1>2, Zenon DEF Disconnects
<1> QED BY <1>4, <1>5, <1>6, <1>7, <1>8, <1>9 DEF SqInv

\* The child connects again.
LEMMA ConnectsKeeps ==
    ASSUME RelayAssumption, SqInv(sq), Connects
    PROVE  SqInv(sq')
<1>1. sq \in SqRecords
  BY SqTypes
<1>2. PICK t : t = [sq EXCEPT !.connected = TRUE]
  OBVIOUS
<1>3. /\ t.connected = TRUE
      /\ t.kind = sq.kind /\ t.pipes = sq.pipes /\ t.pc = sq.pc /\ t.stdin = sq.stdin
      /\ t.wire = sq.wire /\ t.stdout = sq.stdout /\ t.keyed = sq.keyed /\ t.dropped = sq.dropped
      /\ t.typed = sq.typed /\ t.written = sq.written /\ t.alive = sq.alive /\ t.died = sq.died
      /\ t.signalled = sq.signalled /\ t.result = sq.result
      /\ t = [kind |-> t.kind, pipes |-> t.pipes, pc |-> t.pc, stdin |-> t.stdin, wire |-> t.wire, stdout |-> t.stdout,
                keyed |-> t.keyed, dropped |-> t.dropped, typed |-> t.typed, written |-> t.written, alive |-> t.alive,
                connected |-> t.connected, died |-> t.died, signalled |-> t.signalled, result |-> t.result]
  BY <1>1, <1>2 DEF SqRecords
<1>4. t \in SqRecords
  BY <1>1, <1>3 DEF SqRecords
<1>5. \A i \in {1, 2} : PipeInv(t.pipes[i])
  BY <1>3, <1>4, DataKept DEF SameData
<1>6. OutputInv(t) /\ InputInv(t)
  BY <1>3, <1>4, DataKept DEF SameData
<1>7. ChildInv(t)
  BY <1>3 DEF Connects, Serves, SqInv, ChildInv
<1>8. EndInv(t)
  BY <1>1, <1>3 DEF Connects, Serves, SqInv, ChildInv, EndInv, PtyInv, UnixInv, Ended, SqRecords
<1>9. sq' = t
  BY <1>2, Zenon DEF Connects
<1> QED BY <1>4, <1>5, <1>6, <1>7, <1>8, <1>9 DEF SqInv

\* SIGCHLD is delivered.
LEMMA SignalKeeps ==
    ASSUME RelayAssumption, SqInv(sq), sigchld_handler
    PROVE  SqInv(sq')
<1>1. sq \in SqRecords
  BY SqTypes
<1>2. PICK t : t = [sq EXCEPT !.signalled = TRUE]
  OBVIOUS
<1>3. /\ t.signalled = TRUE
      /\ t.kind = sq.kind /\ t.pipes = sq.pipes /\ t.pc = sq.pc /\ t.stdin = sq.stdin
      /\ t.wire = sq.wire /\ t.stdout = sq.stdout /\ t.keyed = sq.keyed /\ t.dropped = sq.dropped
      /\ t.typed = sq.typed /\ t.written = sq.written /\ t.alive = sq.alive /\ t.connected = sq.connected
      /\ t.died = sq.died /\ t.result = sq.result
      /\ t = [kind |-> t.kind, pipes |-> t.pipes, pc |-> t.pc, stdin |-> t.stdin, wire |-> t.wire, stdout |-> t.stdout,
                keyed |-> t.keyed, dropped |-> t.dropped, typed |-> t.typed, written |-> t.written, alive |-> t.alive,
                connected |-> t.connected, died |-> t.died, signalled |-> t.signalled, result |-> t.result]
  BY <1>1, <1>2 DEF SqRecords
<1>4. t \in SqRecords
  BY <1>1, <1>3 DEF SqRecords
<1>5. \A i \in {1, 2} : PipeInv(t.pipes[i])
  BY <1>3, <1>4, DataKept DEF SameData
<1>6. OutputInv(t) /\ InputInv(t)
  BY <1>3, <1>4, DataKept DEF SameData
<1>7. ChildInv(t)
  BY <1>3 DEF sigchld_handler, Serves, SqInv, ChildInv
<1>8. EndInv(t)
  BY <1>1, <1>3 DEF sigchld_handler, Serves, SqInv, ChildInv, EndInv, PtyInv, UnixInv, Ended, SqRecords
<1>9. sq' = t
  BY <1>2, Zenon DEF sigchld_handler
<1> QED BY <1>4, <1>5, <1>6, <1>7, <1>8, <1>9 DEF SqInv

\* squish-pty meets the end of standard input.
LEMMA EndPtyInputKeeps ==
    ASSUME RelayAssumption, SqInv(sq), EndPty(1)
    PROVE  SqInv(sq')
<1>1. sq \in SqRecords /\ sq.pipes \in [1 .. 2 -> PipeRecords] /\ PipeInv(sq.pipes[1]) /\ PipeInv(sq.pipes[2])
  BY SqTypes
<1>2. PICK q, new : q = [sq.pipes[1] EXCEPT !.in = FALSE] /\ new = [sq.pipes EXCEPT ![1] = q]
  OBVIOUS
<1>3. q \in PipeRecords /\ q.buf = sq.pipes[1].buf /\ q.size = sq.pipes[1].size /\ q.ofs = sq.pipes[1].ofs
      /\ q.in = FALSE /\ (q.in => sq.pipes[1].in)
  BY <1>1, <1>2 DEF PipeInv, PipeRecords
<1>4. PipeInv(q)
  BY <1>1, <1>3 DEF PipeInv
<1>5. new \in [1 .. 2 -> PipeRecords] /\ new[1] = q /\ new[2] = sq.pipes[2]
  BY <1>1, <1>2, <1>3
<1>6. PICK t : t = [sq EXCEPT !.pipes = new]
  OBVIOUS
<1>7. /\ t.pipes = new
      /\ t.kind = sq.kind /\ t.pc = sq.pc /\ t.stdin = sq.stdin /\ t.wire = sq.wire
      /\ t.stdout = sq.stdout /\ t.keyed = sq.keyed /\ t.dropped = sq.dropped /\ t.typed = sq.typed
      /\ t.written = sq.written /\ t.alive = sq.alive /\ t.connected = sq.connected /\ t.died = sq.died
      /\ t.signalled = sq.signalled /\ t.result = sq.result
      /\ t = [kind |-> t.kind, pipes |-> t.pipes, pc |-> t.pc, stdin |-> t.stdin, wire |-> t.wire, stdout |-> t.stdout,
                keyed |-> t.keyed, dropped |-> t.dropped, typed |-> t.typed, written |-> t.written, alive |-> t.alive,
                connected |-> t.connected, died |-> t.died, signalled |-> t.signalled, result |-> t.result]
  BY <1>1, <1>6 DEF SqRecords
<1>8. t \in SqRecords
  BY <1>1, <1>5, <1>7 DEF SqRecords
<1>9. SameData(sq, t)
  BY <1>3, <1>5, <1>7 DEF SameData
<1>10. (\A j \in {1, 2} : PipeInv(t.pipes[j])) /\ OutputInv(t) /\ InputInv(t)
  BY <1>8, <1>9, DataKept
<1>11. sq.pc = "loop"
  BY Zenon DEF EndPty, Serves
<1>12. ChildInv(t)
  BY <1>7, <1>11 DEF SqInv, ChildInv
<1>13. EndInv(t)
  BY <1>3, <1>5, <1>7, <1>11 DEF SqInv, EndInv, PtyInv, UnixInv, Ended
<1>14. SqInv(t)
  BY <1>8, <1>10, <1>12, <1>13 DEF SqInv
<1>15. [sq EXCEPT !.pipes[1].in = FALSE] = t
  BY <1>1, <1>2, <1>6 DEF SqRecords
<1>16. sq' = Looped(t)
  BY <1>15, Zenon DEF EndPty
<1> QED BY <1>7, <1>11, <1>14, <1>16, LoopedKeeps

\* squish-pty meets the end of the terminal.
LEMMA EndPtyOutputKeeps ==
    ASSUME RelayAssumption, SqInv(sq), EndPty(2)
    PROVE  SqInv(sq')
<1>1. sq \in SqRecords /\ sq.pipes \in [1 .. 2 -> PipeRecords] /\ PipeInv(sq.pipes[1]) /\ PipeInv(sq.pipes[2])
  BY SqTypes
<1>2. PICK q, new : q = [sq.pipes[2] EXCEPT !.in = FALSE] /\ new = [sq.pipes EXCEPT ![2] = q]
  OBVIOUS
<1>3. q \in PipeRecords /\ q.buf = sq.pipes[2].buf /\ q.size = sq.pipes[2].size /\ q.ofs = sq.pipes[2].ofs
      /\ q.in = FALSE /\ (q.in => sq.pipes[2].in)
  BY <1>1, <1>2 DEF PipeInv, PipeRecords
<1>4. PipeInv(q)
  BY <1>1, <1>3 DEF PipeInv
<1>5. new \in [1 .. 2 -> PipeRecords] /\ new[2] = q /\ new[1] = sq.pipes[1]
  BY <1>1, <1>2, <1>3
<1>6. PICK t : t = [sq EXCEPT !.pipes = new]
  OBVIOUS
<1>7. /\ t.pipes = new
      /\ t.kind = sq.kind /\ t.pc = sq.pc /\ t.stdin = sq.stdin /\ t.wire = sq.wire
      /\ t.stdout = sq.stdout /\ t.keyed = sq.keyed /\ t.dropped = sq.dropped /\ t.typed = sq.typed
      /\ t.written = sq.written /\ t.alive = sq.alive /\ t.connected = sq.connected /\ t.died = sq.died
      /\ t.signalled = sq.signalled /\ t.result = sq.result
      /\ t = [kind |-> t.kind, pipes |-> t.pipes, pc |-> t.pc, stdin |-> t.stdin, wire |-> t.wire, stdout |-> t.stdout,
                keyed |-> t.keyed, dropped |-> t.dropped, typed |-> t.typed, written |-> t.written, alive |-> t.alive,
                connected |-> t.connected, died |-> t.died, signalled |-> t.signalled, result |-> t.result]
  BY <1>1, <1>6 DEF SqRecords
<1>8. t \in SqRecords
  BY <1>1, <1>5, <1>7 DEF SqRecords
<1>9. SameData(sq, t)
  BY <1>3, <1>5, <1>7 DEF SameData
<1>10. (\A j \in {1, 2} : PipeInv(t.pipes[j])) /\ OutputInv(t) /\ InputInv(t)
  BY <1>8, <1>9, DataKept
<1>11. sq.pc = "loop" /\ sq.wire = << >> /\ ~ sq.connected /\ sq.kind = "pty"
  <2>1. (2 = 1) = FALSE
    OBVIOUS
  <2> QED BY <2>1, Zenon DEF EndPty, Serves
<1>12. ChildInv(t)
  BY <1>7, <1>11 DEF SqInv, ChildInv
<1>13. EndInv(t)
  BY <1>3, <1>5, <1>7, <1>11 DEF SqInv, EndInv, PtyInv, UnixInv, Ended
<1>14. SqInv(t)
  BY <1>8, <1>10, <1>12, <1>13 DEF SqInv
<1>15. [sq EXCEPT !.pipes[2].in = FALSE] = t
  BY <1>1, <1>2, <1>6 DEF SqRecords
<1>16. sq' = Looped(t)
  BY <1>15, Zenon DEF EndPty
<1> QED BY <1>7, <1>11, <1>14, <1>16, LoopedKeeps

\* squish-unix meets the end of standard input.
LEMMA EndUnixInputKeeps ==
    ASSUME RelayAssumption, SqInv(sq), EndUnix(1)
    PROVE  SqInv(sq')
<1>1. sq \in SqRecords /\ sq.pipes \in [1 .. 2 -> PipeRecords] /\ PipeInv(sq.pipes[1]) /\ PipeInv(sq.pipes[2])
  BY SqTypes
<1>2. PICK q, new : q = [sq.pipes[1] EXCEPT !.in = FALSE] /\ new = [sq.pipes EXCEPT ![1] = q]
  OBVIOUS
<1>3. q \in PipeRecords /\ q.buf = sq.pipes[1].buf /\ q.size = sq.pipes[1].size /\ q.ofs = sq.pipes[1].ofs
      /\ q.in = FALSE /\ (q.in => sq.pipes[1].in)
  BY <1>1, <1>2 DEF PipeInv, PipeRecords
<1>4. PipeInv(q)
  BY <1>1, <1>3 DEF PipeInv
<1>5. new \in [1 .. 2 -> PipeRecords] /\ new[1] = q /\ new[2] = sq.pipes[2]
  BY <1>1, <1>2, <1>3
<1>6. PICK t : t = [sq EXCEPT !.pipes = new]
  OBVIOUS
<1>7. /\ t.pipes = new
      /\ t.kind = sq.kind /\ t.pc = sq.pc /\ t.stdin = sq.stdin /\ t.wire = sq.wire
      /\ t.stdout = sq.stdout /\ t.keyed = sq.keyed /\ t.dropped = sq.dropped /\ t.typed = sq.typed
      /\ t.written = sq.written /\ t.alive = sq.alive /\ t.connected = sq.connected /\ t.died = sq.died
      /\ t.signalled = sq.signalled /\ t.result = sq.result
      /\ t = [kind |-> t.kind, pipes |-> t.pipes, pc |-> t.pc, stdin |-> t.stdin, wire |-> t.wire, stdout |-> t.stdout,
                keyed |-> t.keyed, dropped |-> t.dropped, typed |-> t.typed, written |-> t.written, alive |-> t.alive,
                connected |-> t.connected, died |-> t.died, signalled |-> t.signalled, result |-> t.result]
  BY <1>1, <1>6 DEF SqRecords
<1>8. t \in SqRecords
  BY <1>1, <1>5, <1>7 DEF SqRecords
<1>9. SameData(sq, t)
  BY <1>3, <1>5, <1>7 DEF SameData
<1>10. (\A j \in {1, 2} : PipeInv(t.pipes[j])) /\ OutputInv(t) /\ InputInv(t)
  BY <1>8, <1>9, DataKept
<1>11. sq.pc = "loop"
  BY Zenon DEF EndUnix, Serves
<1>12. ChildInv(t)
  BY <1>7, <1>11 DEF SqInv, ChildInv
<1>13. EndInv(t)
  BY <1>3, <1>5, <1>7, <1>11 DEF SqInv, EndInv, PtyInv, UnixInv, Ended
<1>14. SqInv(t)
  BY <1>8, <1>10, <1>12, <1>13 DEF SqInv
<1>15. [sq EXCEPT !.pipes[1].in = FALSE] = t
  BY <1>1, <1>2, <1>6 DEF SqRecords
<1>16. sq' = Looped(t)
  BY <1>15, Zenon DEF EndUnix
<1> QED BY <1>7, <1>11, <1>14, <1>16, LoopedKeeps

\* The terminal cannot be written to any more.
LEMMA WriteFailsKeeps ==
    ASSUME RelayAssumption, SqInv(sq), WriteFails
    PROVE  SqInv(sq')
<1>1. sq \in SqRecords /\ sq.pipes \in [1 .. 2 -> PipeRecords] /\ PipeInv(sq.pipes[1]) /\ PipeInv(sq.pipes[2])
  BY SqTypes
<1>2. PICK q, new : q = [sq.pipes[1] EXCEPT !.out = FALSE] /\ new = [sq.pipes EXCEPT ![1] = q]
  OBVIOUS
<1>3. q \in PipeRecords /\ q.buf = sq.pipes[1].buf /\ q.size = sq.pipes[1].size /\ q.ofs = sq.pipes[1].ofs
      /\ q.out = FALSE /\ (q.in => sq.pipes[1].in)
  BY <1>1, <1>2 DEF PipeInv, PipeRecords
<1>4. PipeInv(q)
  BY <1>1, <1>3 DEF PipeInv
<1>5. new \in [1 .. 2 -> PipeRecords] /\ new[1] = q /\ new[2] = sq.pipes[2]
  BY <1>1, <1>2, <1>3
<1>6. PICK t : t = [sq EXCEPT !.pipes = new]
  OBVIOUS
<1>7. /\ t.pipes = new
      /\ t.kind = sq.kind /\ t.pc = sq.pc /\ t.stdin = sq.stdin /\ t.wire = sq.wire
      /\ t.stdout = sq.stdout /\ t.keyed = sq.keyed /\ t.dropped = sq.dropped /\ t.typed = sq.typed
      /\ t.written = sq.written /\ t.alive = sq.alive /\ t.connected = sq.connected /\ t.died = sq.died
      /\ t.signalled = sq.signalled /\ t.result = sq.result
      /\ t = [kind |-> t.kind, pipes |-> t.pipes, pc |-> t.pc, stdin |-> t.stdin, wire |-> t.wire, stdout |-> t.stdout,
                keyed |-> t.keyed, dropped |-> t.dropped, typed |-> t.typed, written |-> t.written, alive |-> t.alive,
                connected |-> t.connected, died |-> t.died, signalled |-> t.signalled, result |-> t.result]
  BY <1>1, <1>6 DEF SqRecords
<1>8. t \in SqRecords
  BY <1>1, <1>5, <1>7 DEF SqRecords
<1>9. SameData(sq, t)
  BY <1>3, <1>5, <1>7 DEF SameData
<1>10. (\A j \in {1, 2} : PipeInv(t.pipes[j])) /\ OutputInv(t) /\ InputInv(t)
  BY <1>8, <1>9, DataKept
<1>11. sq.pc = "loop"
  BY Zenon DEF WriteFails, Serves
<1>12. ChildInv(t)
  BY <1>7, <1>11 DEF SqInv, ChildInv
<1>13. EndInv(t)
  BY <1>3, <1>5, <1>7, <1>11 DEF SqInv, EndInv, PtyInv, UnixInv, Ended
<1>14. SqInv(t)
  BY <1>8, <1>10, <1>12, <1>13 DEF SqInv
<1>15. [sq EXCEPT !.pipes[1].out = FALSE] = t
  BY <1>1, <1>2, <1>6 DEF SqRecords
<1>16. sq' = t
  BY <1>15, Zenon DEF WriteFails
<1> QED BY <1>14, <1>16

\* Nothing and something.
LEMMA EmptyParts ==
    \A a, b \in Seq(Int) : a \o b = << >> => a = << >> /\ b = << >>
<1> SUFFICES ASSUME NEW a \in Seq(Int), NEW b \in Seq(Int), a \o b = << >> PROVE a = << >> /\ b = << >>
  OBVIOUS
<1>1. Len(a) \in Nat /\ Len(b) \in Nat /\ Len(a \o b) = Len(a) + Len(b)
  BY ConcatProperties, LenProperties
<1>2. Len(a) = 0 /\ Len(b) = 0
  BY <1>1
<1> QED BY <1>2, EmptySeq
LEMMA EmptyHeld ==
    ASSUME RelayAssumption, NEW p, PipeInv(p)
    PROVE  Held(p) = << >> <=> p.size = 0
<1>1. PICK h : h = Held(p)
  OBVIOUS
<1>2. h \in Seq(Int) /\ Len(h) = p.size
  BY <1>1, HeldSeq
<1>3. h = << >> <=> Len(h) = 0
  BY <1>2, EmptySeq
<1> QED BY <1>1, <1>2, <1>3
LEMMA EmptyRight ==
    \A a \in Seq(Int) : a \o << >> = a
  BY ConcatEmptySeq

\* squish-unix meets the end of the connection.
LEMMA EndUnixOutputKeeps ==
    ASSUME RelayAssumption, SqInv(sq), EndUnix(2)
    PROVE  SqInv(sq')
<1>1. sq \in SqRecords /\ PipeInv(sq.pipes[1]) /\ PipeInv(sq.pipes[2])
  BY SqTypes
<1>2. PICK h, d : h = Held(sq.pipes[2]) /\ d = sq.dropped \o h
  OBVIOUS
<1>3. h \in Seq(Int) /\ sq.dropped \in Seq(Int)
  BY <1>2, SqTypes
<1>4. d \in Seq(Int)
  BY <1>2, <1>3, ConcatProperties
<1>5. d = << >> => sq.dropped = << >> /\ sq.pipes[2].size = 0
  BY <1>1, <1>2, <1>3, EmptyParts, EmptyHeld
<1>6. PICK t : t = [sq EXCEPT !.pc = "accept", !.dropped = d]
  OBVIOUS
<1>7. /\ t.pc = "accept" /\ t.dropped = d
      /\ t.kind = sq.kind /\ t.pipes = sq.pipes /\ t.stdin = sq.stdin /\ t.wire = sq.wire
      /\ t.stdout = sq.stdout /\ t.keyed = sq.keyed /\ t.typed = sq.typed /\ t.written = sq.written
      /\ t.alive = sq.alive /\ t.connected = sq.connected /\ t.died = sq.died /\ t.signalled = sq.signalled
      /\ t.result = sq.result
      /\ t = [kind |-> t.kind, pipes |-> t.pipes, pc |-> t.pc, stdin |-> t.stdin, wire |-> t.wire, stdout |-> t.stdout,
                keyed |-> t.keyed, dropped |-> t.dropped, typed |-> t.typed, written |-> t.written, alive |-> t.alive,
                connected |-> t.connected, died |-> t.died, signalled |-> t.signalled, result |-> t.result]
  BY <1>1, <1>6 DEF SqRecords
<1>8. t \in SqRecords
  BY <1>1, <1>4, <1>7 DEF SqRecords
<1>9. sq.kind = "unix"
  BY DEF EndUnix
<1>10. OutputInv(t) /\ InputInv(t)
  BY <1>5, <1>7, <1>9 DEF SqInv, OutputInv, InputInv, Output
<1>11. ChildInv(t)
  BY <1>7 DEF SqInv, ChildInv
<1>12. EndInv(t)
  BY <1>5, <1>7, <1>9 DEF SqInv, EndInv, UnixInv
<1>13. [sq EXCEPT !.pc = "accept", !.dropped = @ \o Held(sq.pipes[2])] = t
  BY <1>1, <1>2, <1>6 DEF SqRecords
<1>14. sq' = t
  <2>1. (2 = 1) = FALSE
    OBVIOUS
  <2> QED BY <1>13, <2>1, Zenon DEF EndUnix
<1> QED BY <1>1, <1>7, <1>8, <1>10, <1>11, <1>12, <1>14 DEF SqInv

\* The final relaying writes what the buffer holds.
LEMMA FinalWriteKeeps ==
    ASSUME RelayAssumption, SqInv(sq), Final, sq.pipes[2].size > 0
    PROVE  SqInv(sq')
<1>1. /\ sq \in SqRecords /\ sq.pipes \in [1 .. 2 -> PipeRecords] /\ PipeInv(sq.pipes[1]) /\ PipeInv(sq.pipes[2])
      /\ sq.stdout \in Seq(Int) /\ sq.wire \in Seq(Int) /\ Held(sq.pipes[2]) \in Seq(Int)
  BY SqTypes
<1>2. PICK p, h, o : p = sq.pipes[2] /\ h = Held(p) /\ o = sq.stdout \o h
  OBVIOUS
<1>3. PICK q, new : q = [p EXCEPT !.size = 0, !.ofs = 0] /\ new = [sq.pipes EXCEPT ![2] = q]
  OBVIOUS
<1>4. q \in PipeRecords /\ q.size = 0 /\ q.ofs = 0 /\ q.in = p.in
  BY <1>1, <1>2, <1>3 DEF PipeInv, PipeRecords
<1>5. PipeInv(q)
  BY <1>4 DEF PipeInv, RelayAssumption
<1>6. Held(q) = << >>
  BY <1>4, <1>5, EmptyHeld
<1>7. /\ new \in [1 .. 2 -> PipeRecords] /\ \A j \in {1, 2} : PipeInv(new[j])
      /\ new[2] = q /\ new[1] = sq.pipes[1]
  BY <1>1, <1>3, <1>5, PipeReplaced
<1>8. o \in Seq(Int)
  BY <1>1, <1>2, ConcatProperties
<1>9. PICK t : t = [sq EXCEPT !.stdout = o, !.pipes = new]
  OBVIOUS
<1>10. /\ t.pipes = new /\ t.stdout = o
       /\ t.kind = sq.kind /\ t.pc = sq.pc /\ t.stdin = sq.stdin /\ t.wire = sq.wire
       /\ t.keyed = sq.keyed /\ t.dropped = sq.dropped /\ t.typed = sq.typed /\ t.written = sq.written
       /\ t.alive = sq.alive /\ t.connected = sq.connected /\ t.died = sq.died /\ t.signalled = sq.signalled
       /\ t.result = sq.result
       /\ t = [kind |-> t.kind, pipes |-> t.pipes, pc |-> t.pc, stdin |-> t.stdin, wire |-> t.wire, stdout |-> t.stdout,
                keyed |-> t.keyed, dropped |-> t.dropped, typed |-> t.typed, written |-> t.written, alive |-> t.alive,
                connected |-> t.connected, died |-> t.died, signalled |-> t.signalled, result |-> t.result]
  BY <1>1, <1>9 DEF SqRecords
<1>11. t \in SqRecords
  BY <1>1, <1>7, <1>8, <1>10 DEF SqRecords
<1>12. Output(t) = Output(sq)
  <2>1. o \o << >> = o
    BY <1>8, EmptyRight
  <2> QED BY <1>2, <1>6, <1>7, <1>10, <2>1 DEF Output
<1>13. OutputInv(t) /\ InputInv(t)
  <2>1. OutputInv(t)
    BY <1>10, <1>12 DEF SqInv, OutputInv
  <2> QED BY <1>7, <1>10, <2>1 DEF SqInv, InputInv
<1>14. ChildInv(t)
  BY <1>10 DEF Final, SqInv, ChildInv
<1>15. EndInv(t)
  BY <1>2, <1>4, <1>7, <1>10 DEF Final, SqInv, EndInv, PtyInv, UnixInv, Ended
<1>16. [sq EXCEPT !.stdout = @ \o Held(p), !.pipes[2].size = 0, !.pipes[2].ofs = 0] = t
  <2>1. PICK r, half : r = [p EXCEPT !.size = 0] /\ half = [sq.pipes EXCEPT ![2] = r]
    OBVIOUS
  <2>2. p \in PipeRecords
    BY <1>1, <1>2 DEF PipeInv
  <2>3. half[2] = r
    BY <1>1, <2>1
  <2>4. q = [r EXCEPT !.ofs = 0]
    BY <1>3, <2>1, <2>2 DEF PipeRecords
  <2>5. new = [half EXCEPT ![2] = q]
    BY <1>1, <1>3, <2>1
  <2>6. new = [half EXCEPT ![2].ofs = 0]
    BY <2>3, <2>4, <2>5, Zenon
  <2>7. half = [sq.pipes EXCEPT ![2].size = 0]
    BY <1>2, <2>1, Zenon
  <2>8. PICK u : u = [[sq EXCEPT !.stdout = o] EXCEPT !.pipes = half]
    OBVIOUS
  <2>9. u.pipes = half /\ t = [u EXCEPT !.pipes = new]
    BY <1>1, <1>9, <2>8 DEF SqRecords
  <2>10. t = [u EXCEPT !.pipes[2].ofs = 0]
    BY <2>6, <2>9, Zenon
  <2>11. PICK v : v = [sq EXCEPT !.stdout = o]
    OBVIOUS
  <2>12. v.pipes = sq.pipes /\ u = [v EXCEPT !.pipes = half]
    BY <1>1, <2>8, <2>11 DEF SqRecords
  <2>13. u = [v EXCEPT !.pipes[2].size = 0]
    BY <2>7, <2>12, Zenon
  <2>14. v = [sq EXCEPT !.stdout = @ \o Held(p)]
    BY <1>2, <2>11, Zenon
  <2> QED BY <2>10, <2>13, <2>14, Zenon
<1>17. sq' = t
  BY <1>2, <1>16, Zenon DEF Final
<1> QED BY <1>7, <1>10, <1>11, <1>13, <1>14, <1>15, <1>17 DEF SqInv

\* The final relaying reads on.
LEMMA FinalReadKeeps ==
    ASSUME RelayAssumption, SqInv(sq), Final, ~ sq.pipes[2].size > 0, sq.pipes[2].in, sq.wire # << >>
    PROVE  SqInv(sq')
<1>1. /\ sq \in SqRecords /\ sq.pipes \in [1 .. 2 -> PipeRecords] /\ PipeInv(sq.pipes[1]) /\ PipeInv(sq.pipes[2])
      /\ sq.stdout \in Seq(Int) /\ sq.wire \in Seq(Int) /\ Held(sq.pipes[2]) \in Seq(Int)
  BY SqTypes
<1>2. PICK p, source, n : p = sq.pipes[2] /\ source = sq.wire /\ n = Min2(Len(source), BUFSIZ)
  OBVIOUS
<1>3. PICK z, a, b : /\ z = [p EXCEPT !.ofs = 0]
                     /\ a = SubSeq(source, 1, n) /\ b = SubSeq(source, n + 1, Len(source))
  OBVIOUS
<1>4. PICK q, new : q = Fill(z, a) /\ new = [sq.pipes EXCEPT ![2] = q]
  OBVIOUS
<1>5. z \in PipeRecords /\ z.size = p.size /\ z.ofs = 0 /\ z.in = p.in /\ p.size = 0
  <2>1. p \in PipeRecords /\ ~ p.size > 0
    BY <1>1, <1>2 DEF PipeInv
  <2>2. p.size = 0
    BY <2>1 DEF PipeRecords
  <2>3. z \in PipeRecords /\ z.size = p.size /\ z.ofs = 0 /\ z.in = p.in
    BY <1>3, <2>1 DEF PipeRecords
  <2> QED BY <2>2, <2>3
<1>6. PipeInv(z) /\ Room(z) = BUFSIZ
  BY <1>5 DEF PipeInv, Room, RelayAssumption
<1>7. Held(z) = << >> /\ Held(p) = << >>
  BY <1>1, <1>2, <1>5, <1>6, EmptyHeld
<1>8. a \in Seq(Int) /\ b \in Seq(Int) /\ a \o b = source /\ Len(a) <= BUFSIZ
  <2>1. Len(source) \in Nat /\ source \in Seq(Int)
    BY <1>1, <1>2, LenProperties
  <2>2. n \in 0 .. Len(source) /\ n <= BUFSIZ
    BY <1>2, <2>1 DEF Min2, RelayAssumption
  <2>3. \E x, y \in Seq(Int) : /\ x = SubSeq(source, 1, n) /\ y = SubSeq(source, n + 1, Len(source))
                               /\ Len(x) = n /\ Len(y) = Len(source) - n /\ x \o y = source
    BY <2>1, <2>2, Split, Zenon
  <2> QED BY <1>3, <2>2, <2>3
<1>9. PipeInv(q) /\ q.in = p.in /\ Held(q) = Held(z) \o a
  BY <1>4, <1>5, <1>6, <1>8, FillHolds
<1>10. /\ new \in [1 .. 2 -> PipeRecords] /\ \A j \in {1, 2} : PipeInv(new[j])
       /\ new[2] = q /\ new[1] = sq.pipes[1]
  BY <1>1, <1>4, <1>9, PipeReplaced
<1>11. PICK t : t = [sq EXCEPT !.pipes = new, !.wire = b]
  OBVIOUS
<1>12. /\ t.pipes = new /\ t.wire = b
       /\ t.kind = sq.kind /\ t.pc = sq.pc /\ t.stdin = sq.stdin /\ t.stdout = sq.stdout
       /\ t.keyed = sq.keyed /\ t.dropped = sq.dropped /\ t.typed = sq.typed /\ t.written = sq.written
       /\ t.alive = sq.alive /\ t.connected = sq.connected /\ t.died = sq.died /\ t.signalled = sq.signalled
       /\ t.result = sq.result
       /\ t = [kind |-> t.kind, pipes |-> t.pipes, pc |-> t.pc, stdin |-> t.stdin, wire |-> t.wire, stdout |-> t.stdout,
                keyed |-> t.keyed, dropped |-> t.dropped, typed |-> t.typed, written |-> t.written, alive |-> t.alive,
                connected |-> t.connected, died |-> t.died, signalled |-> t.signalled, result |-> t.result]
  BY <1>1, <1>11 DEF SqRecords
<1>13. t \in SqRecords
  BY <1>1, <1>8, <1>10, <1>12 DEF SqRecords
<1>14. Output(t) = Output(sq)
  <2>1. PICK o, h : o = sq.stdout /\ h = Held(z)
    OBVIOUS
  <2>2. o \in Seq(Int) /\ h \in Seq(Int) /\ a \in Seq(Int) /\ b \in Seq(Int)
    BY <1>1, <1>6, <1>8, <2>1, HeldSeq
  <2>3. ShiftIn(o, h, a, b)
    BY <2>2, MovedIn, Zenon
  <2>4. sq.stdout \o (Held(z) \o a) \o b = sq.stdout \o Held(z) \o (a \o b)
    BY <2>1, <2>3, Zenon DEF ShiftIn
  <2> QED BY <1>2, <1>7, <1>8, <1>9, <1>10, <1>12, <2>4 DEF Output
<1>15. OutputInv(t) /\ InputInv(t)
  <2>1. OutputInv(t)
    BY <1>12, <1>14 DEF SqInv, OutputInv
  <2> QED BY <1>10, <1>12, <2>1 DEF SqInv, InputInv
<1>16. ChildInv(t)
  BY <1>12 DEF Final, SqInv, ChildInv
<1>17. new[2].in
  BY <1>2, <1>9, <1>10
<1>18. EndInv(t)
  BY <1>12, <1>17 DEF Final, SqInv, EndInv, PtyInv, UnixInv, Ended
<1>19. [sq EXCEPT !.pipes[2] = q, !.wire = SubSeq(@, n + 1, Len(@))] = t
  BY <1>1, <1>2, <1>3, <1>4, <1>11 DEF SqRecords
<1>20. sq' = t
  BY <1>2, <1>3, <1>4, <1>19, Zenon DEF Final
<1> QED BY <1>10, <1>12, <1>13, <1>15, <1>16, <1>18, <1>20 DEF SqInv

\* The final relaying ends.
LEMMA FinalEndKeeps ==
    ASSUME RelayAssumption, SqInv(sq), Final, ~ sq.pipes[2].size > 0, ~ (sq.pipes[2].in /\ sq.wire # << >>)
    PROVE  SqInv(sq')
<1>1. sq \in SqRecords
  BY SqTypes
<1>2. PICK t : t = [sq EXCEPT !.pc = "done"]
  OBVIOUS
<1>3. /\ t.pc = "done"
      /\ t.kind = sq.kind /\ t.pipes = sq.pipes /\ t.stdin = sq.stdin /\ t.wire = sq.wire
      /\ t.stdout = sq.stdout /\ t.keyed = sq.keyed /\ t.dropped = sq.dropped /\ t.typed = sq.typed
      /\ t.written = sq.written /\ t.alive = sq.alive /\ t.connected = sq.connected /\ t.died = sq.died
      /\ t.signalled = sq.signalled /\ t.result = sq.result
      /\ t = [kind |-> t.kind, pipes |-> t.pipes, pc |-> t.pc, stdin |-> t.stdin, wire |-> t.wire, stdout |-> t.stdout,
                keyed |-> t.keyed, dropped |-> t.dropped, typed |-> t.typed, written |-> t.written, alive |-> t.alive,
                connected |-> t.connected, died |-> t.died, signalled |-> t.signalled, result |-> t.result]
  BY <1>1, <1>2 DEF SqRecords
<1>4. t \in SqRecords
  BY <1>1, <1>3 DEF SqRecords
<1>5. (\A i \in {1, 2} : PipeInv(t.pipes[i])) /\ OutputInv(t) /\ InputInv(t)
  BY <1>3, <1>4, DataKept DEF SameData
<1>6. sq.pipes[2].size = 0
  <2>1. PipeInv(sq.pipes[2])
    BY SqTypes
  <2> QED BY <2>1 DEF PipeInv, PipeRecords
<1>7. ChildInv(t)
  BY <1>3 DEF Final, SqInv, ChildInv
<1>8. EndInv(t)
  BY <1>1, <1>3, <1>6 DEF Final, SqInv, ChildInv, EndInv, PtyInv, UnixInv, Ended, SqRecords
<1>9. sq' = t
  BY <1>2, Zenon DEF Final
<1> QED BY <1>4, <1>5, <1>7, <1>8, <1>9 DEF SqInv

\* squish-unix learns of the child's death between connections.
LEMMA NoMoreKeeps ==
    ASSUME RelayAssumption, SqInv(sq), sq.pc = "accept",
           sq' = [sq EXCEPT !.pc = "done"]
    PROVE  SqInv(sq')
<1>1. sq \in SqRecords
  BY SqTypes
<1>2. PICK t : t = [sq EXCEPT !.pc = "done"]
  OBVIOUS
<1>3. /\ t.pc = "done"
      /\ t.kind = sq.kind /\ t.pipes = sq.pipes /\ t.stdin = sq.stdin /\ t.wire = sq.wire
      /\ t.stdout = sq.stdout /\ t.keyed = sq.keyed /\ t.dropped = sq.dropped /\ t.typed = sq.typed
      /\ t.written = sq.written /\ t.alive = sq.alive /\ t.connected = sq.connected /\ t.died = sq.died
      /\ t.signalled = sq.signalled /\ t.result = sq.result
      /\ t = [kind |-> t.kind, pipes |-> t.pipes, pc |-> t.pc, stdin |-> t.stdin, wire |-> t.wire, stdout |-> t.stdout,
                keyed |-> t.keyed, dropped |-> t.dropped, typed |-> t.typed, written |-> t.written, alive |-> t.alive,
                connected |-> t.connected, died |-> t.died, signalled |-> t.signalled, result |-> t.result]
  BY <1>1, <1>2 DEF SqRecords
<1>4. t \in SqRecords
  BY <1>1, <1>3 DEF SqRecords
<1>5. (\A i \in {1, 2} : PipeInv(t.pipes[i])) /\ OutputInv(t) /\ InputInv(t)
  BY <1>3, <1>4, DataKept DEF SameData
<1>6. ChildInv(t)
  BY <1>3 DEF SqInv, ChildInv
<1>7. EndInv(t)
  BY <1>1, <1>3 DEF SqInv, ChildInv, EndInv, PtyInv, UnixInv, Ended, SqRecords
<1>8. sq' = t
  BY <1>2
<1> QED BY <1>4, <1>5, <1>6, <1>7, <1>8 DEF SqInv

\* squish-unix accepts a connection.
LEMMA NewConnectionKeeps ==
    ASSUME RelayAssumption, SqInv(sq), sq.pc = "accept",
           sq' = [sq EXCEPT !.pc = "loop", !.pipes = <<Pipe, Pipe>>]
    PROVE  SqInv(sq')
<1>1. /\ sq \in SqRecords /\ PipeInv(sq.pipes[2])
      /\ sq.stdout \in Seq(Int) /\ sq.wire \in Seq(Int) /\ Held(sq.pipes[2]) \in Seq(Int) /\ sq.written \in Nat
  BY SqTypes
<1>2. PICK p, new : p = Pipe /\ new = <<p, p>>
  OBVIOUS
<1>3. p \in PipeRecords /\ p.size = 0 /\ p.ofs = 0 /\ p.in
  BY <1>2 DEF Pipe, PipeRecords, RelayAssumption
<1>4. PipeInv(p)
  BY <1>3 DEF PipeInv, RelayAssumption
<1>5. new \in [1 .. 2 -> PipeRecords] /\ new[1] = p /\ new[2] = p
  BY <1>2, <1>3
<1>6. Held(p) = << >>
  BY <1>3, <1>4, EmptyHeld
<1>7. PICK t : t = [sq EXCEPT !.pc = "loop", !.pipes = new]
  OBVIOUS
<1>8. /\ t.pipes = new /\ t.pc = "loop"
      /\ t.kind = sq.kind /\ t.stdin = sq.stdin /\ t.wire = sq.wire /\ t.stdout = sq.stdout
      /\ t.keyed = sq.keyed /\ t.dropped = sq.dropped /\ t.typed = sq.typed /\ t.written = sq.written
      /\ t.alive = sq.alive /\ t.connected = sq.connected /\ t.died = sq.died /\ t.signalled = sq.signalled
      /\ t.result = sq.result
      /\ t = [kind |-> t.kind, pipes |-> t.pipes, pc |-> t.pc, stdin |-> t.stdin, wire |-> t.wire, stdout |-> t.stdout,
                keyed |-> t.keyed, dropped |-> t.dropped, typed |-> t.typed, written |-> t.written, alive |-> t.alive,
                connected |-> t.connected, died |-> t.died, signalled |-> t.signalled, result |-> t.result]
  BY <1>1, <1>7 DEF SqRecords
<1>9. t \in SqRecords
  BY <1>1, <1>5, <1>8 DEF SqRecords
<1>10. sq.kind = "unix"
  BY <1>1 DEF SqInv, EndInv, PtyInv, SqRecords
<1>11. OutputInv(t) /\ InputInv(t)
  <2>1. PICK o, h, w : o = sq.stdout /\ h = Held(sq.pipes[2]) /\ w = sq.wire
    OBVIOUS
  <2>2. o \in Seq(Int) /\ h \in Seq(Int) /\ w \in Seq(Int)
    BY <1>1, <2>1
  <2>3. Output(sq) = o \o h \o w
    BY <2>1 DEF Output
  <2>4. Output(t) = o \o w
    <3>1. o \o << >> = o
      BY <2>2, EmptyRight
    <3> QED BY <1>5, <1>6, <1>8, <2>1, <3>1 DEF Output
  <2>5. Rising(Output(t), t.written)
    <3>1. PICK m : m = sq.written
      OBVIOUS
    <3>2. m \in Nat /\ Rising(o \o h \o w, m)
      BY <1>1, <2>3, <3>1 DEF SqInv, OutputInv
    <3>3. Rising(o \o w, m)
      BY <2>2, <3>2, RisingWithout
    <3> QED BY <1>8, <2>4, <3>1, <3>3
  <2>6. t.dropped = << >> => Output(t) = Bytes(1, t.written)
    <3>1. sq.dropped = << >> => h = << >>
      BY <1>1, <1>10, <2>1, EmptyHeld DEF SqInv, EndInv, UnixInv
    <3>2. sq.dropped = << >> => Output(sq) = Bytes(1, sq.written)
      BY DEF SqInv, OutputInv
    <3>3. o \o << >> = o
      BY <2>2, EmptyRight
    <3> QED BY <1>8, <2>3, <2>4, <3>1, <3>2, <3>3
  <2> QED BY <1>8, <1>10, <2>5, <2>6 DEF OutputInv, InputInv
<1>12. ChildInv(t)
  BY <1>8 DEF SqInv, ChildInv
<1>13. EndInv(t)
  BY <1>3, <1>5, <1>8, <1>10 DEF EndInv, UnixInv
<1>14. \A i \in {1, 2} : PipeInv(t.pipes[i])
  BY <1>4, <1>5, <1>8
<1>15. sq' = t
  BY <1>2, <1>7
<1> QED BY <1>9, <1>11, <1>12, <1>13, <1>14, <1>15 DEF SqInv

\* The child writes a byte.
LEMMA ChildWritesKeeps ==
    ASSUME RelayAssumption, SqInv(sq), ChildWrites
    PROVE  SqInv(sq')
<1>1. /\ sq \in SqRecords /\ sq.stdout \in Seq(Int) /\ sq.wire \in Seq(Int) /\ Held(sq.pipes[2]) \in Seq(Int)
      /\ sq.written \in Nat /\ sq.connected
  BY SqTypes DEF ChildWrites
<1>2. PICK n, w, b : n = sq.written /\ w = sq.wire /\ b = Append(w, n + 1)
  OBVIOUS
<1>3. PICK m : m = n + 1
  OBVIOUS
<1>4. n \in Nat /\ m \in Nat /\ w \in Seq(Int) /\ b \in Seq(Int)
  BY <1>1, <1>2, <1>3, AppendProperties
<1>5. PICK t : t = [sq EXCEPT !.written = m, !.wire = b]
  OBVIOUS
<1>6. /\ t.wire = b /\ t.written = m
      /\ t.kind = sq.kind /\ t.pipes = sq.pipes /\ t.pc = sq.pc /\ t.stdin = sq.stdin
      /\ t.stdout = sq.stdout /\ t.keyed = sq.keyed /\ t.dropped = sq.dropped /\ t.typed = sq.typed
      /\ t.alive = sq.alive /\ t.connected = sq.connected /\ t.died = sq.died /\ t.signalled = sq.signalled
      /\ t.result = sq.result
      /\ t = [kind |-> t.kind, pipes |-> t.pipes, pc |-> t.pc, stdin |-> t.stdin, wire |-> t.wire, stdout |-> t.stdout,
                keyed |-> t.keyed, dropped |-> t.dropped, typed |-> t.typed, written |-> t.written, alive |-> t.alive,
                connected |-> t.connected, died |-> t.died, signalled |-> t.signalled, result |-> t.result]
  BY <1>1, <1>5 DEF SqRecords
<1>7. t \in SqRecords
  BY <1>1, <1>4, <1>6 DEF SqRecords
<1>8. OutputInv(t) /\ InputInv(t)
  <2>1. PICK o, h, all : o = sq.stdout /\ h = Held(sq.pipes[2]) /\ all = o \o h \o w
    OBVIOUS
  <2>2. o \in Seq(Int) /\ h \in Seq(Int) /\ w \in Seq(Int) /\ m \in Int
    BY <1>1, <1>4, <2>1
  <2>3. ShiftEnd(o, h, w, m)
    BY <2>2, Added, Zenon
  <2>4. Output(sq) = all
    BY <1>2, <2>1 DEF Output
  <2>5. Output(t) = Append(all, m)
    BY <1>2, <1>3, <1>6, <2>1, <2>3 DEF Output, ShiftEnd
  <2>6. all \in Seq(Int)
    BY <2>1, <2>2, ConcatProperties
  <2>7. Rising(all, n)
    BY <1>2, <2>4 DEF SqInv, OutputInv
  <2>8. Rising(Append(all, m), m)
    BY <1>3, <1>4, <2>6, <2>7, RisingGrows
  <2>9. all = Bytes(1, n) => Append(all, m) = Bytes(1, m)
    BY <1>3, <1>4, BytesGrow
  <2>10. OutputInv(t)
    BY <1>2, <1>6, <2>4, <2>5, <2>8, <2>9 DEF SqInv, OutputInv
  <2> QED BY <1>6, <2>10 DEF SqInv, InputInv
<1>9. ChildInv(t)
  BY <1>1, <1>6 DEF SqInv, ChildInv
<1>10. EndInv(t)
  BY <1>1, <1>6 DEF SqInv, EndInv, PtyInv, UnixInv, Ended
<1>11. [sq EXCEPT !.written = @ + 1, !.wire = Append(@, sq.written + 1)] = t
  BY <1>1, <1>2, <1>3, <1>5 DEF SqRecords
<1>12. sq' = t
  BY <1>11, Zenon DEF ChildWrites
<1>13. \A i \in {1, 2} : PipeInv(t.pipes[i])
  BY <1>6 DEF SqInv
<1> QED BY <1>7, <1>8, <1>9, <1>10, <1>12, <1>13 DEF SqInv

\* A byte is typed.
LEMMA TypesKeeps ==
    ASSUME RelayAssumption, SqInv(sq), Types
    PROVE  SqInv(sq')
<1>1. /\ sq \in SqRecords /\ sq.keyed \in Seq(Int) /\ sq.stdin \in Seq(Int) /\ Held(sq.pipes[1]) \in Seq(Int)
      /\ sq.typed \in Nat
  BY SqTypes
<1>2. PICK n, w, b : n = sq.typed /\ w = sq.stdin /\ b = Append(w, n + 1)
  OBVIOUS
<1>3. PICK m : m = n + 1
  OBVIOUS
<1>4. n \in Nat /\ m \in Nat /\ w \in Seq(Int) /\ b \in Seq(Int)
  BY <1>1, <1>2, <1>3, AppendProperties
<1>5. PICK t : t = [sq EXCEPT !.typed = m, !.stdin = b]
  OBVIOUS
<1>6. /\ t.stdin = b /\ t.typed = m
      /\ t.kind = sq.kind /\ t.pipes = sq.pipes /\ t.pc = sq.pc /\ t.wire = sq.wire
      /\ t.stdout = sq.stdout /\ t.keyed = sq.keyed /\ t.dropped = sq.dropped /\ t.written = sq.written
      /\ t.alive = sq.alive /\ t.connected = sq.connected /\ t.died = sq.died /\ t.signalled = sq.signalled
      /\ t.result = sq.result
      /\ t = [kind |-> t.kind, pipes |-> t.pipes, pc |-> t.pc, stdin |-> t.stdin, wire |-> t.wire, stdout |-> t.stdout,
                keyed |-> t.keyed, dropped |-> t.dropped, typed |-> t.typed, written |-> t.written, alive |-> t.alive,
                connected |-> t.connected, died |-> t.died, signalled |-> t.signalled, result |-> t.result]
  BY <1>1, <1>5 DEF SqRecords
<1>7. t \in SqRecords
  BY <1>1, <1>4, <1>6 DEF SqRecords
<1>8. InputInv(t)
  <2>1. PICK o, h, all : o = sq.keyed /\ h = Held(sq.pipes[1]) /\ all = o \o h \o w
    OBVIOUS
  <2>2. o \in Seq(Int) /\ h \in Seq(Int) /\ w \in Seq(Int) /\ m \in Int
    BY <1>1, <1>4, <2>1
  <2>3. ShiftEnd(o, h, w, m)
    BY <2>2, Added, Zenon
  <2>4. t.keyed \o Held(t.pipes[1]) \o t.stdin = Append(all, m)
    BY <1>2, <1>3, <1>6, <2>1, <2>3 DEF ShiftEnd
  <2>5. all = Bytes(1, n) => Append(all, m) = Bytes(1, m)
    BY <1>3, <1>4, BytesGrow
  <2>6. sq.kind = "pty" => all = Bytes(1, n)
    BY <1>2, <2>1 DEF SqInv, InputInv
  <2> QED BY <1>6, <2>4, <2>5, <2>6 DEF InputInv
<1>9. OutputInv(t)
  BY <1>6 DEF SqInv, OutputInv, Output
<1>10. ChildInv(t)
  BY <1>6 DEF SqInv, ChildInv
<1>11. EndInv(t)
  BY <1>6 DEF SqInv, EndInv, PtyInv, UnixInv, Ended
<1>12. [sq EXCEPT !.typed = @ + 1, !.stdin = Append(@, sq.typed + 1)] = t
  BY <1>1, <1>2, <1>3, <1>5 DEF SqRecords
<1>13. sq' = t
  BY <1>12, Zenon DEF Types
<1>14. \A i \in {1, 2} : PipeInv(t.pipes[i])
  BY <1>6 DEF SqInv
<1> QED BY <1>7, <1>8, <1>9, <1>10, <1>11, <1>13, <1>14 DEF SqInv

LEMMA FinalKeeps ==
    ASSUME RelayAssumption, SqInv(sq), Final
    PROVE  SqInv(sq')
<1>1. CASE sq.pipes[2].size > 0
  BY <1>1, FinalWriteKeeps
<1>2. CASE ~ sq.pipes[2].size > 0 /\ sq.pipes[2].in /\ sq.wire # << >>
  BY <1>2, FinalReadKeeps
<1>3. CASE ~ sq.pipes[2].size > 0 /\ ~ (sq.pipes[2].in /\ sq.wire # << >>)
  BY <1>3, FinalEndKeeps
<1> QED BY <1>1, <1>2, <1>3
LEMMA AcceptKeeps ==
    ASSUME RelayAssumption, SqInv(sq), Accept
    PROVE  SqInv(sq')
<1>1. CASE sq' = [sq EXCEPT !.pc = "done"]
  BY <1>1, NoMoreKeeps DEF Accept
<1>2. CASE sq' = [sq EXCEPT !.pc = "loop", !.pipes = <<Pipe, Pipe>>]
  BY <1>2, NewConnectionKeeps DEF Accept
<1> QED BY <1>1, <1>2 DEF Accept

\* The relay starts with nothing anywhere.
LEMMA RelayStarts ==
    ASSUME RelayAssumption, NEW kind \in {"pty", "unix"}, NEW s, s = RelayStart(kind)
    PROVE  SqInv(s)
<1>1. PICK p, new : p = Pipe /\ new = <<p, p>>
  OBVIOUS
<1>2. p \in PipeRecords /\ p.size = 0 /\ p.ofs = 0 /\ p.in
  BY <1>1 DEF Pipe, PipeRecords, RelayAssumption
<1>3. PipeInv(p)
  BY <1>2 DEF PipeInv, RelayAssumption
<1>4. new \in [1 .. 2 -> PipeRecords] /\ new[1] = p /\ new[2] = p
  BY <1>1, <1>2
<1>5. Held(p) = << >>
  BY <1>2, <1>3, EmptyHeld
<1>6. /\ s = [kind |-> kind, pipes |-> new, pc |-> "setup", stdin |-> << >>, wire |-> << >>, stdout |-> << >>,
              keyed |-> << >>, dropped |-> << >>, typed |-> 0, written |-> 0, alive |-> FALSE, connected |-> FALSE,
              died |-> "no", signalled |-> FALSE, result |-> "none"]
  BY <1>1 DEF RelayStart
<1>7. s \in SqRecords
  BY <1>4, <1>6 DEF SqRecords
<1>8. /\ s.kind = kind /\ s.pipes = new /\ s.pc = "setup" /\ s.stdin = << >> /\ s.wire = << >>
      /\ s.stdout = << >> /\ s.keyed = << >> /\ s.dropped = << >> /\ s.typed = 0 /\ s.written = 0
      /\ s.alive = FALSE /\ s.connected = FALSE /\ s.died = "no" /\ s.signalled = FALSE /\ s.result = "none"
  BY <1>6
<1>9. Bytes(1, 0) = << >> /\ << >> \o << >> = << >>
  <2>1. PICK b : b = Bytes(1, 0)
    OBVIOUS
  <2>2. b \in Seq(Int) /\ Len(b) = 0
    BY <2>1, BytesSeq
  <2>3. << >> \in Seq(Int)
    OBVIOUS
  <2> QED BY <2>1, <2>2, <2>3, EmptySeq, EmptyRight
<1>10. Output(s) = << >>
  BY <1>4, <1>5, <1>8, <1>9 DEF Output
<1>11. Rising(<< >>, 0)
  BY DEF Rising
<1>12. OutputInv(s) /\ InputInv(s)
  BY <1>4, <1>5, <1>8, <1>9, <1>10, <1>11 DEF OutputInv, InputInv
<1>13. ChildInv(s) /\ EndInv(s)
  BY <1>2, <1>4, <1>8 DEF ChildInv, EndInv, PtyInv, UnixInv, Ended
<1> QED BY <1>3, <1>4, <1>7, <1>8, <1>12, <1>13 DEF SqInv

\* Every step keeps the invariant.
LEMMA RelayStep ==
    RelayAssumption /\ SqInv(sq) /\ [RelayNext]_sq => SqInv(sq')
<1> SUFFICES ASSUME RelayAssumption, SqInv(sq), [RelayNext]_sq PROVE SqInv(sq')
  OBVIOUS
<1>1. CASE Read(1) \/ Write(1) \/ EndPty(1) \/ EndUnix(1)
  BY <1>1, ReadInputKeeps, WriteInputKeeps, EndPtyInputKeeps, EndUnixInputKeeps
<1>2. CASE Read(2) \/ Write(2) \/ EndPty(2) \/ EndUnix(2)
  BY <1>2, ReadOutputKeeps, WriteOutputKeeps, EndPtyOutputKeeps, EndUnixOutputKeeps
<1>3. CASE WriteFails \/ ChildSeen \/ Final \/ Accept
  BY <1>3, WriteFailsKeeps, ChildSeenKeeps, FinalKeeps, AcceptKeeps
<1>4. CASE fail_io \/ BrokenPipe \/ SetupPty \/ SetupUnix \/ Exit
  BY <1>4, FailKeeps, BrokenPipeKeeps, SetupPtyKeeps, SetupUnixKeeps, ExitKeeps
<1>5. CASE ChildWrites \/ ChildDies \/ Disconnects
  BY <1>5, ChildWritesKeeps, DiesKeeps, DisconnectsKeeps
<1>6. CASE Connects \/ sigchld_handler \/ Types
  BY <1>6, ConnectsKeeps, SignalKeeps, TypesKeeps
<1>7. CASE UNCHANGED sq
  BY <1>7
<1>8. \A i \in {1, 2} : i = 1 \/ i = 2
  OBVIOUS
<1> QED BY <1>1, <1>2, <1>3, <1>4, <1>5, <1>6, <1>7, <1>8, Zenon DEF RelayNext, Relays

\* The invariant has the property.
LEMMA SqInvExact == RelayAssumption /\ SqInv(sq) => RelayExact
<1> SUFFICES ASSUME RelayAssumption, SqInv(sq) PROVE RelayExact
  OBVIOUS
<1>1. /\ sq \in SqRecords /\ PipeInv(sq.pipes[1]) /\ PipeInv(sq.pipes[2])
      /\ sq.stdout \in Seq(Int) /\ sq.wire \in Seq(Int) /\ Held(sq.pipes[2]) \in Seq(Int) /\ sq.written \in Nat
  BY SqTypes
<1>2. \A i \in {1, 2} : sq.pipes[i].ofs + sq.pipes[i].size <= BUFSIZ
  BY DEF SqInv, PipeInv
<1>3. PICK o, h, w : o = sq.stdout /\ h = Held(sq.pipes[2]) /\ w = sq.wire
  OBVIOUS
<1>4. o \in Seq(Int) /\ h \in Seq(Int) /\ w \in Seq(Int)
  BY <1>1, <1>3
<1>5. Output(sq) = o \o h \o w
  BY <1>3 DEF Output
<1>6. h = << >> /\ w = << >> => o \o h \o w = o
  BY <1>4, EmptyRight
<1>7. sq.pipes[2].size = 0 => h = << >>
  BY <1>1, <1>3, EmptyHeld
<1>8. ASSUME sq.kind = "pty"
      PROVE  /\ sq.stdout \o Held(sq.pipes[2]) \o sq.wire = Bytes(1, sq.written)
             /\ sq.keyed \o Held(sq.pipes[1]) \o sq.stdin = Bytes(1, sq.typed)
             /\ sq.pc = "exited" /\ sq.result # "failed" =>
                   /\ sq.stdout = Bytes(1, sq.written)
                   /\ sq.pipes[2].in => sq.result = sq.died
  <2>1. Output(sq) = Bytes(1, sq.written)
    BY <1>8 DEF SqInv, OutputInv
  <2>2. sq.keyed \o Held(sq.pipes[1]) \o sq.stdin = Bytes(1, sq.typed)
    BY <1>8 DEF SqInv, InputInv
  <2>3. PtyInv(sq)
    BY <1>8 DEF SqInv, EndInv
  <2>4. sq.pc = "exited" /\ sq.result # "failed" => sq.stdout = Bytes(1, sq.written)
    BY <1>3, <1>5, <1>6, <1>7, <2>1, <2>3 DEF PtyInv, Ended
  <2>5. sq.pc = "exited" /\ sq.result # "failed" /\ sq.pipes[2].in => sq.result = sq.died
    BY <2>3 DEF PtyInv, Ended
  <2> QED BY <1>3, <1>5, <2>1, <2>2, <2>4, <2>5
<1>9. ASSUME sq.kind = "unix"
      PROVE  /\ \A i, j \in DOMAIN sq.stdout : i < j => sq.stdout[i] < sq.stdout[j]
             /\ sq.dropped = << >> /\ sq.pc # "accept" =>
                   sq.stdout \o Held(sq.pipes[2]) \o sq.wire = Bytes(1, sq.written)
             /\ sq.pc = "exited" /\ sq.result \notin {"failed", "sigpipe"} =>
                   (sq.dropped = << >> /\ sq.wire = << >> => sq.stdout = Bytes(1, sq.written))
  <2>1. sq.dropped = << >> => Output(sq) = Bytes(1, sq.written)
    BY DEF SqInv, OutputInv
  <2>2. sq.pc = "exited" /\ sq.result \notin {"failed", "sigpipe"} =>
           (sq.dropped = << >> /\ sq.wire = << >> => sq.stdout = Bytes(1, sq.written))
    <3>1. UnixInv(sq)
      BY <1>9 DEF SqInv, EndInv
    <3> QED BY <1>3, <1>5, <1>6, <1>7, <2>1, <3>1 DEF UnixInv, Ended
  <2>3. Rising(o, sq.written)
    <3>1. PICK m, hw : m = sq.written /\ hw = h \o w
      OBVIOUS
    <3>2. PICK e : e = << >>
      OBVIOUS
    <3>3. hw \in Seq(Int) /\ e \in Seq(Int) /\ m \in Nat
      BY <1>1, <1>4, <3>1, <3>2, ConcatProperties
    <3>4. PICK ohw : ohw = o \o hw
      OBVIOUS
    <3>5. ohw = o \o h \o w
      BY <1>4, <3>1, <3>4, Regrouped
    <3>6. ohw \in Seq(Int)
      BY <1>4, <3>3, <3>4, ConcatProperties
    <3>7. ohw \o e = ohw /\ o \o e = o
      BY <1>4, <3>2, <3>6, EmptyRight
    <3>8. Rising(o \o hw \o e, m)
      BY <1>5, <3>1, <3>4, <3>5, <3>7 DEF SqInv, OutputInv
    <3>9. Rising(o \o e, m)
      BY <1>4, <3>3, <3>8, RisingWithout
    <3> QED BY <3>1, <3>7, <3>9
  <2>4. \A i, j \in DOMAIN sq.stdout : i < j => sq.stdout[i] < sq.stdout[j]
    BY <1>3, <2>3 DEF Rising
  <2> QED BY <1>3, <1>5, <2>1, <2>2, <2>4
<1> QED BY <1>2, <1>8, <1>9 DEF RelayExact

\* squish-pty.c, squish-unix.c: the inductive invariant of both relays.
THEOREM RelayInvariant == RelayAssumption => (RelaySpec => []SqInv(sq))
<1> SUFFICES ASSUME RelayAssumption PROVE RelaySpec => []SqInv(sq)
  OBVIOUS
<1>1. (\E kind \in {"pty", "unix"} : sq = RelayStart(kind)) => SqInv(sq)
  BY RelayStarts
<1>2. SqInv(sq) /\ [RelayNext]_sq => SqInv(sq)'
  BY RelayStep
<1> QED
  BY <1>1, <1>2, PTL DEF RelaySpec

\* squish-pty.c, squish-unix.c: what the child prints reaches standard output once and in
\* order, and all of it is there when squish-pty ends, whenever the child dies, unless one
\* of its calls fails; what squish-unix loses is what it drops when a connection ends or
\* never accepts, or holds when a call fails or SIGPIPE kills it.  For every size of the
\* buffer.
THEOREM RelayIsExact == RelayAssumption => (RelaySpec => []RelayExact)
<1> SUFFICES ASSUME RelayAssumption PROVE RelaySpec => []RelayExact
  OBVIOUS
<1>1. SqInv(sq) => RelayExact
  BY SqInvExact
<1> QED
  BY <1>1, RelayInvariant, PTL
=============================================================================
