------------------------------- MODULE Alarm -------------------------------
(***************************************************************************)
(* The sleeping alarm clock of pintos/src/devices/timer.c on the priority  *)
(* scheduler of pintos/src/threads/thread.c.  timer_sleep() queues the     *)
(* caller on waiting_list, kept sorted by the tick to wake up at; the      *)
(* timer interrupt takes the threads that are due from its front.          *)
(***************************************************************************)
EXTENDS Lists

CONSTANTS
    Threads,      \* all threads, the idle thread included
    Idle,         \* idle_thread, which runs when nobody else is ready
    Main,         \* the thread that runs first
    Priority,     \* the (fixed) priority of each thread
    TIME_SLICE,
    Sleeps,       \* the arguments timer_sleep() is called with
    MaxTicks      \* bound: ticks counted, and sleeps end before it

ASSUME AlarmAssumption ==
    /\ IsFiniteSet(Threads) /\ Idle \in Threads /\ Main \in Threads \ {Idle}
    /\ Priority \in [Threads -> Nat]
    /\ TIME_SLICE \in Nat \ {0} /\ MaxTicks \in Nat
    /\ Sleeps \subseteq Int

VARIABLES
    current, status, ready_list, thread_ticks,
    ticks,          \* timer ticks since boot
    waiting_list,   \* sleeping threads, by waiting_ticks
    waiting_ticks,  \* the tick each thread wants to be woken at
    pc,             \* "run", "slept" once start = timer_ticks () is read,
                    \* and for idle "block" and "hlt"
    start, arg,     \* the local and the parameter of timer_sleep() while it runs
    panicked        \* an assertion of list.c has failed in the interrupt handler

vars == <<current, status, ready_list, thread_ticks, ticks, waiting_list,
          waiting_ticks, pc, start, arg, panicked>>

\* sort_by_priority() of thread.c.
ByPriority == [t \in Threads |-> - Priority[t]]

\* thread_unblock() of the threads in seq, each with a list_push_back() and a
\* list_sort(); the mutant does not sort.
MakeReadyUnsorted(rl, seq) == rl \o seq
MakeReady(rl, seq) == ListSort(rl \o seq, ByPriority)

\* The sequences of all elements of S.
Orders(S) == {q \in [1 .. Cardinality(S) -> S] :
                \A i, j \in 1 .. Cardinality(S) : q[i] = q[j] => i = j}

\* Before the first call: everybody but Main waits for the CPU.
Init ==
    /\ current = Main
    /\ ready_list \in {MakeReady(<<>>, q) : q \in Orders(Threads \ {Main, Idle})}
    /\ status = [t \in Threads |-> IF t = Main THEN "RUNNING"
                                   ELSE IF t = Idle THEN "BLOCKED" ELSE "READY"]
    /\ thread_ticks = 0
    /\ ticks = 0
    /\ waiting_list = <<>>
    /\ waiting_ticks = [t \in Threads |-> 0]
    /\ pc = [t \in Threads |-> IF t = Idle THEN "hlt" ELSE "run"]
    /\ start = [t \in Threads |-> 0] /\ arg = [t \in Threads |-> 0]
    /\ panicked = FALSE

-----------------------------------------------------------------------------
\* schedule() and thread_schedule_tail(), with ready list rl and statuses st.
Schedule(rl, st) ==
    LET next == IF rl = <<>> THEN Idle ELSE Head(rl) IN
    /\ current' = next
    /\ status' = [st EXCEPT ![next] = "RUNNING"]
    /\ ready_list' = IF rl = <<>> THEN rl ELSE Tail(rl)
    /\ thread_ticks' = 0

\* thread_yield() when an earlier part of the step left rl and st.
Yield(rl, st) ==
    Schedule(IF current = Idle THEN rl ELSE MakeReady(rl, <<current>>),
             [st EXCEPT ![current] = "READY"])

CallYield(t) ==
    /\ current = t /\ t # Idle /\ pc[t] = "run"
    /\ Yield(ready_list, status)
    /\ UNCHANGED <<ticks, waiting_list, waiting_ticks, pc, start, arg>>

\* timer_sleep(n): int64_t start = timer_ticks (), with interrupts on after it.
SleepStart(t, n) ==
    /\ current = t /\ t # Idle /\ pc[t] = "run"
    /\ ticks + n < MaxTicks
    /\ start' = [start EXCEPT ![t] = ticks]
    /\ arg' = [arg EXCEPT ![t] = n]
    /\ pc' = [pc EXCEPT ![t] = "slept"]
    /\ UNCHANGED <<current, status, ready_list, thread_ticks, ticks, waiting_list,
                   waiting_ticks>>

\* list_push_back() and list_sort() by sort_by_waiting_ticks(), for the deadlines
\* wt; and a mutant without the list_sort().
QueueSleeperUnsorted(t, wt) == Append(waiting_list, t)
QueueSleeper(t, wt) == ListSort(Append(waiting_list, t), wt)

\* The rest of timer_sleep(), from intr_disable () to the thread_block (); when
\* it is scheduled again it just returns.
SleepBlock(t) ==
    /\ current = t /\ pc[t] = "slept"
    /\ waiting_ticks' = [waiting_ticks EXCEPT ![t] = start[t] + arg[t]]
    /\ waiting_list' = QueueSleeper(t, waiting_ticks')
    /\ Schedule(ready_list, [status EXCEPT ![t] = "BLOCKED"])
    /\ pc' = [pc EXCEPT ![t] = "run"]
    /\ start' = [start EXCEPT ![t] = 0] /\ arg' = [arg EXCEPT ![t] = 0]
    /\ UNCHANGED ticks

\* The loop of timer_interrupt() pops k threads at tick now: the front ones that
\* are due.  (Their tid is not 0 and they are not THREAD_READY.)  With the
\* list empty the loop reads its end as a thread: the words around it in the
\* kernel's data either stop the loop, as a tid of 0 does, or not (TimerPanics).
\* The mutant tests for the very tick, which a late sleeper has missed.
DueUpToExact(k, now) ==
    /\ \A i \in 1 .. k : waiting_ticks[waiting_list[i]] = now
    /\ k < Len(waiting_list) => waiting_ticks[waiting_list[k + 1]] # now
DueUpTo(k, now) ==
    /\ \A i \in 1 .. k : waiting_ticks[waiting_list[i]] <= now
    /\ k < Len(waiting_list) => waiting_ticks[waiting_list[k + 1]] > now

\* What the list_pop_front()s leave of waiting_list.
Popped(k) == SubSeq(waiting_list, k + 1, Len(waiting_list))

\* thread_tick() and the yield on return, after the handler left rl and st.
TickWith(rl, st) ==
    \/ /\ thread_ticks + 1 >= TIME_SLICE
       /\ Yield(rl, st)
    \/ /\ thread_ticks + 1 < TIME_SLICE
       /\ thread_ticks' = thread_ticks + 1
       /\ ready_list' = rl /\ status' = st
       /\ UNCHANGED current

\* timer_interrupt(), the thread_tick() it ends with, and the thread_yield() on
\* return.  A "hlt" ends with the interrupt.
TimerInterrupt ==
    /\ ticks < MaxTicks
    /\ ticks' = ticks + 1
    /\ \E k \in 0 .. Len(waiting_list) :
          /\ DueUpTo(k, ticks + 1)
          /\ waiting_list' = Popped(k)
          /\ \E woken \in {MakeReady(ready_list, SubSeq(waiting_list, 1, k))} :
             TickWith(woken,
                      [t \in Threads |-> IF \E i \in 1 .. k : waiting_list[i] = t
                                         THEN "READY" ELSE status[t]])
    /\ pc' = IF pc[current] = "hlt" THEN [pc EXCEPT ![current] = "block"] ELSE pc
    /\ UNCHANGED <<waiting_ticks, start, arg>>

\* What lies around the end of the emptied list looks like a sleeper that is due:
\* list_pop_front() of an empty list fails its assertion.  The kernel stops, and nobody
\* sees what the handler has done before.
TimerPanics ==
    /\ ticks < MaxTicks
    /\ DueUpTo(Len(waiting_list), ticks + 1)
    /\ panicked' = TRUE
    /\ UNCHANGED <<current, status, ready_list, thread_ticks, ticks, waiting_list,
                   waiting_ticks, pc, start, arg>>

\* The model's clock has reached its bound, or the kernel has stopped.
ClockStops == (panicked \/ ticks = MaxTicks) /\ UNCHANGED vars

\* idle(): intr_disable (); thread_block ();
IdleBlock ==
    /\ current = Idle /\ pc[Idle] = "block"
    /\ Schedule(ready_list, [status EXCEPT ![Idle] = "BLOCKED"])
    /\ pc' = [pc EXCEPT ![Idle] = "hlt"]
    /\ UNCHANGED <<ticks, waiting_list, waiting_ticks, start, arg>>

\* A step of a kernel that has not stopped.
Runs ==
    \/ \E t \in Threads : \/ CallYield(t) \/ SleepBlock(t)
                          \/ \E n \in Sleeps : SleepStart(t, n)
    \/ TimerInterrupt
    \/ IdleBlock
Next ==
    \/ ~ panicked /\ Runs /\ UNCHANGED panicked
    \/ ~ panicked /\ TimerPanics
    \/ ClockStops

Spec == Init /\ [][Next]_vars

\* The timer keeps interrupting.
FairSpec == Spec /\ WF_vars(~ panicked /\ TimerInterrupt /\ UNCHANGED panicked)

-----------------------------------------------------------------------------
\* The variables keep to their types; in particular thread_ticks stays within
\* the slice that thread_tick() allows.
TypeOK ==
    /\ current \in Threads
    /\ status \in [Threads -> {"RUNNING", "READY", "BLOCKED"}]
    /\ ready_list \in Seq(Threads) /\ waiting_list \in Seq(Threads)
    /\ thread_ticks \in 0 .. TIME_SLICE - 1
    /\ ticks \in 0 .. MaxTicks
    /\ waiting_ticks \in [Threads -> Int] /\ start \in [Threads -> Nat]
    /\ arg \in [Threads -> Sleeps \union {0}]
    /\ pc \in [Threads -> {"run", "slept", "block", "hlt"}]
    /\ panicked \in BOOLEAN

\* struct thread's `elem' now also links waiting_list: a thread is on the ready
\* list when it is ready, on waiting_list when it sleeps, and never on both.
SleeperOnOneList ==
    \A t \in Threads \ {Idle} :
        /\ OnList(t, ready_list) <=> status[t] = "READY"
        /\ OnList(t, waiting_list) <=> status[t] = "BLOCKED"
        /\ Cardinality({i \in DOMAIN ready_list : ready_list[i] = t}) <= 1
        /\ Cardinality({i \in DOMAIN waiting_list : waiting_list[i] = t}) <= 1

\* next_thread_to_run(): whenever the CPU changes hands, no thread left on the
\* ready list has a higher priority than the one that gets it, whoever the timer
\* has woken in between.
HighestPriorityRuns ==
    [][current' # current /\ ready_list' # <<>> =>
          \A i \in DOMAIN ready_list' : Priority[ready_list'[i]] <= Priority[current']]_vars

\* ready_list and waiting_list, which share `elem' and are sorted by different keys,
\* through every sleep, tick and yield: TypeOK, SleeperOnOneList and
\* HighestPriorityRuns.
ListsSound == [](TypeOK /\ SleeperOnOneList) /\ HighestPriorityRuns

\* timer_interrupt(): a sleeping thread is woken in the end, if it went to sleep
\* before the model's last tick, or the kernel panics over the end of the list.
SleeperWakes ==
    \A t \in Threads :
        OnList(t, waiting_list) /\ ticks < MaxTicks ~> ~ OnList(t, waiting_list) \/ panicked

\* The alarm clock timer.c implements: every tick wakes exactly the sleepers
\* whose time has come, however late they went to sleep after computing it.
A == INSTANCE AlarmSpec WITH
        now <- ticks,
        asleep <- {t \in Threads : OnList(t, waiting_list)},
        wake_at <- waiting_ticks

\* The abstract alarm clock as a property of timer_sleep() and timer_interrupt().
ImplementsAlarm == A!ASpec
=============================================================================
