----------------------------- MODULE Scheduler -----------------------------
(***************************************************************************)
(* The round-robin scheduler of pintos2/src/threads/thread.c: the thread   *)
(* life cycle, the ready list, the time slice and the context switch.      *)
(*                                                                         *)
(* Pintos runs on one CPU.  A stretch of code between intr_disable() and   *)
(* intr_set_level() is one step of the model; the operators of this module *)
(* are the pieces such a step is put together from, and module Synch says  *)
(* which steps there are.  A thread is identified with one incarnation of  *)
(* struct thread, so a member of Threads is created at most once.          *)
(***************************************************************************)
EXTENDS Naturals, Sequences, FiniteSets

CONSTANTS
    Threads,     \* every thread that is ever created
    Main,        \* initial_thread, turned into a thread by thread_init()
    Idle,        \* the thread that runs idle()
    NULL,        \* the null pointer
    TIME_SLICE   \* # of timer ticks to give each thread

ASSUME ThreadsAssumption ==
    /\ IsFiniteSet(Threads)
    /\ Main \in Threads /\ Idle \in Threads /\ Main # Idle
    /\ NULL \notin Threads

ASSUME TimeSliceAssumption == TIME_SLICE \in Nat \ {0}

VARIABLES
    current,      \* running_thread(); NULL once schedule() has found no thread
    status,       \* enum thread_status, or that there is no struct thread (yet)
    ready_list,   \* list of processes in THREAD_READY state
    idle_thread,  \* NULL until idle() has run
    thread_ticks  \* # of timer ticks since last yield

schedulerVars == <<current, status, ready_list, idle_thread, thread_ticks>>

\* "UNBORN" before thread_create(), "FREED" once the page was given back.
Status == {"UNBORN", "RUNNING", "READY", "BLOCKED", "DYING", "FREED"}

SchedulerTypeOK ==
    /\ current \in Threads \union {NULL}
    /\ status \in [Threads -> Status]
    /\ ready_list \in Seq(Threads)
    /\ idle_thread \in {Idle, NULL}
    /\ thread_ticks \in 0 .. TIME_SLICE - 1

\* The state in which thread_start() is about to wait for idle_started.
SchedulerInit ==
    /\ current = Main
    /\ status = [t \in Threads |-> IF t = Main THEN "RUNNING"
                                   ELSE IF t = Idle THEN "READY"
                                   ELSE "UNBORN"]
    /\ ready_list = <<Idle>>
    /\ idle_thread = NULL
    /\ thread_ticks = 0

-----------------------------------------------------------------------------
\* next_thread_to_run() with ready list rl.
NextThreadToRun(rl) == IF rl = <<>> THEN idle_thread ELSE Head(rl)

PopFront(rl) == IF rl = <<>> THEN rl ELSE Tail(rl)

\* thread_schedule_tail() in the thread NEXT just switched to, st being the
\* statuses on entry of schedule(): NEXT runs, and PREV is freed if it is dying
\* (initial_thread's page is not from palloc() and stays).
ScheduleTail(prev, next, st) ==
    [t \in Threads |-> IF t = next THEN "RUNNING"
                       ELSE IF t = prev /\ st[t] = "DYING" /\ t # Main THEN "FREED"
                       ELSE st[t]]

\* schedule(), called when the ready list is rl and the statuses are st.
Schedule(rl, st) ==
    /\ current' = NextThreadToRun(rl)
    /\ status' = ScheduleTail(current, NextThreadToRun(rl), st)
    /\ ready_list' = PopFront(rl)
    /\ thread_ticks' = 0
    /\ UNCHANGED idle_thread

\* thread_block() when an earlier part of the step left ready list rl.
ThreadBlock(rl, st) == Schedule(rl, [st EXCEPT ![current] = "BLOCKED"])

\* thread_unblock(t), as the ready list and the statuses it leaves.
UnblockedList(t, rl) == Append(rl, t)
UnblockedStatus(t, st) == [st EXCEPT ![t] = "READY"]

\* Mistakes a yield could make (mutation testing): idle queued like any other
\* thread, and list_push_front() for list_push_back().
YieldedListWithIdle == Append(ready_list, current)
YieldedListFront == IF current = idle_thread THEN ready_list
                    ELSE <<current>> \o ready_list

\* The ready list thread_yield() hands to schedule(): idle is never queued.
YieldedList == IF current = idle_thread THEN ready_list
               ELSE Append(ready_list, current)

ThreadYield == Schedule(YieldedList, [status EXCEPT ![current] = "READY"])

\* A mutant: the slice ends one tick late.
ThreadTickLate ==
    \/ /\ thread_ticks + 1 > TIME_SLICE
       /\ ThreadYield
    \/ /\ thread_ticks + 1 <= TIME_SLICE
       /\ thread_ticks' = thread_ticks + 1
       /\ UNCHANGED <<current, status, ready_list, idle_thread>>

\* thread_tick() and, at the end of the slice, the thread_yield() that
\* intr_handler() performs on return.
ThreadTick ==
    \/ /\ thread_ticks + 1 >= TIME_SLICE
       /\ ThreadYield
    \/ /\ thread_ticks + 1 < TIME_SLICE
       /\ thread_ticks' = thread_ticks + 1
       /\ UNCHANGED <<current, status, ready_list, idle_thread>>

-----------------------------------------------------------------------------
\* Every thread that is queued is queued once.
NoDuplicates(seq) == \A i, j \in DOMAIN seq : seq[i] = seq[j] => i = j

OnList(t, seq) == \E i \in DOMAIN seq : seq[i] = t
=============================================================================
