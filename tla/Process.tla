------------------------------ MODULE Process ------------------------------
(***************************************************************************)
(* Processes of pintos2/src/userprog/process.c: exec with its load         *)
(* handshake, wait, and the bookkeeping thread_exit() does in thread.c.    *)
(* A process is one incarnation of struct thread.  Interrupts are on in    *)
(* this code, so any two processes interleave between any two steps.       *)
(*                                                                         *)
(* A process's waiting_sema serves twice: the new process ups it when it   *)
(* has been loaded, and when it exits.  thread_schedule_tail() frees the   *)
(* page of a dead process, waiting_sema included, before a woken waiter    *)
(* tests the value again: palloc_free_multiple() has filled it with 0xcc,  *)
(* which is not 0, unless the page has a new use by then.                  *)
(*                                                                         *)
(* Some races make the kernel follow a null, garbage or dangling pointer.  *)
(* `wild' records the first one, and the model stops there.                *)
(***************************************************************************)
EXTENDS Integers, FiniteSets

CONSTANTS
    Procs,      \* user processes
    Main,       \* the initial thread, in run_task()
    First,      \* the process run_task() has started
    NULL,       \* the null pointer
    UNSET,      \* the parent_thread init_thread() stores, -1
    Statuses    \* what processes pass to exit(); a fatal page fault passes -1

ASSUME ProcessAssumption ==
    /\ IsFiniteSet(Procs) /\ First \in Procs /\ Main \notin Procs
    /\ NULL # UNSET /\ {NULL, UNSET} \intersect (Procs \union {Main}) = {}
    /\ Statuses \subseteq Int

VARIABLES
    pc,             \* where each process is
    arg,            \* the process it executes or waits for
    ret,            \* what the last step returned to a user program, or NULL
    exit_status,    \* t->exit_status
    parent_thread,  \* t->parent_thread
    children,       \* child_thread_list, by process
    rec_status,     \* ct->status of the record kept for each process ...
    rec_exit,       \* ... and its ct->exit_status
    value,          \* t->waiting_sema.value
    reused,         \* the page of a dead process somebody waits for has a new use
    syscall_lock,   \* its holder
    made_by,        \* history: who created each process
    handed,         \* history: how often each process's status was handed out
    loaded,         \* history: the processes whose load() succeeded
    wild            \* the first bad pointer followed, if any

vars == <<pc, arg, ret, exit_status, parent_thread, children, rec_status, rec_exit,
          value, reused, syscall_lock, made_by, handed, loaded, wild>>
records == <<children, rec_status, rec_exit>>
history == <<made_by, handed, loaded>>

All == Procs \union {Main}

ExecPCs == {"exec_lookup", "exec_push", "exec_down", "exec_block", "exec_retest",
            "exec_done"}
WaitPCs == {"wait_lookup", "wait_down", "wait_block", "wait_done"}
ExitPCs == {"fail_mark", "fail_up", "exit_check", "exit_mark", "orphan"}
PCs == {"unborn", "load", "user", "gone", "off"} \union ExecPCs \union WaitPCs \union ExitPCs

\* init_thread(): what a thread starts with; parent_thread is -1, which is no thread.
init_thread == [exit_status |-> 0, parent_thread |-> UNSET, children |-> {}, value |-> 0]

\* run_task() waits for First, whose exec has completed.
Init ==
    /\ pc = [p \in All |-> IF p = Main THEN "wait_block"
                           ELSE IF p = First THEN "user" ELSE "unborn"]
    /\ arg = [p \in All |-> IF p = Main THEN First ELSE NULL]
    /\ ret = NULL
    /\ exit_status = [p \in All |-> init_thread.exit_status]
    /\ parent_thread = [p \in All |-> IF p = First THEN Main ELSE init_thread.parent_thread]
    /\ children = [p \in All |-> IF p = Main THEN {First} ELSE init_thread.children]
    /\ rec_status = [p \in All |-> "ALIVE"]
    /\ rec_exit = [p \in All |-> 0]
    /\ value = [p \in All |-> init_thread.value]
    /\ reused = [p \in All |-> FALSE]
    /\ syscall_lock = NULL
    /\ made_by = [p \in All |-> IF p = First THEN Main ELSE NULL]
    /\ handed = [p \in All |-> 0]
    /\ loaded = {First}
    /\ wild = "no"

At(p, place) == wild = "no" /\ pc[p] = place
Goto(p, place) == pc' = [pc EXCEPT ![p] = place]

\* p follows a pointer that is not a valid one.
Wild(cause) ==
    /\ wild' = cause
    /\ ret' = NULL
    /\ UNCHANGED <<pc, arg, exit_status, parent_thread, records, value, reused,
                   syscall_lock, history>>

\* get_thread_by_tid(q) is not NULL.
Exists(q) == pc[q] \notin {"unborn", "gone"}

\* The process at the other end has a record of q, for find_child_by_tid().
HasRecord(p, q) == Exists(p) /\ q \in children[p]

\* list_remove (&ct->elem); free (ct);
DropRecord(p, q) == children' = [children EXCEPT ![p] = @ \ {q}]

-----------------------------------------------------------------------------
(* waiting_sema.                                                           *)

\* sema_up (&t->waiting_sema) by p itself, which goes on at place; its parent, if
\* it sleeps there, is ready to test the value again.
UpWaitingSema(p, place) ==
    /\ value' = [value EXCEPT ![p] = @ + 1]
    /\ pc' = [x \in All |-> IF x = p THEN place
                            ELSE IF arg[x] # p THEN pc[x]
                            ELSE IF pc[x] = "wait_block" THEN "wait_down"
                            ELSE IF pc[x] = "exec_block" THEN "exec_retest" ELSE pc[x]]

\* What p finds when it tests the waiting_sema of q: a unit to take, nothing,
\* or the memory of whatever has taken the place of the dead q.
FindsUnit(q) == IF Exists(q) THEN value[q] > 0 ELSE TRUE
FindsZero(q) == Exists(q) /\ value[q] = 0
FindsForeign(q) == ~ Exists(q) /\ reused[q]

\* sema_down (&q->waiting_sema) by p, which is at its test of the value.
DownWaitingSema(p, blocked, done) ==
    \/ /\ FindsUnit(arg[p])
       /\ value' = [value EXCEPT ![arg[p]] = IF Exists(arg[p]) THEN @ - 1 ELSE @]
       /\ Goto(p, done)
       /\ ret' = NULL
       /\ UNCHANGED <<arg, exit_status, parent_thread, records, reused, syscall_lock,
                      history, wild>>
    \/ /\ FindsZero(arg[p])
       /\ Goto(p, blocked)
       /\ ret' = NULL
       /\ UNCHANGED <<arg, exit_status, parent_thread, records, value, reused,
                      syscall_lock, history, wild>>
    \/ FindsForeign(arg[p]) /\ Wild("freed_sema")

-----------------------------------------------------------------------------
(* process_execute(), called by syscall_exec().                            *)

\* syscall_exec() up to the return of thread_create(): p has syscall_lock, and
\* init_thread() has set up q.
Exec(p, q) ==
    /\ At(p, "user") /\ pc[q] = "unborn"
    /\ syscall_lock = NULL
    /\ syscall_lock' = p
    /\ pc' = [pc EXCEPT ![p] = "exec_lookup", ![q] = "load"]
    /\ arg' = [arg EXCEPT ![p] = q]
    /\ made_by' = [made_by EXCEPT ![q] = p]
    /\ reused' = [d \in All |-> reused[d] \/ (pc[d] = "gone" /\ \E x \in All : arg[x] = d)]
    /\ ret' = NULL
    /\ UNCHANGED <<exit_status, parent_thread, records, value, handed, loaded, wild>>

\* No page for fn_copy or for the thread: TID_ERROR.
ExecNoPage(p) ==
    /\ At(p, "user")
    /\ syscall_lock = NULL
    /\ ret' = -1
    /\ UNCHANGED <<pc, arg, exit_status, parent_thread, records, value, reused,
                   syscall_lock, history, wild>>

\* new = get_thread_by_tid (tid), the accesses to *new, new->parent_thread = cur.
ExecLookup(p) ==
    /\ At(p, "exec_lookup")
    /\ \/ /\ Exists(arg[p])
          /\ parent_thread' = [parent_thread EXCEPT ![arg[p]] = p]
          /\ Goto(p, "exec_push")
          /\ ret' = NULL
          /\ UNCHANGED <<arg, exit_status, records, value, reused, syscall_lock,
                         history, wild>>
       \/ ~ Exists(arg[p]) /\ Wild("null_child")

\* list_push_back (&cur->child_thread_list, &ct->elem), status and exit_status
\* set before.
ExecPush(p) ==
    /\ At(p, "exec_push")
    /\ children' = [children EXCEPT ![p] = @ \union {arg[p]}]
    /\ rec_status' = [rec_status EXCEPT ![arg[p]] = "ALIVE"]
    /\ rec_exit' = [rec_exit EXCEPT ![arg[p]] = 0]
    /\ Goto(p, "exec_down")
    /\ ret' = NULL
    /\ UNCHANGED <<arg, exit_status, parent_thread, value, reused, syscall_lock,
                   history, wild>>

\* A mutant: exec does not wait for the load.
ExecDownSkips(p) ==
    /\ At(p, "exec_down")
    /\ Goto(p, "exec_done")
    /\ ret' = NULL
    /\ UNCHANGED <<arg, exit_status, parent_thread, records, value, reused,
                   syscall_lock, history, wild>>

\* sema_down (&get_thread_by_tid (tid)->waiting_sema).
ExecDown(p) ==
    \/ /\ At(p, "exec_retest") \/ (At(p, "exec_down") /\ Exists(arg[p]))
       /\ DownWaitingSema(p, "exec_block", "exec_done")
    \/ At(p, "exec_down") /\ ~ Exists(arg[p]) /\ Wild("null_child")

\* The test of ct->status and the return, and lock_release (&syscall_lock).
ExecDone(p) ==
    /\ At(p, "exec_done")
    /\ \/ /\ rec_status[arg[p]] = "DYING"
          /\ ret' = rec_exit[arg[p]]
          /\ DropRecord(p, arg[p])
          /\ handed' = [handed EXCEPT ![arg[p]] = @ + 1]
       \/ /\ rec_status[arg[p]] # "DYING"
          /\ ret' = arg[p]
          /\ UNCHANGED <<children, handed>>
    /\ syscall_lock' = NULL
    /\ Goto(p, "user")
    /\ arg' = [arg EXCEPT ![p] = NULL]
    /\ UNCHANGED <<exit_status, parent_thread, rec_status, rec_exit, value, reused,
                   made_by, loaded, wild>>

-----------------------------------------------------------------------------
(* start_process().                                                        *)

\* load() succeeds, sema_up (&thread_current ()->waiting_sema), user mode.
LoadOK(p) ==
    /\ At(p, "load")
    /\ UpWaitingSema(p, "user")
    /\ loaded' = loaded \union {p}
    /\ ret' = NULL
    /\ UNCHANGED <<arg, exit_status, parent_thread, records, reused, syscall_lock,
                   made_by, handed, wild>>

\* load() fails.
LoadFails(p) ==
    /\ At(p, "load")
    /\ Goto(p, "fail_mark")
    /\ ret' = NULL
    /\ UNCHANGED <<arg, exit_status, parent_thread, records, value, reused,
                   syscall_lock, history, wild>>

\* A mutant: only the status of the record is set.
MarkRecordOnly(p, s, place) ==
    \/ /\ parent_thread[p] \in All /\ HasRecord(parent_thread[p], p)
       /\ rec_status' = [rec_status EXCEPT ![p] = "DYING"]
       /\ Goto(p, place)
       /\ ret' = NULL
       /\ UNCHANGED <<arg, exit_status, parent_thread, children, rec_exit, value,
                      reused, syscall_lock, history, wild>>
    \/ parent_thread[p] \notin All /\ Wild("bad_parent")
    \/ /\ parent_thread[p] \in All /\ ~ HasRecord(parent_thread[p], p)
       /\ Wild("lost_record")

\* p marks the record its parent keeps of it, with exit status s; pointers may
\* be bad on the way: parent_thread itself, or the record that is not there.
MarkRecord(p, s, place) ==
    \/ /\ parent_thread[p] \in All /\ HasRecord(parent_thread[p], p)
       /\ rec_status' = [rec_status EXCEPT ![p] = "DYING"]
       /\ rec_exit' = [rec_exit EXCEPT ![p] = s]
       /\ Goto(p, place)
       /\ ret' = NULL
       /\ UNCHANGED <<arg, exit_status, parent_thread, children, value, reused,
                      syscall_lock, history, wild>>
    \/ parent_thread[p] \notin All /\ Wild("bad_parent")
    \/ /\ parent_thread[p] \in All /\ ~ HasRecord(parent_thread[p], p)
       /\ Wild("lost_record")

\* The failure branch: ct->status = THREAD_DYING; ct->exit_status = -1;
FailMark(p) == At(p, "fail_mark") /\ MarkRecord(p, -1, "fail_up")

\* sema_up (&thread_current ()->waiting_sema); syscall_exit (-1);
FailUp(p) ==
    /\ At(p, "fail_up")
    /\ UpWaitingSema(p, "exit_check")
    /\ exit_status' = [exit_status EXCEPT ![p] = -1]
    /\ ret' = NULL
    /\ UNCHANGED <<arg, parent_thread, records, reused, syscall_lock, history, wild>>

-----------------------------------------------------------------------------
(* process_wait().                                                         *)

\* It returns v to p, with q's status handed out if the record was found.
Return(p, v) ==
    /\ ret' = v
    /\ arg' = [arg EXCEPT ![p] = NULL]
    /\ Goto(p, IF p = Main THEN "off" ELSE "user")

\* The test for a child that has died already; cur->waiting_child is NULL here.
Wait(p, q) ==
    /\ At(p, "user")
    /\ \/ /\ q \in children[p] /\ rec_status[q] = "DYING"
          /\ Return(p, rec_exit[q])
          /\ DropRecord(p, q)
          /\ handed' = [handed EXCEPT ![q] = @ + 1]
       \/ /\ ~ (q \in children[p] /\ rec_status[q] = "DYING")
          /\ arg' = [arg EXCEPT ![p] = q]
          /\ Goto(p, "wait_lookup")
          /\ ret' = NULL
          /\ UNCHANGED <<children, handed>>
    /\ UNCHANGED <<exit_status, parent_thread, rec_status, rec_exit, value, reused,
                   syscall_lock, made_by, loaded, wild>>

\* child = get_thread_by_tid (child_tid), and the test of its parent.
WaitLookup(p) ==
    /\ At(p, "wait_lookup")
    /\ \/ /\ Exists(arg[p]) /\ parent_thread[arg[p]] = p
          /\ Goto(p, "wait_down")
          /\ ret' = NULL
          /\ UNCHANGED arg
       \/ /\ ~ (Exists(arg[p]) /\ parent_thread[arg[p]] = p)
          /\ Return(p, -1)
    /\ UNCHANGED <<exit_status, parent_thread, records, value, reused, syscall_lock,
                   history, wild>>

\* sema_down (&child->waiting_sema), child being a pointer taken before.
WaitDown(p) == At(p, "wait_down") /\ DownWaitingSema(p, "wait_block", "wait_done")

\* A mutant: the record stays.
WaitDoneKeeps(p) ==
    /\ At(p, "wait_done")
    /\ Return(p, rec_exit[arg[p]])
    /\ handed' = [handed EXCEPT ![arg[p]] = @ + 1]
    /\ UNCHANGED <<exit_status, parent_thread, records, value, reused, syscall_lock,
                   made_by, loaded, wild>>

\* The status is read from the record, which goes.
WaitDone(p) ==
    /\ At(p, "wait_done")
    /\ \/ /\ arg[p] \in children[p]
          /\ Return(p, rec_exit[arg[p]])
          /\ DropRecord(p, arg[p])
          /\ handed' = [handed EXCEPT ![arg[p]] = @ + 1]
          /\ UNCHANGED <<exit_status, parent_thread, rec_status, rec_exit, value, reused,
                         syscall_lock, made_by, loaded, wild>>
       \/ arg[p] \notin children[p] /\ Wild("lost_record")

-----------------------------------------------------------------------------
(* thread_exit().                                                          *)

\* exit(s), or a page fault that syscall_exit() answers with -1.
Exit(p, s) ==
    /\ At(p, "user")
    /\ exit_status' = [exit_status EXCEPT ![p] = s]
    /\ Goto(p, "exit_check")
    /\ ret' = NULL
    /\ UNCHANGED <<arg, parent_thread, records, value, reused, syscall_lock,
                   history, wild>>

\* kill(): another exception; thread_exit() with exit_status as it is.
Kill(p) ==
    /\ At(p, "user")
    /\ Goto(p, "exit_check")
    /\ ret' = NULL
    /\ UNCHANGED <<arg, exit_status, parent_thread, records, value, reused,
                   syscall_lock, history, wild>>

\* if (ct->parent_thread != NULL)
ExitCheck(p) ==
    /\ At(p, "exit_check")
    /\ Goto(p, IF parent_thread[p] = NULL THEN "orphan" ELSE "exit_mark")
    /\ ret' = NULL
    /\ UNCHANGED <<arg, exit_status, parent_thread, records, value, reused,
                   syscall_lock, history, wild>>

ExitMark(p) == At(p, "exit_mark") /\ MarkRecord(p, exit_status[p], "orphan")

\* One round of the loop over child_thread_list, for the record of q.
Orphan(p, q) ==
    /\ At(p, "orphan") /\ q \in children[p]
    /\ parent_thread' = IF rec_status[q] = "DYING" THEN parent_thread
                        ELSE [parent_thread EXCEPT ![q] = NULL]
    /\ DropRecord(p, q)
    /\ ret' = NULL
    /\ UNCHANGED <<pc, arg, exit_status, rec_status, rec_exit, value, reused,
                   syscall_lock, history, wild>>

\* A mutant: the waiter is not woken.
ExitEndSilent(p) ==
    /\ At(p, "orphan") /\ children[p] = {}
    /\ Goto(p, "gone")
    /\ ret' = NULL
    /\ UNCHANGED <<arg, exit_status, parent_thread, records, value, reused,
                   syscall_lock, history, wild>>

\* From intr_disable () on: off all_list, sema_up (), DYING, schedule (), and
\* the page is freed by the next thread's thread_schedule_tail().
ExitEnd(p) ==
    /\ At(p, "orphan") /\ children[p] = {}
    /\ UpWaitingSema(p, "gone")
    /\ ret' = NULL
    /\ UNCHANGED <<arg, exit_status, parent_thread, records, reused, syscall_lock,
                   history, wild>>

-----------------------------------------------------------------------------
\* The kernel code p goes through without a choice of its own.
Kernel(p) ==
    \/ ExecLookup(p) \/ ExecPush(p) \/ ExecDown(p) \/ ExecDone(p)
    \/ LoadOK(p) \/ LoadFails(p) \/ FailMark(p) \/ FailUp(p)
    \/ WaitLookup(p) \/ WaitDown(p) \/ WaitDone(p)
    \/ ExitCheck(p) \/ ExitMark(p) \/ ExitEnd(p)
    \/ \E q \in Procs : Orphan(p, q)

\* What a user program may do next.
User(p) ==
    \/ \E q \in Procs : Exec(p, q) \/ Wait(p, q)
    \/ ExecNoPage(p) \/ Kill(p)
    \/ \E s \in Statuses : Exit(p, s)

\* run_task() has returned, or the kernel has crashed.
Stopped == (pc[Main] = "off" \/ wild # "no") /\ UNCHANGED vars

Next == (\E p \in All : Kernel(p) \/ User(p)) \/ Stopped

Spec == Init /\ [][Next]_vars

\* Every thread that is ready gets the CPU (ReadyRuns of module Synch).
FairSpec == Spec /\ \A p \in All : WF_vars(Kernel(p))

-----------------------------------------------------------------------------
(* Properties.                                                             *)

\* The variables keep to their types; in particular the value of a waiting_sema
\* never exceeds the two units its process puts there.
TypeOK ==
    /\ pc \in [All -> PCs] /\ arg \in [All -> All \union {NULL}]
    /\ ret \in Procs \union Statuses \union {-1, 0, NULL}
    /\ exit_status \in [All -> Statuses \union {-1, 0}]
    /\ parent_thread \in [All -> All \union {NULL, UNSET}]
    /\ children \in [All -> SUBSET Procs]
    /\ rec_status \in [All -> {"ALIVE", "DYING"}]
    /\ rec_exit \in [All -> Statuses \union {-1, 0}]
    /\ value \in [All -> 0 .. 2] /\ reused \in [All -> BOOLEAN]
    /\ syscall_lock \in Procs \union {NULL}
    /\ made_by \in [All -> All \union {NULL}] /\ handed \in [All -> Nat]
    /\ loaded \subseteq Procs
    /\ wild \in {"no", "null_child", "bad_parent", "lost_record", "freed_sema"}

\* process_wait(): "Waits for thread TID to die".  Though the load handshake and
\* the exit use the same semaphore, a wait never takes the unit of the other:
\* when it gets through, the child is dead.
WaitNotEarly ==
    \A p \in All : pc[p] = "wait_done" => pc[arg[p]] = "gone"

\* process_execute(): for a program that cannot be loaded exec returns -1, and it
\* does not return before the outcome of the load is known.
ExecReportsFailure ==
    [][\A p \in All : At(p, "exec_done") /\ pc'[p] = "user" /\ arg[p] \notin loaded
          => ret' = -1]_vars

\* thread_exit(): the status of a dead process that still has a record is the one
\* it exited with, for whoever waits later.
ExitRecorded ==
    \A p \in All : \A q \in children[p] :
        pc[q] = "gone" => rec_status[q] = "DYING" /\ rec_exit[q] = exit_status[q]

\* process_wait(): the status of a process is handed out once, by the exec that
\* found it dead or by one wait; every later wait returns -1.
HandedOnce == \A q \in Procs : handed[q] <= 1

\* thread_exit(): a process that has not begun to exit never has a parent_thread
\* that points to a freed thread, in whichever order parent and child exit.
NoDanglingParent ==
    \A q \in Procs :
        Exists(q) /\ pc[q] \notin ExitPCs /\ parent_thread[q] \in All
            => Exists(parent_thread[q])

\* thread_exit() of parent and child in any order: TypeOK, ExitRecorded and
\* NoDanglingParent, what a child's record and its parent pointer are relied on for.
RecordsSound == TypeOK /\ ExitRecorded /\ NoDanglingParent

\* process_execute() and start_process(): exec returns in the end, whether the
\* program is loaded or not, unless the kernel has crashed.
ExecReturns ==
    \A p \in Procs : pc[p] \in ExecPCs ~> pc[p] = "user" \/ wild # "no"

\* process_wait() and thread_exit(): a process waiting for a child that has died
\* gets past the wait, though the semaphore it sleeps on is in a freed page.
WaitReturns ==
    \A p \in All :
        pc[p] \in {"wait_down", "wait_block"} /\ pc[arg[p]] = "gone"
            ~> pc[p] \in {"user", "off"} \/ wild # "no"

\* exec and wait, which sleep on the same semaphore of the child, return in the end and
\* exec with the outcome of the load: ExecReturns, WaitReturns and ExecReportsFailure.
CallsReturn == ExecReturns /\ WaitReturns /\ ExecReportsFailure

\* process_wait(): "Waits for thread TID to die and returns its exit status", for a
\* child whose status has not been handed out.
WaitReportsStatus ==
    [][\A p \in All :
          /\ pc[p] \in {"wait_lookup", "wait_done"} /\ pc'[p] = "user"
          /\ made_by[arg[p]] = p /\ handed[arg[p]] = 0
          => ret' = exit_status[arg[p]]]_vars
=============================================================================
