--------------------------- MODULE ProcessProofs ---------------------------
(***************************************************************************)
(* Proofs about module Process, for any set of processes and statuses, and *)
(* about module PageDir, for any threads, user pages and frames.           *)
(***************************************************************************)
EXTENDS Process, PageDir, TLAPS

\* The places of process_execute() up to the one where the load's unit is taken, and
\* those before the record is linked in.
Awaiting == {"exec_lookup", "exec_push", "exec_down", "exec_block", "exec_retest"}
Linking  == {"exec_lookup", "exec_push"}
Linked   == {"exec_down", "exec_block", "exec_retest", "exec_done"}

\* q's maker is still in the process_execute() of q, or has yet to link the record of q.
BeingLoaded(q) ==
    made_by[q] \in All /\ pc[made_by[q]] \in Awaiting /\ arg[made_by[q]] = q
Unlinked(q) ==
    made_by[q] \in All /\ pc[made_by[q]] \in Linking /\ arg[made_by[q]] = q

\* The first of the two units of q's waiting_sema is there or was.
Reported(q) == pc[q] \notin {"unborn", "load", "fail_mark", "fail_up"}

\* q has been marked, or is past the place where it would have been.
Failing == {"fail_up", "exit_check", "exit_mark", "orphan", "gone"}

\* run_task() only waits.
MainInv == pc[Main] \in {"wait_block", "wait_down", "wait_done", "off"} /\ value[Main] = 0

\* What the place of p says of the process it works on.
ArgInv(p) ==
    /\ pc[p] \in ExecPCs => arg[p] \in Procs /\ made_by[arg[p]] = p /\ syscall_lock = p
    /\ pc[p] \in WaitPCs => arg[p] \in Procs
    /\ pc[p] \in {"wait_down", "wait_block", "wait_done"} => made_by[arg[p]] = p
    /\ pc[p] = "wait_done" => pc[arg[p]] = "gone"
    /\ pc[p] = "exec_push" => parent_thread[arg[p]] = p
    /\ pc[p] \in Linked => arg[p] \in children[p]
    /\ pc[p] \in {"unborn", "gone"} => children[p] = {}

\* The units of q's waiting_sema: the load's is there until the exec has taken it.
ValueInv(q) ==
    /\ pc[q] = "unborn" <=> made_by[q] = NULL
    /\ made_by[q] # q
    /\ pc[q] = "unborn" => value[q] = 0
    /\ Exists(q) /\ BeingLoaded(q) => value[q] = IF Reported(q) THEN 1 ELSE 0
    /\ Exists(q) /\ ~ BeingLoaded(q) => value[q] = 0 /\ Reported(q)

\* The record of q, and the pointer from q to its parent.
RecordInv(q) ==
    /\ parent_thread[q] \in All => parent_thread[q] = made_by[q]
    /\ \A p \in All : q \in children[p] =>
          /\ parent_thread[q] = p /\ handed[q] = 0 /\ ~ Unlinked(q)
          /\ pc[q] \in {"orphan", "gone"} => rec_status[q] = "DYING" /\ rec_exit[q] = exit_status[q]
    /\ rec_status[q] = "DYING" => pc[q] \in Failing
    /\ handed[q] <= 1
    /\ pc[q] = "unborn" \/ Unlinked(q) =>
          /\ parent_thread[q] # NULL /\ handed[q] = 0 /\ rec_status[q] = "ALIVE"
          /\ pc[q] \notin {"fail_up", "orphan", "gone"}
    /\ pc[q] = "unborn" => parent_thread[q] = UNSET
    /\ Exists(q) /\ pc[q] \notin ExitPCs /\ parent_thread[q] \in All =>
          q \in children[parent_thread[q]] \/ Unlinked(q)

\* A program that could not be loaded says so in its record.
FailInv(q) ==
    q \notin loaded =>
        /\ pc[q] \in {"unborn", "load", "fail_mark"} \union Failing
        /\ pc[q] \in Failing => rec_status[q] = "DYING" /\ rec_exit[q] = -1
        /\ pc[q] \in Failing \ {"fail_up"} => exit_status[q] = -1

Inv ==
    /\ TypeOK
    /\ MainInv
    /\ \A p \in All : ArgInv(p)
    /\ \A q \in Procs : ValueInv(q) /\ RecordInv(q) /\ FailInv(q)

\* Process_execute() looks its child up and stores itself there as the parent, or
\* follows a null pointer.
LEMMA ExecLookupStep ==
    ASSUME Inv, NEW p \in All, ExecLookup(p)
    PROVE  Inv'
<1> USE ProcessAssumption DEF ExecLookup, Wild, At, Goto, records, history
<1>1. TypeOK'
  BY DEF Inv, TypeOK, All, PCs, ExecPCs, WaitPCs, ExitPCs
<1>2. MainInv'
  BY DEF Inv, TypeOK, MainInv, All
<1>3. ASSUME NEW x \in All PROVE ArgInv(x)'
  BY DEF Inv, TypeOK, ArgInv, ExecPCs, WaitPCs, Linked
<1>4. ASSUME NEW x \in Procs PROVE ValueInv(x)'
  BY DEF Inv, TypeOK, ValueInv, BeingLoaded, Reported, Exists, Awaiting, All
<1>5. ASSUME NEW x \in Procs PROVE RecordInv(x)'
  BY DEF Inv, TypeOK, ArgInv, RecordInv, Unlinked, Exists, Linking, Linked, Failing,
         All, PCs, ExecPCs, WaitPCs, ExitPCs
<1>6. ASSUME NEW x \in Procs PROVE FailInv(x)'
  BY DEF Inv, TypeOK, FailInv, Failing, All
<1> QED
  BY <1>1, <1>2, <1>3, <1>4, <1>5, <1>6 DEF Inv

\* Process_execute() links the record of a child that nobody can have marked yet.
LEMMA ExecPushStep ==
    ASSUME Inv, NEW p \in All, ExecPush(p)
    PROVE  Inv'
<1> USE ProcessAssumption DEF ExecPush, At, Goto, records, history
<1>1. TypeOK'
  BY DEF Inv, TypeOK, ArgInv, Exists, All, PCs, ExecPCs, WaitPCs, ExitPCs
<1>2. MainInv'
  BY DEF Inv, TypeOK, MainInv, All
<1>3. ASSUME NEW x \in All PROVE ArgInv(x)'
  BY DEF Inv, TypeOK, ArgInv, ExecPCs, WaitPCs, Linked
<1>4. ASSUME NEW x \in Procs PROVE ValueInv(x)'
  BY DEF Inv, TypeOK, ValueInv, BeingLoaded, Reported, Exists, Awaiting, All
<1>5. ASSUME NEW x \in Procs PROVE RecordInv(x)'
  BY DEF Inv, TypeOK, ArgInv, RecordInv, Unlinked, Exists, Linking, Linked, Failing,
         All, PCs, ExecPCs, WaitPCs, ExitPCs
<1>6. ASSUME NEW x \in Procs PROVE FailInv(x)'
  BY DEF Inv, TypeOK, RecordInv, ArgInv, FailInv, Unlinked, Exists, Linking, Failing,
         All, PCs, ExecPCs, WaitPCs, ExitPCs
<1> QED
  BY <1>1, <1>2, <1>3, <1>4, <1>5, <1>6 DEF Inv

\* The sema_down() of process_execute() gets past only when the load is over.
LEMMA ExecDownStep ==
    ASSUME Inv, NEW p \in All, ExecDown(p)
    PROVE  Inv'
<1> USE ProcessAssumption DEF ExecDown, DownWaitingSema, FindsUnit, FindsZero,
       FindsForeign, Wild, At, Goto, records, history
<1>1. TypeOK'
  BY DEF Inv, TypeOK, All, PCs, ExecPCs, WaitPCs, ExitPCs
<1>2. MainInv'
  BY DEF Inv, TypeOK, MainInv, All
<1>3. ASSUME NEW x \in All PROVE ArgInv(x)'
  BY DEF Inv, TypeOK, ArgInv, ExecPCs, WaitPCs, Linked
<1>4. ASSUME NEW x \in Procs PROVE ValueInv(x)'
  BY DEF Inv, TypeOK, ArgInv, ValueInv, BeingLoaded, Reported, Exists, Awaiting, All,
         PCs, ExecPCs, WaitPCs, ExitPCs
<1>5. ASSUME NEW x \in Procs PROVE RecordInv(x)'
  BY DEF Inv, TypeOK, RecordInv, Unlinked, Exists, Linking, Failing, All, ExitPCs
<1>6. ASSUME NEW x \in Procs PROVE FailInv(x)'
  BY DEF Inv, TypeOK, FailInv, Failing, All
<1> QED
  BY <1>1, <1>2, <1>3, <1>4, <1>5, <1>6 DEF Inv

\* Process_execute() hands out the status of a child it finds dead with its record.
LEMMA ExecDoneStep ==
    ASSUME Inv, NEW p \in All, ExecDone(p)
    PROVE  Inv'
<1> USE ProcessAssumption DEF ExecDone, DropRecord, At, Goto, records, history
<1>1. TypeOK'
  BY DEF Inv, TypeOK, ArgInv, Exists, All, PCs, ExecPCs, WaitPCs, ExitPCs
<1>2. MainInv'
  BY DEF Inv, TypeOK, MainInv, All
<1>3. ASSUME NEW x \in All PROVE ArgInv(x)'
  BY DEF Inv, TypeOK, ArgInv, ExecPCs, WaitPCs, Linked
<1>4. ASSUME NEW x \in Procs PROVE ValueInv(x)'
  BY DEF Inv, TypeOK, ValueInv, BeingLoaded, Reported, Exists, Awaiting, All
<1>5. ASSUME NEW x \in Procs PROVE RecordInv(x)'
  BY DEF Inv, TypeOK, ArgInv, RecordInv, Unlinked, Exists, Linking, Linked, Failing,
         All, PCs, ExecPCs, WaitPCs, ExitPCs
<1>6. ASSUME NEW x \in Procs PROVE FailInv(x)'
  BY DEF Inv, TypeOK, FailInv, Failing, All
<1> QED
  BY <1>1, <1>2, <1>3, <1>4, <1>5, <1>6 DEF Inv

\* The load's unit goes to the exec, which has not taken one before.
LEMMA LoadOKStep ==
    ASSUME Inv, NEW p \in All, LoadOK(p)
    PROVE  Inv'
<1> USE ProcessAssumption DEF LoadOK, UpWaitingSema, At, Goto, records, history
<1>1. TypeOK'
  BY DEF Inv, TypeOK, MainInv, ArgInv, ValueInv, BeingLoaded, Reported, Awaiting,
         Exists, All, PCs, ExecPCs, WaitPCs, ExitPCs
<1>2. MainInv'
  BY DEF Inv, TypeOK, MainInv, All
<1>3. ASSUME NEW x \in All PROVE ArgInv(x)'
  BY DEF Inv, TypeOK, ArgInv, ExecPCs, WaitPCs, Linked
<1>4. ASSUME NEW x \in Procs PROVE ValueInv(x)'
  BY DEF Inv, TypeOK, ValueInv, BeingLoaded, Reported, Exists, Awaiting, All
<1>5. ASSUME NEW x \in Procs PROVE RecordInv(x)'
  BY DEF Inv, TypeOK, RecordInv, Unlinked, Exists, Linking, Failing, All, ExitPCs
<1>6. ASSUME NEW x \in Procs PROVE FailInv(x)'
  BY DEF Inv, TypeOK, FailInv, Failing, All
<1> QED
  BY <1>1, <1>2, <1>3, <1>4, <1>5, <1>6 DEF Inv

\* A load that fails leaves everything to the next steps.
LEMMA LoadFailsStep ==
    ASSUME Inv, NEW p \in All, LoadFails(p)
    PROVE  Inv'
<1> USE ProcessAssumption DEF LoadFails, At, Goto, records, history
<1>1. TypeOK'
  BY DEF Inv, TypeOK, All, PCs, ExecPCs, WaitPCs, ExitPCs
<1>2. MainInv'
  BY DEF Inv, TypeOK, MainInv, All
<1>3. ASSUME NEW x \in All PROVE ArgInv(x)'
  BY DEF Inv, TypeOK, ArgInv, ExecPCs, WaitPCs, Linked
<1>4. ASSUME NEW x \in Procs PROVE ValueInv(x)'
  BY DEF Inv, TypeOK, ValueInv, BeingLoaded, Reported, Exists, Awaiting, All
<1>5. ASSUME NEW x \in Procs PROVE RecordInv(x)'
  BY DEF Inv, TypeOK, RecordInv, Unlinked, Exists, Linking, Failing, All, ExitPCs
<1>6. ASSUME NEW x \in Procs PROVE FailInv(x)'
  BY DEF Inv, TypeOK, FailInv, Failing, All
<1> QED
  BY <1>1, <1>2, <1>3, <1>4, <1>5, <1>6 DEF Inv

\* Start_process() marks the record of a program it could not load.
LEMMA FailMarkStep ==
    ASSUME Inv, NEW p \in All, FailMark(p)
    PROVE  Inv'
<1> USE ProcessAssumption DEF FailMark, MarkRecord, HasRecord, Wild, At, Goto,
       records, history
<1>1. TypeOK'
  BY DEF Inv, TypeOK, All, PCs, ExecPCs, WaitPCs, ExitPCs
<1>2. MainInv'
  BY DEF Inv, TypeOK, MainInv, All
<1>3. ASSUME NEW x \in All PROVE ArgInv(x)'
  BY DEF Inv, TypeOK, ArgInv, ExecPCs, WaitPCs, Linked
<1>4. ASSUME NEW x \in Procs PROVE ValueInv(x)'
  BY DEF Inv, TypeOK, ValueInv, BeingLoaded, Reported, Exists, Awaiting, All
<1>5. ASSUME NEW x \in Procs PROVE RecordInv(x)'
  BY DEF Inv, TypeOK, RecordInv, Unlinked, Exists, Linking, Failing, All, ExitPCs
<1>6. ASSUME NEW x \in Procs PROVE FailInv(x)'
  BY DEF Inv, TypeOK, FailInv, Failing, All
<1> QED
  BY <1>1, <1>2, <1>3, <1>4, <1>5, <1>6 DEF Inv

\* The unit of a load that failed, after the record was marked.
LEMMA FailUpStep ==
    ASSUME Inv, NEW p \in All, FailUp(p)
    PROVE  Inv'
<1> USE ProcessAssumption DEF FailUp, UpWaitingSema, At, Goto, records, history
<1>1. TypeOK'
  BY DEF Inv, TypeOK, MainInv, ArgInv, ValueInv, BeingLoaded, Reported, Awaiting,
         Exists, All, PCs, ExecPCs, WaitPCs, ExitPCs
<1>2. MainInv'
  BY DEF Inv, TypeOK, MainInv, All
<1>3. ASSUME NEW x \in All PROVE ArgInv(x)'
  BY DEF Inv, TypeOK, ArgInv, ExecPCs, WaitPCs, Linked
<1>4. ASSUME NEW x \in Procs PROVE ValueInv(x)'
  BY DEF Inv, TypeOK, ValueInv, BeingLoaded, Reported, Exists, Awaiting, All
<1>5. ASSUME NEW x \in Procs PROVE RecordInv(x)'
  BY DEF Inv, TypeOK, RecordInv, Unlinked, Exists, Linking, Failing, All, ExitPCs
<1>6. ASSUME NEW x \in Procs PROVE FailInv(x)'
  BY DEF Inv, TypeOK, FailInv, Failing, All
<1> QED
  BY <1>1, <1>2, <1>3, <1>4, <1>5, <1>6 DEF Inv

\* Process_wait() goes on only for a child that names it as its parent.
LEMMA WaitLookupStep ==
    ASSUME Inv, NEW p \in All, WaitLookup(p)
    PROVE  Inv'
<1> USE ProcessAssumption DEF WaitLookup, Return, At, Goto, records, history
<1>1. TypeOK'
  BY DEF Inv, TypeOK, All, PCs, ExecPCs, WaitPCs, ExitPCs
<1>2. MainInv'
  BY DEF Inv, TypeOK, MainInv, All
<1>3. ASSUME NEW x \in All PROVE ArgInv(x)'
  BY DEF Inv, TypeOK, MainInv, ArgInv, ValueInv, RecordInv, BeingLoaded, Reported,
         Unlinked, Exists, Awaiting, Linking, Linked, All, PCs, ExecPCs, WaitPCs,
         ExitPCs
<1>4. ASSUME NEW x \in Procs PROVE ValueInv(x)'
  BY DEF Inv, TypeOK, ValueInv, BeingLoaded, Reported, Exists, Awaiting, All
<1>5. ASSUME NEW x \in Procs PROVE RecordInv(x)'
  BY DEF Inv, TypeOK, RecordInv, Unlinked, Exists, Linking, Failing, All, ExitPCs
<1>6. ASSUME NEW x \in Procs PROVE FailInv(x)'
  BY DEF Inv, TypeOK, FailInv, Failing, All
<1> QED
  BY <1>1, <1>2, <1>3, <1>4, <1>5, <1>6 DEF Inv

\* The sema_down() of process_wait() finds no unit while the child lives.
LEMMA WaitDownStep ==
    ASSUME Inv, NEW p \in All, WaitDown(p)
    PROVE  Inv'
<1> USE ProcessAssumption DEF WaitDown, DownWaitingSema, FindsUnit, FindsZero,
       FindsForeign, Wild, At, Goto, records, history
<1>1. TypeOK'
  BY DEF Inv, TypeOK, All, PCs, ExecPCs, WaitPCs, ExitPCs
<1>2. MainInv'
  BY DEF Inv, TypeOK, MainInv, All
<1>3. ASSUME NEW x \in All PROVE ArgInv(x)'
  BY DEF Inv, TypeOK, MainInv, ArgInv, ValueInv, RecordInv, BeingLoaded, Reported,
         Unlinked, Exists, Awaiting, Linking, Linked, All, PCs, ExecPCs, WaitPCs,
         ExitPCs
<1>4. ASSUME NEW x \in Procs PROVE ValueInv(x)'
  BY DEF Inv, TypeOK, ArgInv, ValueInv, BeingLoaded, Reported, Exists, Awaiting, All,
         PCs, ExecPCs, WaitPCs, ExitPCs
<1>5. ASSUME NEW x \in Procs PROVE RecordInv(x)'
  BY DEF Inv, TypeOK, RecordInv, Unlinked, Exists, Linking, Failing, All, ExitPCs
<1>6. ASSUME NEW x \in Procs PROVE FailInv(x)'
  BY DEF Inv, TypeOK, FailInv, Failing, All
<1> QED
  BY <1>1, <1>2, <1>3, <1>4, <1>5, <1>6 DEF Inv

\* Process_wait() hands out the status together with the record.
LEMMA WaitDoneStep ==
    ASSUME Inv, NEW p \in All, WaitDone(p)
    PROVE  Inv'
<1> USE ProcessAssumption DEF WaitDone, Return, DropRecord, Wild, At, Goto, records,
       history
<1>1. TypeOK'
  BY DEF Inv, TypeOK, All, PCs, ExecPCs, WaitPCs, ExitPCs
<1>2. MainInv'
  BY DEF Inv, TypeOK, MainInv, All
<1>3. ASSUME NEW x \in All PROVE ArgInv(x)'
  BY DEF Inv, TypeOK, ArgInv, ExecPCs, WaitPCs, Linked
<1>4. ASSUME NEW x \in Procs PROVE ValueInv(x)'
  BY DEF Inv, TypeOK, ValueInv, BeingLoaded, Reported, Exists, Awaiting, All
<1>5. ASSUME NEW x \in Procs PROVE RecordInv(x)'
  BY DEF Inv, TypeOK, ArgInv, RecordInv, Unlinked, Exists, Linking, Linked, Failing,
         All, PCs, ExecPCs, WaitPCs, ExitPCs
<1>6. ASSUME NEW x \in Procs PROVE FailInv(x)'
  BY DEF Inv, TypeOK, FailInv, Failing, All
<1> QED
  BY <1>1, <1>2, <1>3, <1>4, <1>5, <1>6 DEF Inv

\* Thread_exit() of a process without a parent, which has no record either.
LEMMA ExitCheckStep ==
    ASSUME Inv, NEW p \in All, ExitCheck(p)
    PROVE  Inv'
<1> USE ProcessAssumption DEF ExitCheck, At, Goto, records, history
<1>1. TypeOK'
  BY DEF Inv, TypeOK, All, PCs, ExecPCs, WaitPCs, ExitPCs
<1>2. MainInv'
  BY DEF Inv, TypeOK, MainInv, All
<1>3. ASSUME NEW x \in All PROVE ArgInv(x)'
  BY DEF Inv, TypeOK, ArgInv, ExecPCs, WaitPCs, Linked
<1>4. ASSUME NEW x \in Procs PROVE ValueInv(x)'
  BY DEF Inv, TypeOK, ValueInv, BeingLoaded, Reported, Exists, Awaiting, All
<1>5. ASSUME NEW x \in Procs PROVE RecordInv(x)'
  BY DEF Inv, TypeOK, RecordInv, Unlinked, Exists, Linking, Failing, All, ExitPCs
<1>6. ASSUME NEW x \in Procs PROVE FailInv(x)'
  BY DEF Inv, TypeOK, FailInv, Failing, All
<1> QED
  BY <1>1, <1>2, <1>3, <1>4, <1>5, <1>6 DEF Inv

\* Thread_exit() leaves the exit status in the record, if there is one.
LEMMA ExitMarkStep ==
    ASSUME Inv, NEW p \in All, ExitMark(p)
    PROVE  Inv'
<1> USE ProcessAssumption DEF ExitMark, MarkRecord, HasRecord, Wild, At, Goto,
       records, history
<1>1. TypeOK'
  BY DEF Inv, TypeOK, All, PCs, ExecPCs, WaitPCs, ExitPCs
<1>2. MainInv'
  BY DEF Inv, TypeOK, MainInv, All
<1>3. ASSUME NEW x \in All PROVE ArgInv(x)'
  BY DEF Inv, TypeOK, ArgInv, ExecPCs, WaitPCs, Linked
<1>4. ASSUME NEW x \in Procs PROVE ValueInv(x)'
  BY DEF Inv, TypeOK, ValueInv, BeingLoaded, Reported, Exists, Awaiting, All
<1>5. ASSUME NEW x \in Procs PROVE RecordInv(x)'
  BY DEF Inv, TypeOK, RecordInv, Unlinked, Exists, Linking, Failing, All, ExitPCs
<1>6. ASSUME NEW x \in Procs PROVE FailInv(x)'
  BY DEF Inv, TypeOK, FailInv, Failing, All
<1> QED
  BY <1>1, <1>2, <1>3, <1>4, <1>5, <1>6 DEF Inv

\* A process that is gone has no records of children left.
LEMMA ExitEndStep ==
    ASSUME Inv, NEW p \in All, ExitEnd(p)
    PROVE  Inv'
<1> USE ProcessAssumption DEF ExitEnd, UpWaitingSema, At, Goto, records, history
<1>1. TypeOK'
  BY DEF Inv, TypeOK, MainInv, ArgInv, ValueInv, BeingLoaded, Reported, Awaiting,
         Exists, All, PCs, ExecPCs, WaitPCs, ExitPCs
<1>2. MainInv'
  BY DEF Inv, TypeOK, MainInv, All
<1>3. ASSUME NEW x \in All PROVE ArgInv(x)'
  BY DEF Inv, TypeOK, ArgInv, ExecPCs, WaitPCs, Linked
<1>4. ASSUME NEW x \in Procs PROVE ValueInv(x)'
  BY DEF Inv, TypeOK, ValueInv, BeingLoaded, Reported, Exists, Awaiting, All
<1>5. ASSUME NEW x \in Procs PROVE RecordInv(x)'
  BY DEF Inv, TypeOK, RecordInv, Unlinked, Exists, Linking, Failing, All, ExitPCs
<1>6. ASSUME NEW x \in Procs PROVE FailInv(x)'
  BY DEF Inv, TypeOK, FailInv, Failing, All
<1> QED
  BY <1>1, <1>2, <1>3, <1>4, <1>5, <1>6 DEF Inv

\* A process that exits cuts the pointers of the children it has records of.
LEMMA OrphanStep ==
    ASSUME Inv, NEW p \in All, NEW q \in Procs, Orphan(p, q)
    PROVE  Inv'
<1> USE ProcessAssumption DEF Orphan, DropRecord, At, Goto, records, history
<1>1. TypeOK'
  BY DEF Inv, TypeOK, All, PCs, ExecPCs, WaitPCs, ExitPCs
<1>2. MainInv'
  BY DEF Inv, TypeOK, MainInv, All
<1>3. ASSUME NEW x \in All PROVE ArgInv(x)'
  BY DEF Inv, TypeOK, MainInv, ArgInv, ValueInv, RecordInv, BeingLoaded, Reported,
         Unlinked, Exists, Awaiting, Linking, Linked, All, PCs, ExecPCs, WaitPCs,
         ExitPCs
<1>4. ASSUME NEW x \in Procs PROVE ValueInv(x)'
  BY DEF Inv, TypeOK, ValueInv, BeingLoaded, Reported, Exists, Awaiting, All
<1>5. ASSUME NEW x \in Procs PROVE RecordInv(x)'
  BY DEF Inv, TypeOK, RecordInv, Unlinked, Exists, Linking, Failing, All, ExitPCs
<1>6. ASSUME NEW x \in Procs PROVE FailInv(x)'
  BY DEF Inv, TypeOK, FailInv, Failing, All
<1> QED
  BY <1>1, <1>2, <1>3, <1>4, <1>5, <1>6 DEF Inv

\* A process is created once, by the process that has syscall_lock.
LEMMA ExecStep ==
    ASSUME Inv, NEW p \in All, NEW q \in Procs, Exec(p, q)
    PROVE  Inv'
<1> USE ProcessAssumption DEF Exec, At, Goto, records, history
<1>1. TypeOK'
  BY DEF Inv, TypeOK, MainInv, ArgInv, ValueInv, BeingLoaded, Reported, Awaiting,
         Exists, All, PCs, ExecPCs, WaitPCs, ExitPCs
<1>2. MainInv'
  BY DEF Inv, TypeOK, MainInv, All
<1>3. ASSUME NEW x \in All PROVE ArgInv(x)'
  BY DEF Inv, TypeOK, MainInv, ArgInv, ValueInv, RecordInv, BeingLoaded, Reported,
         Unlinked, Exists, Awaiting, Linking, Linked, All, PCs, ExecPCs, WaitPCs,
         ExitPCs
<1>4. ASSUME NEW x \in Procs PROVE ValueInv(x)'
  BY DEF Inv, TypeOK, ValueInv, BeingLoaded, Reported, Exists, Awaiting, All
<1>5. ASSUME NEW x \in Procs PROVE RecordInv(x)'
  BY DEF Inv, TypeOK, RecordInv, Unlinked, Exists, Linking, Failing, All, ExitPCs
<1>6. ASSUME NEW x \in Procs PROVE FailInv(x)'
  BY DEF Inv, TypeOK, FailInv, Failing, All
<1> QED
  BY <1>1, <1>2, <1>3, <1>4, <1>5, <1>6 DEF Inv

\* Process_wait() for a child that has died already takes its record.
LEMMA WaitStep ==
    ASSUME Inv, NEW p \in All, NEW q \in Procs, Wait(p, q)
    PROVE  Inv'
<1> USE ProcessAssumption DEF Wait, Return, DropRecord, At, Goto, records, history
<1>1. TypeOK'
  BY DEF Inv, TypeOK, All, PCs, ExecPCs, WaitPCs, ExitPCs
<1>2. MainInv'
  BY DEF Inv, TypeOK, MainInv, All
<1>3. ASSUME NEW x \in All PROVE ArgInv(x)'
  BY DEF Inv, TypeOK, ArgInv, ExecPCs, WaitPCs, Linked
<1>4. ASSUME NEW x \in Procs PROVE ValueInv(x)'
  BY DEF Inv, TypeOK, ValueInv, BeingLoaded, Reported, Exists, Awaiting, All
<1>5. ASSUME NEW x \in Procs PROVE RecordInv(x)'
  BY DEF Inv, TypeOK, RecordInv, Unlinked, Exists, Linking, Failing, All, ExitPCs
<1>6. ASSUME NEW x \in Procs PROVE FailInv(x)'
  BY DEF Inv, TypeOK, FailInv, Failing, All
<1> QED
  BY <1>1, <1>2, <1>3, <1>4, <1>5, <1>6 DEF Inv

\* An exec without memory changes nothing.
LEMMA ExecNoPageStep ==
    ASSUME Inv, NEW p \in All, ExecNoPage(p)
    PROVE  Inv'
<1> USE ProcessAssumption DEF ExecNoPage, At, Goto, records, history
<1>1. TypeOK'
  BY DEF Inv, TypeOK, All, PCs, ExecPCs, WaitPCs, ExitPCs
<1>2. MainInv'
  BY DEF Inv, TypeOK, MainInv, All
<1>3. ASSUME NEW x \in All PROVE ArgInv(x)'
  BY DEF Inv, TypeOK, ArgInv, ExecPCs, WaitPCs, Linked
<1>4. ASSUME NEW x \in Procs PROVE ValueInv(x)'
  BY DEF Inv, TypeOK, ValueInv, BeingLoaded, Reported, Exists, Awaiting, All
<1>5. ASSUME NEW x \in Procs PROVE RecordInv(x)'
  BY DEF Inv, TypeOK, RecordInv, Unlinked, Exists, Linking, Failing, All, ExitPCs
<1>6. ASSUME NEW x \in Procs PROVE FailInv(x)'
  BY DEF Inv, TypeOK, FailInv, Failing, All
<1> QED
  BY <1>1, <1>2, <1>3, <1>4, <1>5, <1>6 DEF Inv

\* Kill() leaves exit_status as it is.
LEMMA KillStep ==
    ASSUME Inv, NEW p \in All, Kill(p)
    PROVE  Inv'
<1> USE ProcessAssumption DEF Kill, At, Goto, records, history
<1>1. TypeOK'
  BY DEF Inv, TypeOK, All, PCs, ExecPCs, WaitPCs, ExitPCs
<1>2. MainInv'
  BY DEF Inv, TypeOK, MainInv, All
<1>3. ASSUME NEW x \in All PROVE ArgInv(x)'
  BY DEF Inv, TypeOK, ArgInv, ExecPCs, WaitPCs, Linked
<1>4. ASSUME NEW x \in Procs PROVE ValueInv(x)'
  BY DEF Inv, TypeOK, ValueInv, BeingLoaded, Reported, Exists, Awaiting, All
<1>5. ASSUME NEW x \in Procs PROVE RecordInv(x)'
  BY DEF Inv, TypeOK, RecordInv, Unlinked, Exists, Linking, Failing, All, ExitPCs
<1>6. ASSUME NEW x \in Procs PROVE FailInv(x)'
  BY DEF Inv, TypeOK, FailInv, Failing, All
<1> QED
  BY <1>1, <1>2, <1>3, <1>4, <1>5, <1>6 DEF Inv

\* Exit() sets the status that will be recorded.
LEMMA ExitStep ==
    ASSUME Inv, NEW p \in All, NEW s \in Statuses, Exit(p, s)
    PROVE  Inv'
<1> USE ProcessAssumption DEF Exit, At, Goto, records, history
<1>1. TypeOK'
  BY DEF Inv, TypeOK, All, PCs, ExecPCs, WaitPCs, ExitPCs
<1>2. MainInv'
  BY DEF Inv, TypeOK, MainInv, All
<1>3. ASSUME NEW x \in All PROVE ArgInv(x)'
  BY DEF Inv, TypeOK, ArgInv, ExecPCs, WaitPCs, Linked
<1>4. ASSUME NEW x \in Procs PROVE ValueInv(x)'
  BY DEF Inv, TypeOK, ValueInv, BeingLoaded, Reported, Exists, Awaiting, All
<1>5. ASSUME NEW x \in Procs PROVE RecordInv(x)'
  BY DEF Inv, TypeOK, RecordInv, Unlinked, Exists, Linking, Failing, All, ExitPCs
<1>6. ASSUME NEW x \in Procs PROVE FailInv(x)'
  BY DEF Inv, TypeOK, FailInv, Failing, All
<1> QED
  BY <1>1, <1>2, <1>3, <1>4, <1>5, <1>6 DEF Inv

-----------------------------------------------------------------------------
(* The theorems.                                                           *)

\* No step of Next breaks the invariant, and it holds when run_task() starts to wait.
LEMMA InvNext == Inv /\ [Next]_vars => Inv'
<1> SUFFICES ASSUME Inv, [Next]_vars PROVE Inv'
  OBVIOUS
<1>1. ASSUME NEW p \in All, Kernel(p) PROVE Inv'
  BY <1>1, ExecLookupStep, ExecPushStep, ExecDownStep, ExecDoneStep, LoadOKStep, LoadFailsStep,
     FailMarkStep, FailUpStep, WaitLookupStep, WaitDownStep, WaitDoneStep, ExitCheckStep,
     ExitMarkStep, ExitEndStep, OrphanStep
  DEF Kernel
<1>2. ASSUME NEW p \in All, User(p) PROVE Inv'
  BY <1>2, ExecStep, WaitStep, ExecNoPageStep, KillStep, ExitStep DEF User
<1>3. CASE UNCHANGED vars
  BY <1>3 DEF vars, Inv, TypeOK, MainInv, ArgInv, ValueInv, RecordInv, FailInv, BeingLoaded,
              Unlinked, Reported, Exists
<1> QED
  BY <1>1, <1>2, <1>3 DEF Next, Stopped

\* run_task() has started the first process and has its record.
LEMMA InvInit == Init => Inv
<1> SUFFICES ASSUME Init PROVE Inv
  OBVIOUS
<1> USE ProcessAssumption DEF Init, init_thread, All
<1>1. TypeOK
  BY DEF TypeOK, PCs, ExecPCs, WaitPCs, ExitPCs
<1>2. MainInv /\ \A p \in All : ArgInv(p)
  BY DEF MainInv, ArgInv, ExecPCs, WaitPCs, Linked
<1>3. \A q \in Procs : ValueInv(q)
  BY DEF ValueInv, BeingLoaded, Awaiting, Reported, Exists
<1>4. \A q \in Procs : RecordInv(q)
  BY DEF RecordInv, Unlinked, Linking, Failing, Exists, ExitPCs
<1>5. \A q \in Procs : FailInv(q)
  BY DEF FailInv, Failing
<1> QED
  BY <1>1, <1>2, <1>3, <1>4, <1>5 DEF Inv

\* The inductive invariant of exec, wait and exit holds in every state.
THEOREM ProcessInvariant == Spec => []Inv
BY InvInit, InvNext, PTL DEF Spec

\* process_wait() never takes the load's unit: when it gets through, the child is
\* dead, for any number of processes.
THEOREM WaitsForDeath == Spec => []WaitNotEarly
<1>1. Inv => WaitNotEarly
  BY DEF Inv, ArgInv, WaitNotEarly
<1> QED
  BY <1>1, ProcessInvariant, PTL

\* The status of a process is handed out at most once, by exec or by wait.
THEOREM StatusHandedOnce == Spec => []HandedOnce
<1>1. Inv => HandedOnce
  BY DEF Inv, RecordInv, HandedOnce
<1> QED
  BY <1>1, ProcessInvariant, PTL

\* Parents and children may exit in any order: a record of a dead process has its
\* status, and no process that has not begun to exit points to a freed parent.
THEOREM RecordsAreSound == Spec => []RecordsSound
<1>1. Inv => ExitRecorded
  <2> SUFFICES ASSUME Inv, NEW p \in All, NEW q \in children[p], pc[q] = "gone"
               PROVE  rec_status[q] = "DYING" /\ rec_exit[q] = exit_status[q]
    BY DEF ExitRecorded
  <2> QED
    BY DEF Inv, TypeOK, RecordInv
<1>2. Inv => NoDanglingParent
  <2> SUFFICES ASSUME Inv, NEW q \in Procs, Exists(q), pc[q] \notin ExitPCs,
                      parent_thread[q] \in All
               PROVE  Exists(parent_thread[q])
    BY DEF NoDanglingParent
  <2>1. q \in children[parent_thread[q]] \/ Unlinked(q)
    BY DEF Inv, RecordInv
  <2>2. parent_thread[q] = made_by[q]
    BY DEF Inv, RecordInv
  <2> QED
    BY <2>1, <2>2 DEF Inv, ArgInv, Unlinked, Linking, Exists
<1>3. Inv => RecordsSound
  BY <1>1, <1>2 DEF Inv, RecordsSound
<1> QED
  BY <1>3, ProcessInvariant, PTL

\* exec returns -1 for every program that could not be loaded, whenever the child's
\* exit and the parent's return happen.
THEOREM FailureReported == Spec => ExecReportsFailure
<1> DEFINE Reports == \A p \in All : At(p, "exec_done") /\ pc'[p] = "user" /\ arg[p] \notin loaded
                                        => ret' = -1
<1>1. Inv /\ [Next]_vars => [Reports]_vars
  <2> SUFFICES ASSUME Inv, Next, NEW p \in All, At(p, "exec_done"), pc'[p] = "user",
                      arg[p] \notin loaded
               PROVE  ret' = -1
    OBVIOUS
  <2> USE ProcessAssumption DEF At, Goto
  <2>1. arg[p] \in Procs /\ made_by[arg[p]] = p /\ arg[p] # p
    BY DEF Inv, ArgInv, ValueInv, ExecPCs
  <2>2. pc[arg[p]] \in Failing
    <3>1. CASE Exists(arg[p])
      BY <2>1, <3>1 DEF Inv, ValueInv, FailInv, BeingLoaded, Awaiting, Reported
    <3>2. CASE ~ Exists(arg[p])
      BY <2>1, <3>2 DEF Inv, ValueInv, Exists, Failing, All
    <3> QED
      BY <3>1, <3>2
  <2>3. rec_status[arg[p]] = "DYING" /\ rec_exit[arg[p]] = -1
    BY <2>1, <2>2 DEF Inv, FailInv
  <2>4. ASSUME NEW x \in All, x # p, Kernel(x) PROVE FALSE
    BY <2>4 DEF Kernel, ExecLookup, ExecPush, ExecDown, ExecDone, LoadOK, LoadFails, FailMark,
                FailUp, WaitLookup, WaitDown, WaitDone, ExitCheck, ExitMark, ExitEnd, Orphan,
                UpWaitingSema, DownWaitingSema, MarkRecord, Return, Wild, Inv, TypeOK
  <2>5. ASSUME NEW x \in All, x # p, User(x) PROVE FALSE
    BY <2>5 DEF User, Exec, Wait, ExecNoPage, Kill, Exit, Return, Inv, TypeOK, All
  <2>6. ~ User(p)
    BY DEF User, Exec, Wait, ExecNoPage, Kill, Exit
  <2>7. Kernel(p) => ExecDone(p)
    BY DEF Kernel, ExecLookup, ExecPush, ExecDown, LoadOK, LoadFails, FailMark, FailUp,
           WaitLookup, WaitDown, WaitDone, ExitCheck, ExitMark, ExitEnd, Orphan
  <2>8. ExecDone(p)
    BY <2>4, <2>5, <2>6, <2>7 DEF Next, Stopped, vars
  <2> QED
    BY <2>3, <2>8 DEF ExecDone
<1> QED
  BY <1>1, ProcessInvariant, PTL DEF Spec, ExecReportsFailure

-----------------------------------------------------------------------------
(* Module PageDir: page directories, the processor that uses them, and     *)
(* what its translation buffer remembers.                                  *)

\* Functions from a part of A to B.
Partial(A, B) == UNION {[U -> B] : U \in SUBSET A}
PteRecords == [p : BOOLEAN, page : Frames \union {0}, a : BOOLEAN, d : BOOLEAN, used : BOOLEAN, touched : BOOLEAN]
TlbRecords == [page : Frames \union {0}, d : BOOLEAN]
MmuRecords ==
    [dirs : Partial(Threads, Partial(UPages, PteRecords)), pagedir : [Threads -> Threads \union {InitDir}],
     cr3 : Threads \union {InitDir}, tlb : Partial(UPages, TlbRecords),
     running : Threads, at : [Threads -> {"user", "invalidate", "activate", "destroy"}],
     target : [Threads -> Threads \union {InitDir}]]

\* A directory is its process's own, and is there until process_exit() destroys it.
DirsInv(s) ==
    \A t \in Threads :
        /\ s.pagedir[t] \in {t, InitDir}
        /\ s.pagedir[t] = t => t \in DOMAIN s.dirs
        /\ s.at[t] \in {"activate", "destroy"} => s.pagedir[t] = InitDir
\* The processor uses the running thread's directory, but for the one that process_exit()
\* has not yet switched away from.
ActiveInv(s) ==
    /\ s.cr3 \in DOMAIN s.dirs \union {InitDir}
    /\ s.at[s.running] \in {"user", "invalidate"} => s.cr3 = s.pagedir[s.running]
    /\ s.at[s.running] = "destroy" => s.cr3 = InitDir
\* What the TLB remembers is in the table, unless the invalidation is still to come.
Stale(s) == s.at[s.running] = "invalidate" /\ s.target[s.running] = s.cr3
InTable(entry, pte) == pte.p /\ pte.a /\ entry.page = pte.page /\ (entry.d => pte.d)
TlbInv(s) ==
    /\ s.cr3 = InitDir => DOMAIN s.tlb = {}
    /\ s.cr3 # InitDir /\ ~ Stale(s) =>
          \A u \in DOMAIN s.tlb : u \in DOMAIN s.dirs[s.cr3] /\ InTable(s.tlb[u], s.dirs[s.cr3][u])
\* The bits tell what the program did to a page that is present.
BitsOf(pte) == pte.p => (pte.used => pte.d) /\ (pte.touched => pte.a)
BitsInv(s) == \A pd \in DOMAIN s.dirs : \A u \in DOMAIN s.dirs[pd] : BitsOf(s.dirs[pd][u])
MmuInv(s) == s \in MmuRecords /\ DirsInv(s) /\ ActiveInv(s) /\ TlbInv(s) /\ BitsInv(s)

\* What it is to be a function from a part of A to B.
LEMMA PartialIs ==
    ASSUME NEW A, NEW B, NEW f
    PROVE  f \in Partial(A, B) <=>
              /\ f = [x \in DOMAIN f |-> f[x]]
              /\ DOMAIN f \subseteq A
              /\ \A x \in DOMAIN f : f[x] \in B
<1>1. f \in Partial(A, B) <=> \E U \in SUBSET A : f \in [U -> B]
  BY Zenon DEF Partial
<1>2. ASSUME NEW U \in SUBSET A, f \in [U -> B]
      PROVE  f = [x \in DOMAIN f |-> f[x]] /\ DOMAIN f \subseteq A /\ \A x \in DOMAIN f : f[x] \in B
  BY <1>2
<1>3. ASSUME f = [x \in DOMAIN f |-> f[x]], \A x \in DOMAIN f : f[x] \in B
      PROVE  f \in [DOMAIN f -> B]
  BY <1>3
<1> QED BY <1>1, <1>2, <1>3

\* One value of such a function is replaced.
LEMMA PartialExcept ==
    ASSUME NEW A, NEW B, NEW f \in Partial(A, B), NEW x \in DOMAIN f, NEW y \in B,
           NEW g, g = [f EXCEPT ![x] = y]
    PROVE  /\ g \in Partial(A, B)
           /\ DOMAIN g = DOMAIN f
           /\ g[x] = y
           /\ \A v \in DOMAIN f : v # x => g[v] = f[v]
<1>1. DOMAIN f \subseteq A /\ \A v \in DOMAIN f : f[v] \in B
  BY PartialIs
<1>2. /\ g = [v \in DOMAIN g |-> g[v]]
      /\ DOMAIN g = DOMAIN f
      /\ g[x] = y
      /\ \A v \in DOMAIN f : v # x => g[v] = f[v]
  OBVIOUS
<1>3. DOMAIN g \subseteq A /\ \A v \in DOMAIN g : g[v] \in B
  BY <1>1, <1>2
<1>4. g \in Partial(A, B)
  BY <1>2, <1>3, PartialIs
<1> QED BY <1>2, <1>4

\* The function with no arguments is one of them.
LEMMA PartialEmpty ==
    ASSUME NEW A, NEW B, NEW e
    PROVE  /\ [x \in {} |-> e] \in Partial(A, B)
           /\ DOMAIN [x \in {} |-> e] = {}
<1> DEFINE g == [x \in {} |-> e]
<1>1. g = [v \in DOMAIN g |-> g[v]] /\ DOMAIN g = {}
  OBVIOUS
<1> HIDE DEF g
<1>2. g \in Partial(A, B)
  BY <1>1, PartialIs
<1> QED BY <1>1, <1>2 DEF g

\* A record with the fields of mmu, and what is known of them.
LEMMA MmuFields ==
    ASSUME NEW s \in MmuRecords
    PROVE  /\ s.dirs \in Partial(Threads, Partial(UPages, PteRecords))
           /\ s.pagedir \in [Threads -> Threads \union {InitDir}]
           /\ s.cr3 \in Threads \union {InitDir}
           /\ s.tlb \in Partial(UPages, TlbRecords)
           /\ s.running \in Threads
           /\ s.at \in [Threads -> {"user", "invalidate", "activate", "destroy"}]
           /\ s.target \in [Threads -> Threads \union {InitDir}]
           /\ DOMAIN s.dirs \subseteq Threads
           /\ \A pd \in DOMAIN s.dirs : /\ s.dirs[pd] \in Partial(UPages, PteRecords)
                                        /\ DOMAIN s.dirs[pd] \subseteq UPages
                                        /\ \A u \in DOMAIN s.dirs[pd] : s.dirs[pd][u] \in PteRecords
           /\ DOMAIN s.tlb \subseteq UPages
           /\ \A u \in DOMAIN s.tlb : s.tlb[u] \in TlbRecords
<1>1. /\ s.dirs \in Partial(Threads, Partial(UPages, PteRecords))
      /\ s.pagedir \in [Threads -> Threads \union {InitDir}]
      /\ s.cr3 \in Threads \union {InitDir}
      /\ s.tlb \in Partial(UPages, TlbRecords)
      /\ s.running \in Threads
      /\ s.at \in [Threads -> {"user", "invalidate", "activate", "destroy"}]
      /\ s.target \in [Threads -> Threads \union {InitDir}]
  BY DEF MmuRecords
<1>2. DOMAIN s.dirs \subseteq Threads /\ \A pd \in DOMAIN s.dirs : s.dirs[pd] \in Partial(UPages, PteRecords)
  BY <1>1, PartialIs
<1>3. \A pd \in DOMAIN s.dirs : DOMAIN s.dirs[pd] \subseteq UPages /\ \A u \in DOMAIN s.dirs[pd] : s.dirs[pd][u] \in PteRecords
  BY <1>2, PartialIs
<1>4. DOMAIN s.tlb \subseteq UPages /\ \A u \in DOMAIN s.tlb : s.tlb[u] \in TlbRecords
  BY <1>1, PartialIs
<1> QED BY <1>1, <1>2, <1>3, <1>4

\* From s to n, the entry of page u in directory pd becomes pte, and nothing else of the
\* directories changes.
DirChanged(s, n, pd, u, pte) ==
    /\ n.dirs \in Partial(Threads, Partial(UPages, PteRecords))
    /\ DOMAIN n.dirs = DOMAIN s.dirs
    /\ DOMAIN n.dirs[pd] = DOMAIN s.dirs[pd] \union {u}
    /\ n.dirs[pd][u] = pte
    /\ \A v \in DOMAIN s.dirs[pd] : v # u => n.dirs[pd][v] = s.dirs[pd][v]
    /\ \A x \in DOMAIN s.dirs : x # pd => n.dirs[x] = s.dirs[x]

\* A page table with one entry put in or replaced, in its directory.
LEMMA EntryReplaced ==
    ASSUME NEW s \in MmuRecords, NEW n, NEW pd \in DOMAIN s.dirs, NEW u \in UPages, NEW pte \in PteRecords,
           NEW table, n.dirs = [s.dirs EXCEPT ![pd] = table],
           \/ table = With(s.dirs[pd], u, pte)
           \/ u \in DOMAIN s.dirs[pd] /\ table = [s.dirs[pd] EXCEPT ![u] = pte]
    PROVE  DirChanged(s, n, pd, u, pte)
<1>1. PICK d : d = s.dirs
  OBVIOUS
<1>2. PICK old : old = d[pd]
  OBVIOUS
<1>3. d \in Partial(Threads, Partial(UPages, PteRecords)) /\ old \in Partial(UPages, PteRecords) /\ pd \in DOMAIN d
  BY <1>1, <1>2, MmuFields
<1>4. /\ table \in Partial(UPages, PteRecords)
      /\ DOMAIN table = DOMAIN old \union {u}
      /\ table[u] = pte
      /\ \A v \in DOMAIN old : v # u => table[v] = old[v]
  <2>1. CASE table = With(s.dirs[pd], u, pte)
    <3>1. table = With(old, u, pte)
      BY <1>1, <1>2, <2>1
    <3>2. old \in Partial(UPages, PteRecords) /\ u \in UPages /\ pte \in PteRecords
      BY <1>3
    <3>3. DOMAIN old \subseteq UPages /\ \A v \in DOMAIN old : old[v] \in PteRecords
      BY <3>2, PartialIs
    <3>4. /\ table = [v \in DOMAIN table |-> table[v]]
          /\ DOMAIN table = DOMAIN old \union {u}
          /\ table[u] = pte
          /\ \A v \in DOMAIN old : v # u => table[v] = old[v]
      BY <3>1 DEF With
    <3>5. DOMAIN table \subseteq UPages /\ \A v \in DOMAIN table : table[v] \in PteRecords
      BY <3>2, <3>3, <3>4
    <3>6. table \in Partial(UPages, PteRecords)
      BY <3>4, <3>5, PartialIs
    <3> QED BY <3>4, <3>6
  <2>2. CASE u \in DOMAIN s.dirs[pd] /\ table = [s.dirs[pd] EXCEPT ![u] = pte]
    <3>1. u \in DOMAIN old /\ table = [old EXCEPT ![u] = pte]
      BY <1>1, <1>2, <2>2
    <3>2. /\ table \in Partial(UPages, PteRecords)
          /\ DOMAIN table = DOMAIN old
          /\ table[u] = pte
          /\ \A v \in DOMAIN old : v # u => table[v] = old[v]
      BY <1>3, <3>1, PartialExcept
    <3> QED BY <3>1, <3>2
  <2> QED BY <2>1, <2>2
<1>5. PICK e : e = n.dirs
  OBVIOUS
<1>6. e = [d EXCEPT ![pd] = table]
  BY <1>1, <1>5
<1>7. /\ e \in Partial(Threads, Partial(UPages, PteRecords))
      /\ DOMAIN e = DOMAIN d
      /\ e[pd] = table
      /\ \A x \in DOMAIN d : x # pd => e[x] = d[x]
  BY <1>3, <1>4, <1>6, PartialExcept
<1>8. DOMAIN e[pd] = DOMAIN d[pd] \union {u} /\ e[pd][u] = pte
      /\ \A v \in DOMAIN d[pd] : v # u => e[pd][v] = d[pd][v]
  BY <1>2, <1>4, <1>7
<1> QED BY <1>1, <1>5, <1>7, <1>8 DEF DirChanged

\* BitsInv, if it holds of the new entry.
LEMMA BitsKept ==
    ASSUME NEW s \in MmuRecords, NEW n, NEW pd \in DOMAIN s.dirs, NEW u, NEW pte,
           BitsInv(s), DirChanged(s, n, pd, u, pte), BitsOf(pte)
    PROVE  BitsInv(n)
<1> SUFFICES ASSUME NEW x \in DOMAIN n.dirs, NEW v \in DOMAIN n.dirs[x]
             PROVE  BitsOf(n.dirs[x][v])
  BY Zenon DEF BitsInv
<1>1. CASE x = pd /\ v = u
  BY <1>1 DEF DirChanged
<1>2. CASE x = pd /\ v # u
  <2>1. v \in DOMAIN s.dirs[pd] /\ n.dirs[x][v] = s.dirs[pd][v]
    BY <1>2 DEF DirChanged
  <2> QED BY <2>1 DEF BitsInv
<1>3. CASE x # pd
  <2>1. x \in DOMAIN s.dirs /\ n.dirs[x] = s.dirs[x]
    BY <1>3 DEF DirChanged
  <2> QED BY <2>1 DEF BitsInv
<1> QED BY <1>1, <1>2, <1>3

\* A TLB entry for u is put in.
LEMMA TlbWith ==
    ASSUME NEW f \in Partial(UPages, TlbRecords), NEW x \in UPages, NEW y \in TlbRecords, NEW g, g = With(f, x, y)
    PROVE  /\ g \in Partial(UPages, TlbRecords)
           /\ DOMAIN g = DOMAIN f \union {x}
           /\ g[x] = y
           /\ \A v \in DOMAIN f : v # x => g[v] = f[v]
<1>1. DOMAIN f \subseteq UPages /\ \A v \in DOMAIN f : f[v] \in TlbRecords
  BY PartialIs
<1>2. /\ g = [v \in DOMAIN g |-> g[v]]
      /\ DOMAIN g = DOMAIN f \union {x}
      /\ g[x] = y
      /\ \A v \in DOMAIN f : v # x => g[v] = f[v]
  BY DEF With
<1>3. DOMAIN g \subseteq UPages /\ \A v \in DOMAIN g : g[v] \in TlbRecords
  BY <1>1, <1>2
<1>4. g \in Partial(UPages, TlbRecords)
  BY <1>2, <1>3, PartialIs
<1> QED BY <1>2, <1>4

\* The program reads or writes a page.
LEMMA AccessKeeps ==
    ASSUME MmuInv(mmu), PageDirAssumption, NEW u \in UPages, NEW write \in BOOLEAN, Access(u, write)
    PROVE  MmuInv(mmu')
<1> DEFINE hit == u \in DOMAIN mmu.tlb
           walk == ~ hit \/ (write /\ ~ mmu.tlb[u].d)
           old == mmu.dirs[mmu.cr3][u]
           entry == [page |-> old.page, d |-> write \/ old.d]
<1>1. mmu \in MmuRecords
  BY DEF MmuInv
<1>2. /\ mmu.at[mmu.running] = "user" /\ mmu.cr3 \in DOMAIN mmu.dirs
      /\ u \in DOMAIN mmu.dirs[mmu.cr3] /\ (hit \/ old.p)
  BY DEF Access, InKernel, Running, Dirs
<1>3. old \in PteRecords /\ mmu.cr3 \in Threads /\ mmu.cr3 # InitDir
  <2>1. old \in PteRecords /\ mmu.cr3 \in Threads
    BY <1>1, <1>2, MmuFields
  <2> QED BY <2>1 DEF PageDirAssumption
<1>4. hit \in BOOLEAN /\ walk \in BOOLEAN
  OBVIOUS
<1>5. PICK pte \in PteRecords : /\ pte = Walked(old, ~ hit, walk /\ write, write)
                                /\ pte.p = old.p /\ pte.page = old.page
                                /\ pte.a <=> (old.a \/ ~ hit)
                                /\ pte.d <=> (old.d \/ (walk /\ write))
                                /\ pte.used <=> (old.used \/ write)
  <2>1. PICK q : q = Walked(old, ~ hit, walk /\ write, write)
    OBVIOUS
  <2>2. PICK b, c, f : b = (old.a \/ ~ hit) /\ c = (old.d \/ (walk /\ write)) /\ f = (old.used \/ write)
    OBVIOUS
  <2>3. q = [old EXCEPT !.a = b, !.d = c, !.used = f, !.touched = TRUE]
    BY <2>1, <2>2, Zenon DEF Walked
  <2>4. b \in BOOLEAN /\ c \in BOOLEAN /\ f \in BOOLEAN
    BY <2>2
  <2> HIDE DEF hit, walk, old
  <2>5. q \in PteRecords /\ q.p = old.p /\ q.page = old.page /\ q.a = b /\ q.d = c /\ q.used = f
    BY <1>3, <2>3, <2>4 DEF PteRecords
  <2> QED BY <2>1, <2>2, <2>5
<1>6. PICK e : e = entry
  OBVIOUS
<1>7. e \in TlbRecords /\ e.page = old.page /\ (e.d <=> (write \/ old.d))
  <2>1. PICK b : b = (write \/ old.d)
    OBVIOUS
  <2>2. b \in BOOLEAN /\ old.page \in Frames \union {0}
    BY <1>3, <2>1 DEF PteRecords
  <2>3. e = [page |-> old.page, d |-> b]
    BY <1>6, <2>1
  <2> QED BY <2>1, <2>2, <2>3 DEF TlbRecords
<1>8. PICK tlb : tlb = IF walk THEN With(mmu.tlb, u, e) ELSE mmu.tlb
  OBVIOUS
<1>9. mmu' = [mmu EXCEPT !.dirs[mmu.cr3][u] = pte, !.tlb = tlb]
  BY <1>5, <1>6, <1>8, Zenon DEF Access
<1>10. /\ mmu'.dirs = [mmu.dirs EXCEPT ![mmu.cr3] = [mmu.dirs[mmu.cr3] EXCEPT ![u] = pte]]
       /\ mmu'.tlb = tlb /\ mmu'.cr3 = mmu.cr3 /\ mmu'.at = mmu.at /\ mmu'.running = mmu.running
       /\ mmu'.pagedir = mmu.pagedir /\ mmu'.target = mmu.target
       /\ mmu' = [dirs |-> mmu'.dirs, pagedir |-> mmu'.pagedir, cr3 |-> mmu'.cr3, tlb |-> mmu'.tlb,
                  running |-> mmu'.running, at |-> mmu'.at, target |-> mmu'.target]
  BY <1>1, <1>9 DEF MmuRecords
<1> HIDE DEF hit, walk, old, entry
<1>11. PICK n : n = mmu'
  OBVIOUS
<1>12. DirChanged(mmu, n, mmu.cr3, u, pte)
  <2>1. PICK pd, table : pd = mmu.cr3 /\ table = [mmu.dirs[pd] EXCEPT ![u] = pte]
    OBVIOUS
  <2>2. n.dirs = [mmu.dirs EXCEPT ![pd] = table]
    BY <1>10, <1>11, <2>1
  <2>3. pd \in DOMAIN mmu.dirs /\ u \in DOMAIN mmu.dirs[pd]
    BY <1>2, <2>1
  <2>4. DirChanged(mmu, n, pd, u, pte)
    BY <1>1, <2>1, <2>2, <2>3, EntryReplaced
  <2> QED BY <2>1, <2>4
<1>13. /\ tlb \in Partial(UPages, TlbRecords)
       /\ walk => /\ DOMAIN tlb = DOMAIN mmu.tlb \union {u} /\ tlb[u] = e
                  /\ \A v \in DOMAIN mmu.tlb : v # u => tlb[v] = mmu.tlb[v]
       /\ ~ walk => tlb = mmu.tlb
  <2>1. PICK t : t = mmu.tlb
    OBVIOUS
  <2>2. t \in Partial(UPages, TlbRecords)
    BY <1>1, <2>1, MmuFields
  <2>3. CASE walk
    <3>1. tlb = With(t, u, e)
      BY <1>8, <2>1, <2>3
    <3>2. /\ tlb \in Partial(UPages, TlbRecords) /\ DOMAIN tlb = DOMAIN t \union {u} /\ tlb[u] = e
          /\ \A v \in DOMAIN t : v # u => tlb[v] = t[v]
      BY <1>7, <2>2, <3>1, TlbWith
    <3> QED BY <2>1, <2>3, <3>2
  <2>4. CASE ~ walk
    BY <1>8, <2>1, <2>2, <2>4
  <2> QED BY <2>3, <2>4
<1>14. n \in MmuRecords
  <2>1. n.dirs \in Partial(Threads, Partial(UPages, PteRecords))
    BY <1>12 DEF DirChanged
  <2> QED BY <1>1, <1>10, <1>11, <1>13, <2>1 DEF MmuRecords
<1>15. DirsInv(n) /\ ActiveInv(n)
  <2>1. DOMAIN n.dirs = DOMAIN mmu.dirs
    BY <1>12 DEF DirChanged
  <2> QED BY <1>10, <1>11, <2>1 DEF MmuInv, DirsInv, ActiveInv
\* The entry of u before, if the TLB had one.
<1>16. hit => InTable(mmu.tlb[u], old)
  BY <1>2, <1>3 DEF MmuInv, TlbInv, Stale, hit, old
<1>17. pte.p /\ pte.a
  BY <1>2, <1>5, <1>16 DEF InTable
<1>18. BitsInv(n)
  <2>1. write /\ ~ walk => hit /\ mmu.tlb[u].d
    BY DEF walk
  <2>2. pte.used => pte.d
    <3>1. old.used => old.d
      BY <1>2, <1>16 DEF MmuInv, BitsInv, BitsOf, InTable, old
    <3> QED BY <1>5, <1>16, <2>1, <3>1 DEF InTable
  <2>3. BitsOf(pte)
    BY <1>17, <2>2 DEF BitsOf
  <2> QED BY <1>1, <1>2, <1>12, <2>3, BitsKept DEF MmuInv
<1>19. TlbInv(n)
  <2>1. n.cr3 = mmu.cr3 /\ n.cr3 # InitDir /\ n.tlb = tlb
    BY <1>3, <1>10, <1>11
  <2>2. ASSUME NEW v \in DOMAIN tlb
        PROVE  v \in DOMAIN n.dirs[n.cr3] /\ InTable(tlb[v], n.dirs[n.cr3][v])
    <3>1. CASE v = u
      <4>1. n.dirs[n.cr3][u] = pte /\ u \in DOMAIN n.dirs[n.cr3]
        BY <1>12, <2>1 DEF DirChanged
      <4>2. CASE walk
        <5>1. tlb[u] = e
          BY <1>13, <4>2
        <5>2. write => walk /\ write
          BY <4>2
        <5>3. InTable(e, pte)
          BY <1>5, <1>7, <1>17, <4>2 DEF InTable
        <5> QED BY <3>1, <4>1, <5>1, <5>3
      <4>3. CASE ~ walk
        <5>1. hit /\ tlb[u] = mmu.tlb[u]
          BY <1>13, <4>3 DEF walk
        <5>2. InTable(tlb[u], pte)
          BY <1>5, <1>16, <1>17, <5>1 DEF InTable
        <5> QED BY <3>1, <4>1, <5>2
      <4> QED BY <4>2, <4>3
    <3>2. CASE v # u
      <4>1. v \in DOMAIN mmu.tlb /\ tlb[v] = mmu.tlb[v]
        BY <1>13, <2>2, <3>2
      <4>2. v \in DOMAIN mmu.dirs[mmu.cr3] /\ InTable(mmu.tlb[v], mmu.dirs[mmu.cr3][v])
        BY <1>2, <1>3, <4>1 DEF MmuInv, TlbInv, Stale
      <4>3. v \in DOMAIN n.dirs[n.cr3] /\ n.dirs[n.cr3][v] = mmu.dirs[mmu.cr3][v]
        BY <1>12, <2>1, <3>2, <4>2 DEF DirChanged
      <4> QED BY <4>1, <4>2, <4>3
    <3> QED BY <3>1, <3>2
  <2> QED BY <2>1, <2>2 DEF TlbInv
<1> QED BY <1>11, <1>14, <1>15, <1>18, <1>19 DEF MmuInv

\* An entry that is there is replaced.
LEMMA EntryDirs ==
    ASSUME MmuInv(mmu), NEW pd \in DOMAIN mmu.dirs, NEW u \in DOMAIN mmu.dirs[pd], NEW pte \in PteRecords,
           NEW n, n.dirs = [mmu.dirs EXCEPT ![pd] = [mmu.dirs[pd] EXCEPT ![u] = pte]]
    PROVE  /\ DirChanged(mmu, n, pd, u, pte)
           /\ n.dirs \in Partial(Threads, Partial(UPages, PteRecords))
           /\ DOMAIN n.dirs = DOMAIN mmu.dirs
<1>1. mmu \in MmuRecords
  BY DEF MmuInv
<1>2. PICK table : table = [mmu.dirs[pd] EXCEPT ![u] = pte]
  OBVIOUS
<1>3. n.dirs = [mmu.dirs EXCEPT ![pd] = table]
  BY <1>2
<1>4. u \in UPages
  BY <1>1, MmuFields
<1>5. DirChanged(mmu, n, pd, u, pte)
  BY <1>1, <1>2, <1>3, <1>4, EntryReplaced
<1> QED BY <1>5 DEF DirChanged

\* A change that invalidate_pagedir() follows.
LEMMA ChangedKeeps ==
    ASSUME MmuInv(mmu), mmu.at[mmu.running] = "user",
           NEW pd \in DOMAIN mmu.dirs, NEW u \in DOMAIN mmu.dirs[pd], NEW pte \in PteRecords, BitsOf(pte),
           Changed(pd, u, pte)
    PROVE  MmuInv(mmu')
<1>1. mmu \in MmuRecords
  BY DEF MmuInv
<1>2. /\ mmu'.dirs = [mmu.dirs EXCEPT ![pd] = [mmu.dirs[pd] EXCEPT ![u] = pte]]
      /\ mmu'.at = [mmu.at EXCEPT ![mmu.running] = "invalidate"]
      /\ mmu'.target = [mmu.target EXCEPT ![mmu.running] = pd]
      /\ mmu'.tlb = mmu.tlb /\ mmu'.cr3 = mmu.cr3 /\ mmu'.running = mmu.running /\ mmu'.pagedir = mmu.pagedir
      /\ mmu' = [dirs |-> mmu'.dirs, pagedir |-> mmu'.pagedir, cr3 |-> mmu'.cr3, tlb |-> mmu'.tlb,
                 running |-> mmu'.running, at |-> mmu'.at, target |-> mmu'.target]
  BY <1>1 DEF Changed, Running, MmuRecords
<1>3. PICK n : n = mmu'
  OBVIOUS
<1>4. /\ DirChanged(mmu, n, pd, u, pte)
      /\ n.dirs \in Partial(Threads, Partial(UPages, PteRecords))
      /\ DOMAIN n.dirs = DOMAIN mmu.dirs
  BY <1>2, <1>3, EntryDirs
<1>5. pd \in Threads
  BY <1>1, MmuFields
<1>6. n \in MmuRecords
  BY <1>1, <1>2, <1>3, <1>4, <1>5 DEF MmuRecords
<1>7. /\ n.running = mmu.running /\ n.running \in Threads /\ n.at[n.running] = "invalidate" /\ n.target[n.running] = pd
      /\ \A t \in Threads : t # n.running => n.at[t] = mmu.at[t]
  BY <1>1, <1>2, <1>3 DEF MmuRecords
<1>8. DirsInv(n)
  BY <1>2, <1>3, <1>4, <1>7 DEF MmuInv, DirsInv
<1>9. ActiveInv(n)
  BY <1>2, <1>3, <1>4, <1>7 DEF MmuInv, ActiveInv
<1>10. TlbInv(n)
  <2>1. n.cr3 = mmu.cr3 /\ n.tlb = mmu.tlb
    BY <1>2, <1>3
  <2>2. ASSUME n.cr3 # InitDir, ~ Stale(n), NEW v \in DOMAIN n.tlb
        PROVE  v \in DOMAIN n.dirs[n.cr3] /\ InTable(n.tlb[v], n.dirs[n.cr3][v])
    <3>1. mmu.cr3 # pd /\ mmu.cr3 \in DOMAIN mmu.dirs
      BY <1>7, <2>1, <2>2 DEF Stale, MmuInv, ActiveInv
    <3>2. n.dirs[n.cr3] = mmu.dirs[mmu.cr3]
      BY <1>4, <2>1, <3>1 DEF DirChanged
    <3> QED BY <2>1, <2>2, <3>2 DEF MmuInv, TlbInv, Stale
  <2> QED BY <2>1, <2>2 DEF TlbInv, MmuInv
<1>11. BitsInv(n)
  BY <1>1, <1>4, BitsKept DEF MmuInv
<1> QED BY <1>3, <1>6, <1>8, <1>9, <1>10, <1>11 DEF MmuInv

\* A bit that is set needs no invalidation.
LEMMA SetKeeps ==
    ASSUME MmuInv(mmu), NEW pd \in DOMAIN mmu.dirs, NEW u \in DOMAIN mmu.dirs[pd],
           NEW pte \in PteRecords, BitsOf(pte),
           \A entry : InTable(entry, mmu.dirs[pd][u]) => InTable(entry, pte),
           mmu' = [mmu EXCEPT !.dirs[pd][u] = pte]
    PROVE  MmuInv(mmu')
<1>1. mmu \in MmuRecords
  BY DEF MmuInv
<1>2. /\ mmu'.dirs = [mmu.dirs EXCEPT ![pd] = [mmu.dirs[pd] EXCEPT ![u] = pte]]
      /\ mmu'.at = mmu.at /\ mmu'.target = mmu.target
      /\ mmu'.tlb = mmu.tlb /\ mmu'.cr3 = mmu.cr3 /\ mmu'.running = mmu.running /\ mmu'.pagedir = mmu.pagedir
      /\ mmu' = [dirs |-> mmu'.dirs, pagedir |-> mmu'.pagedir, cr3 |-> mmu'.cr3, tlb |-> mmu'.tlb,
                 running |-> mmu'.running, at |-> mmu'.at, target |-> mmu'.target]
  BY <1>1 DEF MmuRecords
<1>3. PICK n : n = mmu'
  OBVIOUS
<1>4. /\ DirChanged(mmu, n, pd, u, pte)
      /\ n.dirs \in Partial(Threads, Partial(UPages, PteRecords))
      /\ DOMAIN n.dirs = DOMAIN mmu.dirs
  BY <1>2, <1>3, EntryDirs
<1>6. n \in MmuRecords
  BY <1>1, <1>2, <1>3, <1>4 DEF MmuRecords
<1>8. DirsInv(n) /\ ActiveInv(n)
  BY <1>2, <1>3, <1>4 DEF MmuInv, DirsInv, ActiveInv
<1>10. TlbInv(n)
  <2>1. n.cr3 = mmu.cr3 /\ n.tlb = mmu.tlb /\ (Stale(n) <=> Stale(mmu))
    BY <1>2, <1>3 DEF Stale
  <2>2. ASSUME n.cr3 # InitDir, ~ Stale(n), NEW v \in DOMAIN n.tlb
        PROVE  v \in DOMAIN n.dirs[n.cr3] /\ InTable(n.tlb[v], n.dirs[n.cr3][v])
    <3>1. v \in DOMAIN mmu.dirs[mmu.cr3] /\ InTable(n.tlb[v], mmu.dirs[mmu.cr3][v]) /\ mmu.cr3 \in DOMAIN mmu.dirs
      BY <2>1, <2>2 DEF MmuInv, TlbInv, ActiveInv
    <3>2. CASE mmu.cr3 = pd /\ v = u
      BY <1>4, <2>1, <3>1, <3>2 DEF DirChanged
    <3>3. CASE mmu.cr3 = pd /\ v # u
      <4>1. v \in DOMAIN n.dirs[pd] /\ n.dirs[pd][v] = mmu.dirs[pd][v]
        BY <1>4, <3>1, <3>3 DEF DirChanged
      <4> QED BY <2>1, <3>1, <3>3, <4>1
    <3>4. CASE mmu.cr3 # pd
      <4>1. n.dirs[n.cr3] = mmu.dirs[mmu.cr3]
        BY <1>4, <2>1, <3>1, <3>4 DEF DirChanged
      <4> QED BY <3>1, <4>1
    <3> QED BY <3>2, <3>3, <3>4
  <2> QED BY <2>1, <2>2 DEF TlbInv, MmuInv
<1>11. BitsInv(n)
  BY <1>1, <1>4, BitsKept DEF MmuInv
<1> QED BY <1>3, <1>6, <1>8, <1>10, <1>11 DEF MmuInv

\* pagedir_clear_page(), pagedir_set_dirty() and pagedir_set_accessed(), up to the
\* invalidation.
LEMMA ChangeKeeps ==
    ASSUME MmuInv(mmu), PageDirAssumption, Change
    PROVE  MmuInv(mmu')
<1>1. mmu \in MmuRecords
  BY DEF MmuInv
<1>2. mmu.at[mmu.running] = "user"
  BY DEF Change, InKernel, Running
<1>3. PICK t \in Threads, u \in UPages :
          LET pd == mmu.pagedir[t] IN
          /\ pd # InitDir
          /\ \/ pagedir_clear_page(pd, u)
             \/ \E b \in BOOLEAN : pagedir_set_dirty(pd, u, b) \/ pagedir_set_accessed(pd, u, b)
  BY Zenon DEF Change
<1>4. PICK pd : pd = mmu.pagedir[t]
  OBVIOUS
<1>5. pd \in DOMAIN mmu.dirs
  BY <1>3, <1>4 DEF MmuInv, DirsInv
<1>6. PICK old : old = mmu.dirs[pd][u]
  OBVIOUS
<1>7. ASSUME u \in DOMAIN mmu.dirs[pd]
      PROVE  old \in PteRecords /\ BitsOf(old)
  <2>1. old \in PteRecords
    BY <1>1, <1>5, <1>6, <1>7, MmuFields
  <2>2. BitsOf(old)
    BY <1>5, <1>6, <1>7 DEF MmuInv, BitsInv
  <2> QED BY <2>1, <2>2
<1>8. CASE pagedir_clear_page(pd, u)
  <2>1. u \in DOMAIN mmu.dirs[pd]
    BY <1>8 DEF pagedir_clear_page, Present, lookup_page
  <2>2. PICK pte : pte = [old EXCEPT !.p = FALSE]
    OBVIOUS
  <2>3. pte \in PteRecords /\ ~ pte.p
    BY <1>7, <2>1, <2>2 DEF PteRecords
  <2>4. Changed(pd, u, pte)
    BY <1>6, <1>8, <2>2 DEF pagedir_clear_page
  <2>5. BitsOf(pte)
    BY <2>3 DEF BitsOf
  <2> QED BY <1>2, <1>5, <2>1, <2>3, <2>4, <2>5, ChangedKeeps
<1>9. ASSUME NEW b \in BOOLEAN, pagedir_set_dirty(pd, u, b)
      PROVE  MmuInv(mmu')
  <2>1. /\ u \in DOMAIN mmu.dirs[pd]
        /\ IF b THEN mmu' = [mmu EXCEPT !.dirs[pd][u].d = TRUE]
           ELSE Changed(pd, u, [old EXCEPT !.d = FALSE, !.used = FALSE])
    BY <1>6, <1>9 DEF pagedir_set_dirty, lookup_page
  <2>2. CASE b
    <3>1. PICK pte : pte = [old EXCEPT !.d = TRUE]
      OBVIOUS
    <3>2. pte \in PteRecords /\ pte.p = old.p /\ pte.page = old.page /\ pte.a = old.a /\ pte.d = TRUE
          /\ pte.used = old.used /\ pte.touched = old.touched
      BY <1>7, <2>1, <3>1 DEF PteRecords
    <3>3. mmu' = [mmu EXCEPT !.dirs[pd][u] = pte]
      BY <1>6, <2>1, <2>2, <3>1
    <3>4. BitsOf(pte)
      BY <1>7, <2>1, <3>2 DEF BitsOf
    <3>5. \A entry : InTable(entry, mmu.dirs[pd][u]) => InTable(entry, pte)
      BY <1>6, <3>2 DEF InTable
    <3> QED BY <1>5, <2>1, <3>2, <3>3, <3>4, <3>5, SetKeeps
  <2>3. CASE ~ b
    <3>1. PICK pte : pte = [old EXCEPT !.d = FALSE, !.used = FALSE]
      OBVIOUS
    <3>2. pte \in PteRecords /\ pte.p = old.p /\ pte.a = old.a /\ pte.used = FALSE /\ pte.touched = old.touched
      BY <1>7, <2>1, <3>1 DEF PteRecords
    <3>3. Changed(pd, u, pte)
      BY <2>1, <2>3, <3>1
    <3>4. BitsOf(pte)
      BY <1>7, <2>1, <3>2 DEF BitsOf
    <3> QED BY <1>2, <1>5, <2>1, <3>2, <3>3, <3>4, ChangedKeeps
  <2> QED BY <2>2, <2>3
<1>10. ASSUME NEW b \in BOOLEAN, pagedir_set_accessed(pd, u, b)
       PROVE  MmuInv(mmu')
  <2>1. /\ u \in DOMAIN mmu.dirs[pd]
        /\ IF b THEN mmu' = [mmu EXCEPT !.dirs[pd][u].a = TRUE]
           ELSE Changed(pd, u, [old EXCEPT !.a = FALSE, !.touched = FALSE])
    BY <1>6, <1>10 DEF pagedir_set_accessed, lookup_page
  <2>2. CASE b
    <3>1. PICK pte : pte = [old EXCEPT !.a = TRUE]
      OBVIOUS
    <3>2. pte \in PteRecords /\ pte.p = old.p /\ pte.page = old.page /\ pte.a = TRUE /\ pte.d = old.d
          /\ pte.used = old.used /\ pte.touched = old.touched
      BY <1>7, <2>1, <3>1 DEF PteRecords
    <3>3. mmu' = [mmu EXCEPT !.dirs[pd][u] = pte]
      BY <1>6, <2>1, <2>2, <3>1
    <3>4. BitsOf(pte)
      BY <1>7, <2>1, <3>2 DEF BitsOf
    <3>5. \A entry : InTable(entry, mmu.dirs[pd][u]) => InTable(entry, pte)
      BY <1>6, <3>2 DEF InTable
    <3> QED BY <1>5, <2>1, <3>2, <3>3, <3>4, <3>5, SetKeeps
  <2>3. CASE ~ b
    <3>1. PICK pte : pte = [old EXCEPT !.a = FALSE, !.touched = FALSE]
      OBVIOUS
    <3>2. pte \in PteRecords /\ pte.p = old.p /\ pte.d = old.d /\ pte.used = old.used /\ pte.touched = FALSE
      BY <1>7, <2>1, <3>1 DEF PteRecords
    <3>3. Changed(pd, u, pte)
      BY <2>1, <2>3, <3>1
    <3>4. BitsOf(pte)
      BY <1>7, <2>1, <3>2 DEF BitsOf
    <3> QED BY <1>2, <1>5, <2>1, <3>2, <3>3, <3>4, ChangedKeeps
  <2> QED BY <2>2, <2>3
<1> QED BY <1>3, <1>4, <1>8, <1>9, <1>10

\* pagedir_create() and the process_activate() in load().
LEMMA CreateKeeps ==
    ASSUME MmuInv(mmu), PageDirAssumption, pagedir_create
    PROVE  MmuInv(mmu')
<1>1. mmu \in MmuRecords
  BY DEF MmuInv
<1>2. PICK t, empty, none : t = mmu.running /\ empty = [u \in {} |-> Zero] /\ none = NoTlb
  OBVIOUS
<1>3. empty \in Partial(UPages, PteRecords) /\ DOMAIN empty = {} /\ none \in Partial(UPages, TlbRecords) /\ DOMAIN none = {}
  BY <1>2, PartialEmpty DEF NoTlb
<1>4. t \in Threads /\ mmu.at[t] = "user" /\ t \notin DOMAIN mmu.dirs /\ t # InitDir
  BY <1>1, <1>2, MmuFields DEF pagedir_create, InKernel, Running, Dirs, PageDirAssumption
<1>5. PICK d : d = With(mmu.dirs, t, empty)
  OBVIOUS
<1>6. mmu' = [mmu EXCEPT !.pagedir[t] = t, !.cr3 = t, !.tlb = none, !.dirs = d]
  BY <1>2, <1>5, Zenon DEF pagedir_create, Running
<1>7. /\ mmu'.dirs = d /\ mmu'.at = mmu.at /\ mmu'.target = mmu.target
      /\ mmu'.tlb = none /\ mmu'.cr3 = t /\ mmu'.running = t
      /\ mmu'.pagedir = [mmu.pagedir EXCEPT ![t] = t]
      /\ mmu' = [dirs |-> mmu'.dirs, pagedir |-> mmu'.pagedir, cr3 |-> mmu'.cr3, tlb |-> mmu'.tlb,
                 running |-> mmu'.running, at |-> mmu'.at, target |-> mmu'.target]
  BY <1>1, <1>2, <1>6 DEF MmuRecords
<1>8. /\ d \in Partial(Threads, Partial(UPages, PteRecords))
      /\ DOMAIN d = DOMAIN mmu.dirs \union {t} /\ d[t] = empty
      /\ \A x \in DOMAIN mmu.dirs : d[x] = mmu.dirs[x]
  <2>1. DOMAIN mmu.dirs \subseteq Threads /\ \A x \in DOMAIN mmu.dirs : mmu.dirs[x] \in Partial(UPages, PteRecords)
    BY <1>1, MmuFields
  <2>2. /\ d = [v \in DOMAIN d |-> d[v]]
        /\ DOMAIN d = DOMAIN mmu.dirs \union {t}
        /\ d[t] = empty
        /\ \A x \in DOMAIN mmu.dirs : x # t => d[x] = mmu.dirs[x]
    BY <1>5 DEF With
  <2>3. DOMAIN d \subseteq Threads /\ \A x \in DOMAIN d : d[x] \in Partial(UPages, PteRecords)
    BY <1>3, <1>4, <2>1, <2>2
  <2>4. d \in Partial(Threads, Partial(UPages, PteRecords))
    BY <2>2, <2>3, PartialIs
  <2> QED BY <1>4, <2>2, <2>4
<1>9. PICK n : n = mmu'
  OBVIOUS
<1>10. n \in MmuRecords
  BY <1>1, <1>3, <1>4, <1>7, <1>8, <1>9 DEF MmuRecords
<1>11. n.pagedir[t] = t /\ \A x \in Threads : x # t => n.pagedir[x] = mmu.pagedir[x]
  BY <1>1, <1>4, <1>7, <1>9 DEF MmuRecords
<1>12. DirsInv(n)
  BY <1>4, <1>7, <1>8, <1>9, <1>11 DEF MmuInv, DirsInv
<1>13. ActiveInv(n)
  BY <1>4, <1>7, <1>8, <1>9, <1>11 DEF ActiveInv
<1>14. TlbInv(n)
  BY <1>3, <1>7, <1>9 DEF TlbInv
<1>15. BitsInv(n)
  <2> SUFFICES ASSUME NEW x \in DOMAIN d, NEW v \in DOMAIN d[x] PROVE BitsOf(d[x][v])
    BY <1>7, <1>9 DEF BitsInv
  <2>1. x # t /\ x \in DOMAIN mmu.dirs /\ d[x] = mmu.dirs[x]
    BY <1>3, <1>8
  <2> QED BY <2>1 DEF MmuInv, BitsInv
<1> QED BY <1>9, <1>10, <1>12, <1>13, <1>14, <1>15 DEF MmuInv

\* pagedir_set_page(): the TLB cannot remember a page that was not present.
LEMMA SetPageKeeps ==
    ASSUME MmuInv(mmu), PageDirAssumption, NEW u \in UPages, NEW k \in Frames, pagedir_set_page(u, k)
    PROVE  MmuInv(mmu')
<1>1. mmu \in MmuRecords
  BY DEF MmuInv
<1>2. PICK pd, pte : pd = mmu.pagedir[mmu.running] /\ pte = pte_create_user(k)
  OBVIOUS
<1>3. pte \in PteRecords /\ ~ pte.used /\ ~ pte.touched
  BY <1>2 DEF pte_create_user, Zero, PteRecords
<1>4. /\ mmu.at[mmu.running] = "user" /\ pd # InitDir /\ ~ Present(pd, u)
      /\ mmu' = [mmu EXCEPT !.dirs[pd] = With(mmu.dirs[pd], u, pte)]
  BY <1>2, Zenon DEF pagedir_set_page, InKernel, Running
<1>5. pd \in DOMAIN mmu.dirs /\ mmu.cr3 = pd
  BY <1>1, <1>2, <1>4, MmuFields DEF MmuInv, DirsInv, ActiveInv
<1>6. PICK table : table = With(mmu.dirs[pd], u, pte)
  OBVIOUS
<1>7. /\ mmu'.dirs = [mmu.dirs EXCEPT ![pd] = table]
      /\ mmu'.at = mmu.at /\ mmu'.target = mmu.target
      /\ mmu'.tlb = mmu.tlb /\ mmu'.cr3 = mmu.cr3 /\ mmu'.running = mmu.running /\ mmu'.pagedir = mmu.pagedir
      /\ mmu' = [dirs |-> mmu'.dirs, pagedir |-> mmu'.pagedir, cr3 |-> mmu'.cr3, tlb |-> mmu'.tlb,
                 running |-> mmu'.running, at |-> mmu'.at, target |-> mmu'.target]
  BY <1>1, <1>4, <1>6 DEF MmuRecords
<1>8. PICK n : n = mmu'
  OBVIOUS
<1>9. DirChanged(mmu, n, pd, u, pte)
  BY <1>1, <1>3, <1>5, <1>6, <1>7, <1>8, EntryReplaced
<1>10. n \in MmuRecords
  <2>1. n.dirs \in Partial(Threads, Partial(UPages, PteRecords))
    BY <1>9 DEF DirChanged
  <2> QED BY <1>1, <1>7, <1>8, <2>1 DEF MmuRecords
<1>11. DirsInv(n) /\ ActiveInv(n)
  <2>1. DOMAIN n.dirs = DOMAIN mmu.dirs
    BY <1>9 DEF DirChanged
  <2> QED BY <1>7, <1>8, <2>1 DEF MmuInv, DirsInv, ActiveInv
<1>12. TlbInv(n)
  <2>1. n.cr3 = pd /\ n.tlb = mmu.tlb
    BY <1>5, <1>7, <1>8
  <2>2. ASSUME NEW v \in DOMAIN mmu.tlb
        PROVE  v \in DOMAIN n.dirs[pd] /\ InTable(mmu.tlb[v], n.dirs[pd][v])
    <3>1. v \in DOMAIN mmu.dirs[pd] /\ InTable(mmu.tlb[v], mmu.dirs[pd][v])
      BY <1>4, <1>5, <2>2 DEF MmuInv, TlbInv, Stale
    <3>2. v # u
      BY <1>4, <3>1 DEF Present, lookup_page, InTable
    <3>3. v \in DOMAIN n.dirs[pd] /\ n.dirs[pd][v] = mmu.dirs[pd][v]
      BY <1>9, <3>1, <3>2 DEF DirChanged
    <3> QED BY <3>1, <3>3
  <2> QED BY <1>4, <2>1, <2>2 DEF TlbInv
<1>13. BitsInv(n)
  <2>1. BitsOf(pte)
    BY <1>3 DEF BitsOf
  <2> QED BY <1>1, <1>5, <1>9, <2>1, BitsKept DEF MmuInv
<1> QED BY <1>8, <1>10, <1>11, <1>12, <1>13 DEF MmuInv

\* invalidate_pagedir().
LEMMA InvalidateKeeps ==
    ASSUME MmuInv(mmu), PageDirAssumption, invalidate_pagedir
    PROVE  MmuInv(mmu')
<1>1. mmu \in MmuRecords
  BY DEF MmuInv
<1>2. PICK t, pd, none : t = mmu.running /\ pd = mmu.target[t] /\ none = NoTlb
  OBVIOUS
<1>3. none \in Partial(UPages, TlbRecords) /\ DOMAIN none = {}
  BY <1>2, PartialEmpty DEF NoTlb
<1>4. PICK tlb : tlb = IF mmu.cr3 = pd THEN none ELSE mmu.tlb
  OBVIOUS
<1>5. /\ mmu.at[t] = "invalidate" /\ t \in Threads
      /\ mmu'.dirs = mmu.dirs /\ mmu'.pagedir = mmu.pagedir /\ mmu'.running = t /\ mmu'.cr3 = mmu.cr3
      /\ mmu'.tlb = tlb
      /\ mmu'.at = [mmu.at EXCEPT ![t] = "user"] /\ mmu'.target = [mmu.target EXCEPT ![t] = InitDir]
      /\ mmu' = [dirs |-> mmu'.dirs, pagedir |-> mmu'.pagedir, cr3 |-> mmu'.cr3, tlb |-> mmu'.tlb,
                 running |-> mmu'.running, at |-> mmu'.at, target |-> mmu'.target]
  <2>1. mmu.at[t] = "invalidate" /\ t \in Threads
    BY <1>1, <1>2, MmuFields DEF invalidate_pagedir, Running
  <2>2. CASE mmu.cr3 = pd
    <3>1. PICK act : act = [mmu EXCEPT !.cr3 = pd, !.tlb = none]
      OBVIOUS
    <3>2. mmu' = [act EXCEPT !.at[t] = "user", !.target[t] = InitDir]
      BY <1>2, <2>2, <3>1, Zenon DEF invalidate_pagedir, Running, active_pd, pagedir_activate
    <3>3. act = [mmu EXCEPT !.tlb = none]
      BY <1>1, <2>2, <3>1 DEF MmuRecords
    <3>4. tlb = none
      BY <1>4, <2>2
    <3> QED BY <1>1, <1>2, <2>1, <3>2, <3>3, <3>4 DEF MmuRecords
  <2>3. CASE mmu.cr3 # pd
    <3>1. mmu' = [mmu EXCEPT !.at[t] = "user", !.target[t] = InitDir]
      BY <1>2, <2>3, Zenon DEF invalidate_pagedir, Running, active_pd
    <3>2. tlb = mmu.tlb
      BY <1>4, <2>3
    <3> QED BY <1>1, <1>2, <2>1, <3>1, <3>2 DEF MmuRecords
  <2> QED BY <2>2, <2>3
<1>6. PICK n : n = mmu'
  OBVIOUS
<1>7. n \in MmuRecords
  BY <1>1, <1>3, <1>4, <1>5, <1>6 DEF MmuRecords
<1>8. n.at[t] = "user" /\ \A x \in Threads : x # t => n.at[x] = mmu.at[x]
  BY <1>1, <1>5, <1>6 DEF MmuRecords
<1>9. DirsInv(n)
  BY <1>5, <1>6, <1>8 DEF MmuInv, DirsInv
<1>10. ActiveInv(n)
  BY <1>2, <1>5, <1>6, <1>8 DEF MmuInv, ActiveInv
<1>11. TlbInv(n)
  <2>1. n.cr3 = mmu.cr3 /\ n.dirs = mmu.dirs /\ n.tlb = tlb
    BY <1>5, <1>6
  <2>2. CASE mmu.cr3 = pd
    <3>1. DOMAIN tlb = {}
      BY <1>3, <1>4, <2>2
    <3> QED BY <2>1, <3>1 DEF TlbInv
  <2>3. CASE mmu.cr3 # pd
    <3>1. tlb = mmu.tlb /\ ~ Stale(mmu)
      BY <1>2, <1>4, <2>3 DEF Stale
    <3> QED BY <2>1, <3>1 DEF MmuInv, TlbInv
  <2> QED BY <2>2, <2>3
<1>12. BitsInv(n)
  BY <1>5, <1>6 DEF MmuInv, BitsInv
<1> QED BY <1>6, <1>7, <1>9, <1>10, <1>11, <1>12 DEF MmuInv

\* process_activate(), on a context switch.
LEMMA ActivateKeeps ==
    ASSUME MmuInv(mmu), PageDirAssumption, NEW t \in Threads, process_activate(t)
    PROVE  MmuInv(mmu')
<1>1. mmu \in MmuRecords
  BY DEF MmuInv
<1>2. PICK pd, none : pd = mmu.pagedir[t] /\ none = NoTlb
  OBVIOUS
<1>3. none \in Partial(UPages, TlbRecords) /\ DOMAIN none = {}
  BY <1>2, PartialEmpty DEF NoTlb
<1>4. mmu' = [[mmu EXCEPT !.cr3 = pd, !.tlb = none] EXCEPT !.running = t]
  BY <1>2, Zenon DEF process_activate, pagedir_activate
<1>5. /\ mmu'.dirs = mmu.dirs /\ mmu'.pagedir = mmu.pagedir /\ mmu'.running = t /\ mmu'.cr3 = pd
      /\ mmu'.tlb = none /\ mmu'.at = mmu.at /\ mmu'.target = mmu.target
      /\ mmu' = [dirs |-> mmu'.dirs, pagedir |-> mmu'.pagedir, cr3 |-> mmu'.cr3, tlb |-> mmu'.tlb,
                 running |-> mmu'.running, at |-> mmu'.at, target |-> mmu'.target]
  BY <1>1, <1>4 DEF MmuRecords
<1>6. pd \in {t, InitDir} /\ (pd = t => t \in DOMAIN mmu.dirs) /\ (mmu.at[t] = "destroy" => pd = InitDir)
  BY <1>2 DEF MmuInv, DirsInv
<1>7. PICK n : n = mmu'
  OBVIOUS
<1>8. n \in MmuRecords
  BY <1>1, <1>3, <1>5, <1>6, <1>7 DEF MmuRecords
<1>9. DirsInv(n) /\ BitsInv(n)
  BY <1>5, <1>7 DEF MmuInv, DirsInv, BitsInv
<1>10. ActiveInv(n)
  BY <1>2, <1>5, <1>6, <1>7 DEF ActiveInv
<1>11. TlbInv(n)
  BY <1>3, <1>5, <1>7 DEF TlbInv
<1> QED BY <1>7, <1>8, <1>9, <1>10, <1>11 DEF MmuInv

\* process_exit(), up to the destruction of the directory.
LEMMA DirectoryExitKeeps ==
    ASSUME MmuInv(mmu), PageDirAssumption, process_exit
    PROVE  MmuInv(mmu')
<1>1. mmu \in MmuRecords
  BY DEF MmuInv
<1>2. PICK t, none : t = mmu.running /\ none = NoTlb
  OBVIOUS
<1>3. none \in Partial(UPages, TlbRecords) /\ DOMAIN none = {} /\ t \in Threads
  BY <1>1, <1>2, PartialEmpty, MmuFields DEF NoTlb
<1>4. PICK n : n = mmu'
  OBVIOUS
<1>5. CASE /\ mmu.at[t] = "user"
           /\ mmu' = [mmu EXCEPT !.pagedir[t] = InitDir, !.at[t] = "activate"]
  <2>1. /\ mmu'.dirs = mmu.dirs /\ mmu'.running = t /\ mmu'.cr3 = mmu.cr3 /\ mmu'.tlb = mmu.tlb
        /\ mmu'.target = mmu.target
        /\ mmu'.pagedir = [mmu.pagedir EXCEPT ![t] = InitDir] /\ mmu'.at = [mmu.at EXCEPT ![t] = "activate"]
        /\ mmu' = [dirs |-> mmu'.dirs, pagedir |-> mmu'.pagedir, cr3 |-> mmu'.cr3, tlb |-> mmu'.tlb,
                 running |-> mmu'.running, at |-> mmu'.at, target |-> mmu'.target]
    BY <1>1, <1>2, <1>5 DEF MmuRecords
  <2>2. n \in MmuRecords
    BY <1>1, <1>3, <1>4, <2>1 DEF MmuRecords
  <2>3. /\ n.at[t] = "activate" /\ n.pagedir[t] = InitDir
        /\ \A x \in Threads : x # t => n.at[x] = mmu.at[x] /\ n.pagedir[x] = mmu.pagedir[x]
    BY <1>1, <1>3, <1>4, <2>1 DEF MmuRecords
  <2>4. DirsInv(n)
    BY <1>3, <1>4, <2>1, <2>3 DEF MmuInv, DirsInv, PageDirAssumption
  <2>5. ActiveInv(n)
    BY <1>4, <2>1, <2>3 DEF MmuInv, ActiveInv
  <2>6. ~ Stale(mmu)
    BY <1>2, <1>5 DEF Stale
  <2>7. TlbInv(n)
    BY <1>4, <2>1, <2>6 DEF MmuInv, TlbInv
  <2>8. BitsInv(n)
    BY <1>4, <2>1 DEF MmuInv, BitsInv
  <2> QED BY <1>4, <2>2, <2>4, <2>5, <2>7, <2>8 DEF MmuInv
<1>6. CASE /\ mmu.at[t] = "activate"
           /\ mmu' = [[mmu EXCEPT !.cr3 = InitDir, !.tlb = none] EXCEPT !.at[t] = "destroy"]
  <2>1. /\ mmu'.dirs = mmu.dirs /\ mmu'.running = t /\ mmu'.cr3 = InitDir /\ mmu'.tlb = none
        /\ mmu'.target = mmu.target /\ mmu'.pagedir = mmu.pagedir /\ mmu'.at = [mmu.at EXCEPT ![t] = "destroy"]
        /\ mmu' = [dirs |-> mmu'.dirs, pagedir |-> mmu'.pagedir, cr3 |-> mmu'.cr3, tlb |-> mmu'.tlb,
                 running |-> mmu'.running, at |-> mmu'.at, target |-> mmu'.target]
    BY <1>1, <1>2, <1>6 DEF MmuRecords
  <2>2. n \in MmuRecords
    BY <1>1, <1>3, <1>4, <2>1 DEF MmuRecords
  <2>3. n.at[t] = "destroy" /\ \A x \in Threads : x # t => n.at[x] = mmu.at[x]
    BY <1>1, <1>3, <1>4, <2>1 DEF MmuRecords
  <2>4. DirsInv(n)
    BY <1>3, <1>4, <1>6, <2>1, <2>3 DEF MmuInv, DirsInv
  <2>5. ActiveInv(n)
    BY <1>4, <2>1, <2>3 DEF ActiveInv
  <2>6. TlbInv(n)
    BY <1>3, <1>4, <2>1 DEF TlbInv
  <2>7. BitsInv(n)
    BY <1>4, <2>1 DEF MmuInv, BitsInv
  <2> QED BY <1>4, <2>2, <2>4, <2>5, <2>6, <2>7 DEF MmuInv
<1> QED BY <1>2, <1>5, <1>6, Zenon DEF process_exit, Running, pagedir_activate

\* pagedir_destroy(), of a directory that the processor no longer uses.
LEMMA DestroyKeeps ==
    ASSUME MmuInv(mmu), PageDirAssumption, pagedir_destroy
    PROVE  MmuInv(mmu')
<1>1. mmu \in MmuRecords
  BY DEF MmuInv
<1>2. PICK t, d : t = mmu.running /\ d = [x \in DOMAIN mmu.dirs \ {t} |-> mmu.dirs[x]]
  OBVIOUS
<1>3. mmu.at[t] = "destroy" /\ mmu' = [mmu EXCEPT !.at[t] = "user", !.dirs = d] /\ t \in Threads
  BY <1>1, <1>2, MmuFields DEF pagedir_destroy, Running, Dirs
<1>4. /\ mmu'.dirs = d /\ mmu'.running = t /\ mmu'.cr3 = mmu.cr3 /\ mmu'.tlb = mmu.tlb
      /\ mmu'.target = mmu.target /\ mmu'.pagedir = mmu.pagedir /\ mmu'.at = [mmu.at EXCEPT ![t] = "user"]
      /\ mmu' = [dirs |-> mmu'.dirs, pagedir |-> mmu'.pagedir, cr3 |-> mmu'.cr3, tlb |-> mmu'.tlb,
                 running |-> mmu'.running, at |-> mmu'.at, target |-> mmu'.target]
  BY <1>1, <1>2, <1>3 DEF MmuRecords
<1>5. /\ d = [x \in DOMAIN d |-> d[x]] /\ DOMAIN d = DOMAIN mmu.dirs \ {t}
      /\ \A x \in DOMAIN d : d[x] = mmu.dirs[x]
  BY <1>2
<1>6. d \in Partial(Threads, Partial(UPages, PteRecords))
  <2>1. DOMAIN mmu.dirs \subseteq Threads /\ \A x \in DOMAIN mmu.dirs : mmu.dirs[x] \in Partial(UPages, PteRecords)
    BY <1>1, MmuFields
  <2>2. DOMAIN d \subseteq Threads /\ \A x \in DOMAIN d : d[x] \in Partial(UPages, PteRecords)
    BY <1>5, <2>1
  <2> QED BY <1>5, <2>2, PartialIs
<1>7. PICK n : n = mmu'
  OBVIOUS
<1>8. n \in MmuRecords
  BY <1>1, <1>3, <1>4, <1>6, <1>7 DEF MmuRecords
<1>9. n.at[t] = "user" /\ \A x \in Threads : x # t => n.at[x] = mmu.at[x]
  BY <1>1, <1>3, <1>4, <1>7 DEF MmuRecords
<1>10. mmu.pagedir[t] = InitDir /\ mmu.cr3 = InitDir
  BY <1>2, <1>3 DEF MmuInv, DirsInv, ActiveInv
<1>11. DirsInv(n)
  BY <1>3, <1>4, <1>5, <1>7, <1>9, <1>10 DEF MmuInv, DirsInv, PageDirAssumption
<1>12. ActiveInv(n)
  BY <1>4, <1>7, <1>9, <1>10 DEF ActiveInv
<1>13. TlbInv(n)
  BY <1>4, <1>7, <1>10 DEF MmuInv, TlbInv
<1>14. BitsInv(n)
  BY <1>4, <1>5, <1>7 DEF MmuInv, BitsInv
<1> QED BY <1>7, <1>8, <1>11, <1>12, <1>13, <1>14 DEF MmuInv

\* Only init_page_dir, and no program yet.
LEMMA DirectoriesStart ==
    ASSUME PageDirAssumption, NEW t \in Threads, mmu = PageDirStart(t)
    PROVE  MmuInv(mmu)
<1>1. PICK none, d : none = NoTlb /\ d = [x \in {} |-> NoTlb]
  OBVIOUS
<1>2. /\ none \in Partial(UPages, TlbRecords) /\ DOMAIN none = {}
      /\ d \in Partial(Threads, Partial(UPages, PteRecords)) /\ DOMAIN d = {}
  BY <1>1, PartialEmpty DEF NoTlb
<1>3. mmu = [dirs |-> d, pagedir |-> [x \in Threads |-> InitDir], cr3 |-> InitDir, tlb |-> none,
             running |-> t, at |-> [x \in Threads |-> "user"], target |-> [x \in Threads |-> InitDir]]
  BY <1>1, Zenon DEF PageDirStart
<1>4. mmu \in MmuRecords
  BY <1>2, <1>3 DEF MmuRecords
<1>5. mmu.dirs = d /\ mmu.tlb = none /\ mmu.cr3 = InitDir /\ mmu.running = t
      /\ \A x \in Threads : mmu.pagedir[x] = InitDir /\ mmu.at[x] = "user"
  BY <1>3
<1>6. DirsInv(mmu)
  BY <1>5 DEF DirsInv, PageDirAssumption
<1>7. ActiveInv(mmu)
  BY <1>5 DEF ActiveInv
<1>8. TlbInv(mmu) /\ BitsInv(mmu)
  BY <1>2, <1>5 DEF TlbInv, BitsInv
<1> QED BY <1>4, <1>6, <1>7, <1>8 DEF MmuInv

\* Every step keeps the invariant.
LEMMA DirectoriesStep ==
    ASSUME PageDirAssumption, MmuInv(mmu), [PageDirNext]_mmu
    PROVE  MmuInv(mmu')
<1>1. CASE UNCHANGED mmu
  BY <1>1
<1>2. ASSUME NEW u \in UPages, NEW write \in BOOLEAN, Access(u, write)
      PROVE  MmuInv(mmu')
  BY <1>2, AccessKeeps
<1>3. ASSUME NEW u \in UPages, NEW k \in Frames, pagedir_set_page(u, k)
      PROVE  MmuInv(mmu')
  BY <1>3, SetPageKeeps
<1>4. CASE pagedir_create
  BY <1>4, CreateKeeps
<1>5. CASE Change
  BY <1>5, ChangeKeeps
<1>6. CASE invalidate_pagedir
  BY <1>6, InvalidateKeeps
<1>7. CASE process_exit
  BY <1>7, DirectoryExitKeeps
<1>8. CASE pagedir_destroy
  BY <1>8, DestroyKeeps
<1>9. ASSUME NEW t \in Threads, process_activate(t)
      PROVE  MmuInv(mmu')
  BY <1>9, ActivateKeeps
<1> QED BY <1>1, <1>2, <1>3, <1>4, <1>5, <1>6, <1>7, <1>8, <1>9, Zenon DEF PageDirNext

\* pagedir.c, process_activate() and process_exit(), preempted anywhere: MmuInv always
\* holds, for any threads, pages and frames.
THEOREM DirectoriesInvariant == PageDirAssumption => (PageDirSpec => []MmuInv(mmu))
<1> SUFFICES ASSUME PageDirAssumption
             PROVE  PageDirSpec => []MmuInv(mmu)
  OBVIOUS
<1>1. (\E t \in Threads : mmu = PageDirStart(t)) => MmuInv(mmu)
  BY DirectoriesStart
<1>2. MmuInv(mmu) /\ [PageDirNext]_mmu => MmuInv(mmu)'
  BY DirectoriesStep
<1> QED BY <1>1, <1>2, PTL DEF PageDirSpec

\* What the invariant says of translation.
LEMMA TranslationFollows ==
    ASSUME MmuInv(mmu), PageDirAssumption
    PROVE  TranslationExact
<1>1. mmu \in MmuRecords
  BY DEF MmuInv
<1>2. active_pd \in Dirs \union {InitDir}
  BY DEF MmuInv, ActiveInv, active_pd, Dirs
<1>3. ASSUME ~ InKernel
      PROVE  /\ active_pd = mmu.pagedir[Running]
             /\ \A u \in DOMAIN mmu.tlb : /\ pagedir_get_page(active_pd, u) = {mmu.tlb[u].page}
                                          /\ mmu.tlb[u].d => pagedir_is_dirty(active_pd, u)
  <2>1. mmu.at[mmu.running] = "user"
    BY <1>3 DEF InKernel, Running
  <2>2. active_pd = mmu.pagedir[Running]
    BY <2>1 DEF MmuInv, ActiveInv, active_pd, Running
  <2>3. ASSUME NEW u \in DOMAIN mmu.tlb
        PROVE  /\ pagedir_get_page(active_pd, u) = {mmu.tlb[u].page}
               /\ mmu.tlb[u].d => pagedir_is_dirty(active_pd, u)
    <3>1. u \in DOMAIN mmu.dirs[mmu.cr3] /\ InTable(mmu.tlb[u], mmu.dirs[mmu.cr3][u])
      BY <2>1, <2>3 DEF MmuInv, TlbInv, Stale
    <3>2. lookup_page(mmu.cr3, u) = {mmu.dirs[mmu.cr3][u]}
      BY <3>1 DEF lookup_page
    <3>3. Present(mmu.cr3, u) /\ (mmu.tlb[u].d => pagedir_is_dirty(mmu.cr3, u))
      BY <3>1, <3>2 DEF InTable, Present, pagedir_is_dirty
    <3>4. pagedir_get_page(mmu.cr3, u) = {mmu.tlb[u].page}
      BY <3>1, <3>3 DEF pagedir_get_page, InTable
    <3> QED BY <3>3, <3>4 DEF active_pd
  <2> QED BY <2>2, <2>3
<1>4. ASSUME NEW pd \in Dirs, NEW u \in DOMAIN mmu.dirs[pd], Present(pd, u)
      PROVE  /\ mmu.dirs[pd][u].used => pagedir_is_dirty(pd, u)
             /\ mmu.dirs[pd][u].touched => pagedir_is_accessed(pd, u)
  <2>1. lookup_page(pd, u) = {mmu.dirs[pd][u]}
    BY DEF lookup_page
  <2>2. BitsOf(mmu.dirs[pd][u]) /\ mmu.dirs[pd][u].p
    BY <1>4, <2>1 DEF MmuInv, BitsInv, Present, Dirs
  <2> QED BY <2>1, <2>2 DEF BitsOf, pagedir_is_dirty, pagedir_is_accessed
<1>5. ~ InKernel =>
          /\ active_pd = mmu.pagedir[Running]
          /\ \A u \in DOMAIN mmu.tlb : /\ pagedir_get_page(active_pd, u) = {mmu.tlb[u].page}
                                       /\ mmu.tlb[u].d => pagedir_is_dirty(active_pd, u)
  BY <1>3
<1>6. \A pd \in Dirs : \A u \in DOMAIN mmu.dirs[pd] :
          Present(pd, u) => /\ mmu.dirs[pd][u].used => pagedir_is_dirty(pd, u)
                            /\ mmu.dirs[pd][u].touched => pagedir_is_accessed(pd, u)
  BY <1>4
<1> QED BY <1>2, <1>5, <1>6 DEF TranslationExact

\* The processor never uses a freed directory, a program's TLB says what its page table
\* says, and the dirty and accessed bits miss nothing, whatever is preempted where.
THEOREM TranslationIsExact == PageDirAssumption => (PageDirSpec => []TranslationExact)
<1> SUFFICES ASSUME PageDirAssumption
             PROVE  PageDirSpec => []TranslationExact
  OBVIOUS
<1>1. PageDirSpec => []MmuInv(mmu)
  BY DirectoriesInvariant
<1>2. MmuInv(mmu) => TranslationExact
  BY TranslationFollows
<1> QED BY <1>1, <1>2, PTL
=============================================================================
