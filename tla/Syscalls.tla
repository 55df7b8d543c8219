------------------------------ MODULE Syscalls ------------------------------
(***************************************************************************)
(* The system calls of pintos2/src/userprog/syscall.c: the descriptors of  *)
(* all processes on one list, under a lock that some calls take and exit   *)
(* does not, above the open inodes of filesys/inode.c.                     *)
(*                                                                         *)
(* A process is preempted between any two steps.  An entry of the list and *)
(* its struct file go by one number; there is one file name.  wild records *)
(* the first step that follows a pointer into freed memory, works on a     *)
(* list another process is working on, or panics; there the model stops.   *)
(***************************************************************************)
EXTENDS Lists

CONSTANTS
    Procs,       \* processes
    Started,     \* those that run at the start; the others are for exec
    MaxCalls,    \* how many calls the processes make in all, exits apart
    Nobody

ASSUME SyscallsAssumption ==
    /\ Started \subseteq Procs /\ Started # {}
    /\ MaxCalls \in Nat /\ Nobody \notin Procs /\ IsFiniteSet(Procs)

VARIABLES
    pc, call,          \* where a process is, and in which call
    calls,             \* calls made
    syscall_lock, filesys_lock,  \* who holds them
    fd_index,
    fd_name_mapping,   \* the list, of entries
    entry,             \* the entries there have been, freed ones too
    inodes,            \* the struct inodes there have been
    dir,               \* the sector the directory has for the name, or 0
    own,               \* t->file of each process: an inode, or 0
    wild

listVars == <<fd_index, fd_name_mapping, entry>>
lockVars == <<syscall_lock, filesys_lock>>
fsVars == <<inodes, dir, own>>
vars == <<pc, call, calls, lockVars, listVars, fsVars, wild>>

END_OF_LIST == 0
NoCall == [kind |-> "none", fd |-> 0, it |-> END_OF_LIST, inode |-> 0, child |-> Nobody]

\* syscall_init(), with one file there.
Init ==
    /\ pc = [p \in Procs |-> IF p \in Started THEN "user" ELSE "unborn"]
    /\ call = [p \in Procs |-> NoCall]
    /\ calls = 0
    /\ syscall_lock = Nobody /\ filesys_lock = Nobody
    /\ fd_index = 2
    /\ fd_name_mapping = << >> /\ entry = << >>
    /\ inodes = << >> /\ dir = 1
    /\ own = [p \in Procs |-> 0]
    /\ wild = "none"

-----------------------------------------------------------------------------
(* Moving on, and the lists.                                               *)

At(p, place) == wild = "none" /\ pc[p] = place
Goto(p, place) == pc' = [pc EXCEPT ![p] = place]
Set(p, f, x) == call' = [call EXCEPT ![p] = [@ EXCEPT ![f] = x]]
Kind(p, S) == call[p].kind \in S
Become(p, k) == call' = [call EXCEPT ![p] = [NoCall EXCEPT !.kind = k]]
Return(p) == Goto(p, "user") /\ Become(p, "none")
Bad(what) == wild' = what /\ UNCHANGED <<pc, call, calls, lockVars, listVars, fsVars>>
KeepRest == UNCHANGED <<calls, wild>>

ListBegin == IF fd_name_mapping = << >> THEN END_OF_LIST ELSE Head(fd_name_mapping)

\* list_next(); the elem of an entry that was taken off the list still points on.  The
\* mutant runs past the list's end to its beginning.
Successor(e, end) ==
    IF OnList(e, fd_name_mapping)
    THEN LET i == CHOOSE j \in DOMAIN fd_name_mapping : fd_name_mapping[j] = e
         IN IF i = Len(fd_name_mapping) THEN end ELSE fd_name_mapping[i + 1]
    ELSE entry[e].next
ListNextWraps(e) == Successor(e, ListBegin)
ListNext(e) == Successor(e, END_OF_LIST)

\* list_push_back() and list_remove() of fd_name_mapping are several stores each; a
\* second process that comes to one of them in between works on a torn list.
Linking == {q \in Procs : pc[q] \in {"pushed", "removed"}}

-----------------------------------------------------------------------------
(* Entering a call: syscall_handler().                                     *)

\* The calls, and where each begins: it takes the lock, walks the list without it,
\* or waits for a key.
Begins == [create |-> "acquire", remove |-> "acquire", open |-> "acquire", exec |-> "acquire",
           filesize |-> "acquire", write |-> "acquire", seek |-> "acquire",
           read |-> "walk", tell |-> "walk", close |-> "walk", getc |-> "getc"]
WithFd == {"filesize", "write", "seek", "read", "tell", "close"}
HandedOut == {entry[e].fd : e \in DOMAIN entry}

Enter(p, kind, fd) ==
    /\ At(p, "user") /\ calls < MaxCalls
    /\ calls' = calls + 1
    /\ Goto(p, Begins[kind])
    /\ call' = [call EXCEPT ![p] = [NoCall EXCEPT !.kind = kind, !.fd = fd, !.it = ListBegin]]
    /\ UNCHANGED <<lockVars, listVars, fsVars, wild>>

\* SYS_EXIT, or an address catch_addr_error() does not take: syscall_exit() begins.
Exit(p) ==
    /\ At(p, "user")
    /\ Goto(p, "exit_find")
    /\ Become(p, "exit")
    /\ UNCHANGED <<lockVars, listVars, fsVars>> /\ KeepRest

\* kill(): an exception in user code ends the process by thread_exit() alone.
Kill(p) ==
    /\ At(p, "user")
    /\ Goto(p, "dead")
    /\ UNCHANGED <<call, lockVars, listVars, fsVars>> /\ KeepRest

\* syscall_read() of descriptor 0: input_getc(), with no lock held.
KeyPressed(p) ==
    /\ At(p, "getc")
    /\ Return(p)
    /\ UNCHANGED <<lockVars, listVars, fsVars>> /\ KeepRest

\* lock_acquire (&syscall_lock), and what each call does next.
Acquire(p) ==
    /\ At(p, "acquire") /\ syscall_lock = Nobody
    /\ syscall_lock' = p
    /\ Goto(p, CASE Kind(p, {"open", "filesize", "write", "seek"}) -> "walk"
                 [] Kind(p, {"create", "remove"}) -> "fs_acquire"
                 [] Kind(p, {"exec"}) -> "execute"
                 [] Kind(p, {"read"}) -> "transfer")
    /\ IF Kind(p, {"read"}) THEN UNCHANGED call ELSE Set(p, "it", ListBegin)
    /\ UNCHANGED <<filesys_lock, listVars, fsVars>> /\ KeepRest

\* lock_release (&syscall_lock) and the return to the caller, but for a filesize that
\* has found its file and asks for the length only now.
Release(p) ==
    /\ At(p, "release")
    /\ syscall_lock' = Nobody
    /\ IF Kind(p, {"filesize"}) /\ call[p].it # END_OF_LIST
       THEN Goto(p, "use") /\ UNCHANGED call
       ELSE Return(p)
    /\ UNCHANGED <<filesys_lock, listVars, fsVars>> /\ KeepRest

-----------------------------------------------------------------------------
(* find_file_by_fd(), find_mapping_by_fd(), find_mapping_by_name(): one    *)
(* element of the list at a time.                                          *)

\* A descriptor is not compared with the caller's tid.  read goes for the lock with the
\* file it found, filesize gives it back; close() marks the entry and leaves it and its
\* file as they are.
Found(p) ==
    CASE Kind(p, {"read"})  -> Goto(p, "acquire") /\ UNCHANGED <<call, entry>>
      [] Kind(p, {"write"}) -> Goto(p, "transfer") /\ UNCHANGED <<call, entry>>
      [] Kind(p, {"open"})  -> Goto(p, "fs_acquire") /\ UNCHANGED <<call, entry>>
      [] Kind(p, {"filesize"}) -> Goto(p, "release") /\ UNCHANGED <<call, entry>>
      [] Kind(p, {"seek", "tell"}) -> Goto(p, "use") /\ UNCHANGED <<call, entry>>
      [] Kind(p, {"close"}) -> Return(p) /\ entry' = [entry EXCEPT ![call[p].it].closed = TRUE]

\* syscall_seek() and syscall_tell() use the file without a test for NULL.
Unchecked == {"seek", "tell"}

\* The end of the list.  seek and tell run into an assertion of file.c.
NotFound(p) ==
    CASE Kind(p, {"read", "close"}) -> Return(p)
      [] Kind(p, {"write", "filesize"}) -> Goto(p, "release") /\ UNCHANGED call
      [] Kind(p, {"open"}) -> Goto(p, "fs_acquire") /\ UNCHANGED call

\* The comparison of an entry with what is looked for: a descriptor, or a name, which
\* may be that of any file.
Compared(p, it) == IF Kind(p, {"open"}) THEN BOOLEAN ELSE {entry[it].fd = call[p].fd}

Walk(p) ==
    LET it == call[p].it IN
    /\ At(p, "walk")
    /\ IF it = END_OF_LIST
       THEN IF Kind(p, Unchecked)
            THEN Bad("null_file")
            ELSE NotFound(p) /\ UNCHANGED <<lockVars, listVars, fsVars>> /\ KeepRest
       ELSE IF ~ entry[it].live
       THEN Bad("freed_entry")
       ELSE /\ \E same \in Compared(p, it) :
                  IF same THEN Found(p)
                  ELSE Set(p, "it", ListNext(it)) /\ UNCHANGED <<pc, entry>>
            /\ UNCHANGED <<lockVars, fd_index, fd_name_mapping, fsVars>> /\ KeepRest

\* start_process(): load(), and the opening of t->file after a load that went well or not.
Starting == {"load", "start", "failed"}

\* find_mapping_by_name() follows pointers into the memory of whoever opened the file,
\* and names and buffers are checked at their ends if at all.  For a user address that
\* has no page entry page_fault() asks a null entry for its page, faults again and
\* panics: it holds exception_lock already.  So it does for the null pointer that
\* malloc() may have given syscall_open(), process_execute() and start_process(), which
\* write through it without a test.
Touching(p) ==
    \/ At(p, "walk") /\ Kind(p, {"open"}) /\ call[p].it # END_OF_LIST
    \/ At(p, "fs") /\ Kind(p, {"create", "remove", "open"})
    \/ At(p, "fs_acquire") /\ Kind(p, Starting)
    \/ pc[p] \in {"transfer", "push", "execute"} /\ wild = "none"
FaultInside(p) == Touching(p) /\ Bad("null_entry")

\* What is written may reach over PHYS_BASE to an address no memory is behind:
\* page_fault() calls syscall_exit() with syscall_lock held, unless somebody has
\* filesys_lock, when the access is tried again.
FaultAbove(p) ==
    /\ At(p, "transfer") /\ Kind(p, {"write"}) /\ filesys_lock = Nobody
    /\ Goto(p, "exit_find")
    /\ Become(p, "exit")
    /\ UNCHANGED <<lockVars, listVars, fsVars>> /\ KeepRest

\* file_read() and file_write() follow the file and its inode.
Transfer(p) ==
    LET e == call[p].it IN
    /\ At(p, "transfer")
    /\ IF ~ entry[e].live THEN Bad("freed_file")
       ELSE IF ~ inodes[entry[e].inode].live THEN Bad("freed_inode")
       ELSE /\ Goto(p, "release")
            /\ UNCHANGED <<call, lockVars, listVars, fsVars>> /\ KeepRest

\* file_length() in filesize, file_seek() and file_tell() follow the file, the first its
\* inode too; seek alone has the lock.  A position that is negative as an off_t fails an
\* assertion.
Use(p) ==
    LET e == call[p].it IN
    /\ At(p, "use")
    /\ IF ~ entry[e].live THEN Bad("freed_file")
       ELSE IF Kind(p, {"filesize"}) /\ ~ inodes[entry[e].inode].live THEN Bad("freed_inode")
       ELSE /\ IF Kind(p, {"seek"}) THEN Goto(p, "release") /\ UNCHANGED call ELSE Return(p)
            /\ UNCHANGED <<lockVars, listVars, fsVars>> /\ KeepRest
SeekNegative(p) == At(p, "use") /\ Kind(p, {"seek"}) /\ Bad("negative_pos")

-----------------------------------------------------------------------------
(* filesys_create(), filesys_open(), filesys_remove(), under filesys_lock. *)

FsAcquire(p) ==
    /\ At(p, "fs_acquire") /\ filesys_lock = Nobody
    /\ filesys_lock' = p
    /\ Goto(p, "fs")
    /\ UNCHANGED <<call, syscall_lock, listVars, fsVars>> /\ KeepRest

\* inode_open(): the one on the list of open inodes, whatever its count, or a new one.
\* The mutant does not count the second opener.
Listed == {i \in DOMAIN inodes : inodes[i].listed /\ inodes[i].sector = dir}
Opened == IF Listed = {} THEN Len(inodes) + 1 ELSE CHOOSE i \in Listed : TRUE
NewInode == [sector |-> dir, open_cnt |-> 1, listed |-> TRUE, live |-> TRUE]
inode_openUncounted == IF Listed = {} THEN Append(inodes, NewInode) ELSE inodes
inode_open ==
    IF Listed = {}
    THEN Append(inodes, NewInode)
    ELSE [inodes EXCEPT ![Opened].open_cnt = @ + 1]

\* filesys_create(): a sector that no open inode still has, unless the name is taken or
\* one of its steps fails.
FsCreate(p) ==
    /\ At(p, "fs") /\ Kind(p, {"create"})
    /\ \/ UNCHANGED dir
       \/ dir = 0 /\ dir' = CHOOSE s \in 1 .. Len(inodes) + 1 :
                              \A i \in DOMAIN inodes : inodes[i].live => inodes[i].sector # s
    /\ filesys_lock' = Nobody
    /\ Goto(p, "release")
    /\ UNCHANGED <<call, syscall_lock, listVars, inodes, own>> /\ KeepRest

\* filesys_remove(): dir_remove() opens the inode, erases the entry, marks the inode,
\* and is about to close it, as it is when the entry cannot be written.  Without memory
\* for the directory or the inode there is nothing to close.
FsRemove(p) ==
    /\ At(p, "fs") /\ Kind(p, {"remove"})
    /\ \/ /\ dir # 0 /\ dir' \in {0, dir}
          /\ inodes' = inode_open
          /\ Set(p, "inode", Opened)
          /\ Goto(p, "close")
          /\ UNCHANGED filesys_lock
       \/ Goto(p, "release") /\ filesys_lock' = Nobody /\ UNCHANGED <<dir, inodes, call>>
    /\ UNCHANGED <<syscall_lock, listVars, own>> /\ KeepRest

\* filesys_open() without an inode: no such name, or no memory for the directory or the
\* inode.  A load that fails is followed by the opening of t->file all the same.
NoInode(p) ==
    /\ IF Kind(p, {"load"})
       THEN Goto(p, "fs_acquire") /\ Set(p, "kind", "failed")
       ELSE Goto(p, IF Kind(p, {"open"}) THEN "release" ELSE "loaded") /\ UNCHANGED call
    /\ UNCHANGED <<inodes, own>>

\* file_open(), which closes the inode again when it gets no memory for the file.  load()
\* closes it when it is done.
file_open(p, allocated) ==
    /\ inodes' = inode_open
    /\ Set(p, "inode", Opened)
    /\ \/ (Kind(p, {"load"}) \/ ~ allocated) /\ Goto(p, "close") /\ UNCHANGED own
       \/ Kind(p, {"open"}) /\ allocated /\ Goto(p, "push") /\ UNCHANGED own
       \/ /\ Kind(p, {"start", "failed"}) /\ allocated
          /\ Goto(p, "loaded") /\ own' = [own EXCEPT ![p] = Opened]

\* filesys_open() for open, for load() and for t->file in start_process().
FsOpen(p) ==
    /\ At(p, "fs") /\ Kind(p, Starting \union {"open"})
    /\ filesys_lock' = Nobody
    /\ NoInode(p) \/ (dir # 0 /\ \E allocated \in BOOLEAN : file_open(p, allocated))
    /\ UNCHANGED <<dir, syscall_lock, listVars>> /\ KeepRest

\* syscall_open() makes the entry and links it.
Push(p) ==
    /\ At(p, "push")
    /\ IF Linking # {} THEN Bad("torn_list")
       ELSE /\ entry' = Append(entry, [tid |-> p, fd |-> fd_index, inode |-> call[p].inode,
                                       live |-> TRUE, closed |-> FALSE, next |-> END_OF_LIST])
            /\ fd_index' = fd_index + 1
            /\ Goto(p, "pushed")
            /\ UNCHANGED <<call, fd_name_mapping, lockVars, fsVars>> /\ KeepRest
Pushed(p) ==
    /\ At(p, "pushed")
    /\ LET mine == {e \in DOMAIN entry : entry[e].tid = p} IN
       fd_name_mapping' = Append(fd_name_mapping, CHOOSE e \in mine : \A d \in mine : d <= e)
    /\ Goto(p, "release")
    /\ UNCHANGED <<call, fd_index, entry, lockVars, fsVars>> /\ KeepRest

-----------------------------------------------------------------------------
(* inode_close(): for remove under a lock, for the others under none but  *)
(* the one an open call has.                                               *)

\* Where each goes on afterwards; load() went well or not.
AfterClose(p) == CASE Kind(p, {"exit"}) -> "free"
                   [] Kind(p, {"remove"}) -> "fs_release"
                   [] Kind(p, {"open"}) -> "release"
                   [] Kind(p, {"start", "failed"}) -> "loaded"
GoOn(p) ==
    IF Kind(p, {"load"})
    THEN Goto(p, "fs_acquire") /\ \E kind \in {"start", "failed"} : Set(p, "kind", kind)
    ELSE Goto(p, AfterClose(p)) /\ UNCHANGED call

\* --inode->open_cnt, and its test.
Close(p) ==
    LET i == call[p].inode IN
    /\ At(p, "close")
    /\ IF ~ inodes[i].live THEN Bad("freed_inode")
       ELSE /\ inodes' = [inodes EXCEPT ![i].open_cnt = @ - 1]
            /\ IF inodes[i].open_cnt = 1 THEN Goto(p, "drop") /\ UNCHANGED call ELSE GoOn(p)
            /\ UNCHANGED <<lockVars, listVars, dir, own>> /\ KeepRest

\* list_remove (&inode->elem) and free (inode).
Drop(p) ==
    LET i == call[p].inode IN
    /\ At(p, "drop")
    /\ IF ~ inodes[i].live THEN Bad("freed_inode")
       ELSE /\ inodes' = [inodes EXCEPT ![i].listed = FALSE, ![i].live = FALSE]
            /\ GoOn(p)
            /\ UNCHANGED <<lockVars, listVars, dir, own>> /\ KeepRest

FsRelease(p) ==
    /\ At(p, "fs_release")
    /\ filesys_lock' = Nobody
    /\ Goto(p, "release")
    /\ UNCHANGED <<call, syscall_lock, listVars, fsVars>> /\ KeepRest

-----------------------------------------------------------------------------
(* syscall_exit(), without a lock.                                         *)

\* find_mapping_by_tid() starts again for every entry.
ExitFind(p) ==
    /\ At(p, "exit_find")
    /\ Goto(p, "exit_walk")
    /\ Set(p, "it", ListBegin)
    /\ UNCHANGED <<lockVars, listVars, fsVars>> /\ KeepRest

\* A mutant: whose descriptor it is is not looked at.
ExitWalkAll(p) ==
    LET it == call[p].it IN
    /\ At(p, "exit_walk")
    /\ IF it = END_OF_LIST
       THEN Goto(p, "dead") /\ UNCHANGED <<call, lockVars, listVars, fsVars>> /\ KeepRest
       ELSE IF ~ entry[it].live
       THEN Bad("freed_entry")
       ELSE /\ Goto(p, "exit_remove")
            /\ UNCHANGED <<call, lockVars, listVars, fsVars>> /\ KeepRest

\* At the end of the list comes thread_exit(), which knows of no lock to release
\* since nobody sets sys_lock_hold, and leaves t->file open.
ExitWalk(p) ==
    LET it == call[p].it IN
    /\ At(p, "exit_walk")
    /\ IF it = END_OF_LIST
       THEN Goto(p, "dead") /\ UNCHANGED <<call, lockVars, listVars, fsVars>> /\ KeepRest
       ELSE IF ~ entry[it].live
       THEN Bad("freed_entry")
       ELSE /\ IF entry[it].tid = p
               THEN Goto(p, "exit_remove") /\ UNCHANGED call
               ELSE Set(p, "it", ListNext(it)) /\ UNCHANGED pc
            /\ UNCHANGED <<lockVars, listVars, fsVars>> /\ KeepRest

\* list_remove (&ffn->elem).
ExitRemove(p) ==
    /\ At(p, "exit_remove")
    /\ IF Linking # {} THEN Bad("torn_list")
       ELSE /\ Goto(p, "removed")
            /\ UNCHANGED <<call, lockVars, listVars, fsVars>> /\ KeepRest
Removed(p) ==
    LET e == call[p].it IN
    /\ At(p, "removed")
    /\ fd_name_mapping' = Unlink(fd_name_mapping, e)
    /\ entry' = [entry EXCEPT ![e].next = ListNext(e)]
    /\ Set(p, "inode", entry[e].inode)
    /\ Goto(p, "close")
    /\ UNCHANGED <<fd_index, lockVars, fsVars>> /\ KeepRest

\* After file_close(), free (ffn).
Free(p) ==
    /\ At(p, "free")
    /\ entry' = [entry EXCEPT ![call[p].it].live = FALSE]
    /\ Goto(p, "exit_find")
    /\ UNCHANGED <<call, fd_index, fd_name_mapping, lockVars, fsVars>> /\ KeepRest

-----------------------------------------------------------------------------
(* syscall_exec(): the lock is held until the child has been loaded.       *)

Unborn == {c \in Procs : pc[c] = "unborn"}

\* process_execute() creates the child, whose load() opens the file first, unless there
\* is no memory for it.
Execute(p) ==
    /\ At(p, "execute")
    /\ \/ Goto(p, "release") /\ UNCHANGED call
       \/ \E c \in Unborn :
              /\ pc' = [pc EXCEPT ![p] = "exec_wait", ![c] = "fs_acquire"]
              /\ call' = [call EXCEPT ![p].child = c, ![c] = [NoCall EXCEPT !.kind = "load"]]
    /\ UNCHANGED <<lockVars, listVars, fsVars>> /\ KeepRest

\* start_process() runs the program, or exits when load() failed.
Loaded(c) ==
    /\ At(c, "loaded")
    /\ IF Kind(c, {"start"}) THEN Return(c) ELSE Goto(c, "exit_find") /\ Become(c, "exit")
    /\ UNCHANGED <<lockVars, listVars, fsVars>> /\ KeepRest

ExecWait(p) ==
    /\ At(p, "exec_wait")
    /\ ~ Kind(call[p].child, Starting)
    /\ Goto(p, "release")
    /\ UNCHANGED <<call, lockVars, listVars, fsVars>> /\ KeepRest

-----------------------------------------------------------------------------
Kernel(p) ==
    \/ Acquire(p) \/ Release(p) \/ Walk(p) \/ Transfer(p) \/ Use(p) \/ SeekNegative(p)
    \/ FaultInside(p) \/ FaultAbove(p)
    \/ FsAcquire(p) \/ FsCreate(p) \/ FsRemove(p) \/ FsOpen(p) \/ FsRelease(p)
    \/ Push(p) \/ Pushed(p) \/ Close(p) \/ Drop(p)
    \/ ExitFind(p) \/ ExitWalk(p) \/ ExitRemove(p) \/ Removed(p) \/ Free(p)
    \/ Execute(p) \/ Loaded(p) \/ ExecWait(p)

User(p) ==
    \/ \E kind \in DOMAIN Begins : \E fd \in IF kind \in WithFd THEN HandedOut \union {0} ELSE {0} :
          Enter(p, kind, fd)
    \/ Exit(p) \/ Kill(p) \/ KeyPressed(p)

\* A lock whose holder is dead: nobody else gets it any more.
Orphaned == \E p \in Procs : pc[p] = "dead" /\ p \in {syscall_lock, filesys_lock}

\* The machine stands still: a crash, nobody left, or a lock for ever.
Rest ==
    /\ wild # "none" \/ Orphaned \/ \A p \in Procs : pc[p] \in {"dead", "unborn"}
    /\ UNCHANGED vars

Next == (\E p \in Procs : Kernel(p) \/ User(p)) \/ Rest

Spec == Init /\ [][Next]_vars
FairSpec == Spec /\ \A p \in Procs : WF_vars(Kernel(p))

-----------------------------------------------------------------------------
Running(p) == pc[p] \notin {"dead", "unborn"} /\ ~ Kind(p, {"exit"})

\* syscall_open() and syscall_exit() of several processes on one list: a descriptor
\* that was handed to a process that runs is on the list, names an open file and is
\* nobody else's.
OwnDescriptors ==
    wild = "none" =>
        \A e \in DOMAIN entry :
            /\ Running(entry[e].tid) /\ pc[entry[e].tid] # "pushed"
                  => OnList(e, fd_name_mapping) /\ entry[e].live
            /\ \A d \in DOMAIN entry : entry[d].fd = entry[e].fd => d = e

\* inode_open() and inode_close(): the count of an inode is that of the struct files
\* that refer to it, of processes that died or exit just now too.
InClose(p) == pc[p] \in {"drop", "free"} /\ Kind(p, {"exit"})
EntryRefs(i) == {e \in DOMAIN entry : entry[e].live /\ entry[e].inode = i
                                      /\ ~ \E p \in Procs : InClose(p) /\ call[p].it = e}
OwnRefs(i) == {p \in Procs : own[p] = i}
CallRefs(i) == {p \in Procs : call[p].inode = i /\ \/ pc[p] = "push"
                                                   \/ pc[p] = "close" /\ ~ Kind(p, {"exit"})}
Refs(i) == Cardinality(EntryRefs(i)) + Cardinality(OwnRefs(i)) + Cardinality(CallRefs(i))
OpenCntExact ==
    wild = "none" => \A i \in DOMAIN inodes : inodes[i].live => inodes[i].open_cnt = Refs(i)

\* Every call of a process that may run ends, whatever the others do, unless a process
\* died with a lock in its hands or the kernel has crashed: time and again each process is
\* in no call, or waits for a key.
Outside(p) == pc[p] \in {"user", "getc", "unborn", "dead"}
CallsReturn == \A p \in Procs : []<>(Outside(p) \/ Orphaned \/ wild # "none")
=============================================================================
