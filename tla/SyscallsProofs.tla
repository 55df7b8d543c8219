--------------------------- MODULE SyscallsProofs ---------------------------
(***************************************************************************)
(* Proofs about Syscalls: the list of descriptors holds every entry that   *)
(* is in use, once, and no freed one; the descriptors of a process that    *)
(* runs are its own; and the count of an open inode is exact, although     *)
(* syscall_exit() takes no lock.  Below them, proofs about Terminal: no    *)
(* byte is lost, doubled or overtaken between threads and the line, and    *)
(* lines are not mixed.                                                    *)
(***************************************************************************)
EXTENDS Syscalls, Terminal, SequenceTheorems, FiniteSetTheorems, WellFoundedInduction, TLAPS

Places ==
    {"unborn", "user", "dead", "acquire", "walk", "getc", "execute", "fs_acquire", "transfer", "use",
     "fs", "release", "fs_release", "push", "pushed", "close", "drop", "free", "exit_find",
     "exit_walk", "exit_remove", "removed", "exec_wait", "loaded"}
Locking == {"create", "remove", "open", "exec", "filesize", "write", "seek", "read"}
Walking == {"open", "filesize", "write", "seek", "read", "tell", "close"}
Kinds == {"none", "exit", "load", "start", "failed", "getc"} \union Locking \union Walking
Calls == [kind : Kinds, fd : Nat, it : Nat, inode : Nat, child : Procs \union {Nobody}]
Entry == [tid : Procs, fd : Nat, inode : Nat, live : BOOLEAN, closed : BOOLEAN, next : Nat]
Inode == [sector : Nat, open_cnt : Int, listed : BOOLEAN, live : BOOLEAN]

-----------------------------------------------------------------------------
(* The inductive invariant.  It holds after a crash too, since nothing     *)
(* moves any more then.                                                    *)

TypeInv ==
    /\ pc \in [Procs -> Places] /\ call \in [Procs -> Calls]
    /\ fd_index \in Nat /\ dir \in Nat
    /\ fd_name_mapping \in Seq(Nat)
    /\ entry \in Seq(Entry) /\ inodes \in Seq(Inode) /\ own \in [Procs -> Nat]

\* Pointers lead to what there has been.
Reaches(p) == call[p].it <= Len(entry) /\ call[p].inode <= Len(inodes)
BoundInv ==
    /\ \A p \in Procs : Reaches(p) /\ own[p] <= Len(inodes)
    /\ \A e \in 1 .. Len(entry) : entry[e].next <= Len(entry) /\ entry[e].inode \in 1 .. Len(inodes)

\* In which calls a process can be where it is.
OnExit == {"exit_find", "exit_walk", "exit_remove", "removed", "free"}
Closing == {"close", "drop"}
Fits(place, kind) ==
    /\ place \in {"unborn", "user"} => kind = "none"
    /\ place = "acquire" => kind \in Locking
    /\ place = "walk" => kind \in Walking
    /\ place \in OnExit => kind = "exit"
    /\ kind = "exit" => place \in OnExit \union Closing \union {"dead"}
    /\ place \in Closing => kind \in {"exit", "remove", "open"} \union Starting
    /\ place \in {"push", "pushed"} => kind = "open"
Placed(p) == Fits(pc[p], call[p].kind)
PlaceInv == \A p \in Procs : Placed(p)

\* t->file is not set before start_process() opens it.
Unset(place, kind) == \/ place = "unborn" \/ kind = "load"
                      \/ kind \in {"start", "failed"} /\ place \in {"fs_acquire", "fs", "close", "drop"}
Fresh(p) == Unset(pc[p], call[p].kind)
OwnInv == \A p \in Procs : Fresh(p) => own[p] = 0

\* The entry syscall_exit() works on is the caller's own and not yet freed, and the
\* inode that is being closed is the entry's.
Exits(p) ==
    /\ call[p].kind = "exit" /\ pc[p] \in {"exit_remove", "removed", "close", "drop", "free"}
          => /\ call[p].it \in 1 .. Len(entry)
             /\ entry[call[p].it].tid = p /\ entry[call[p].it].live
    /\ call[p].kind = "exit" /\ pc[p] = "close" => call[p].inode = entry[call[p].it].inode
    /\ pc[p] \in {"push", "close", "drop"} => call[p].inode \in 1 .. Len(inodes)
ExitInv == \A p \in Procs : Exits(p)

\* An entry is off the list from its making to the end of list_push_back(), and from
\* list_remove() on.
Newest(p, e) == \A d \in 1 .. Len(entry) : entry[d].tid = p => d <= e
Unlinked(p, e) ==
    \/ pc[p] = "pushed" /\ Newest(p, e)
    \/ call[p].kind = "exit" /\ pc[p] \in {"close", "drop", "free"} /\ call[p].it = e

\* What is on the list is what is in use, once; a process that runs has not lost an
\* entry; one that was not created has none.
Kept(e) ==
    /\ OnList(e, fd_name_mapping) <=> entry[e].live /\ ~ Unlinked(entry[e].tid, e)
    /\ Running(entry[e].tid) => entry[e].live
    /\ pc[entry[e].tid] # "unborn"
ListInv ==
    /\ NoTwice(fd_name_mapping)
    /\ \A e : OnList(e, fd_name_mapping) => e \in 1 .. Len(entry)
    /\ \A e \in 1 .. Len(entry) : Kept(e)
    /\ \A p \in Procs : pc[p] = "pushed" =>
          \E e \in 1 .. Len(entry) : entry[e].tid = p /\ entry[e].live /\ Newest(p, e)

\* fd_index is past every descriptor.
FdInv ==
    /\ \A e \in 1 .. Len(entry) : entry[e].fd < fd_index
    /\ \A d, e \in 1 .. Len(entry) : entry[d].fd = entry[e].fd => d = e

CountInv == \A i \in 1 .. Len(inodes) : inodes[i].live => inodes[i].open_cnt = Refs(i)

SyscallsInv ==
    TypeInv /\ BoundInv /\ PlaceInv /\ OwnInv /\ ExitInv /\ ListInv /\ FdInv /\ CountInv

-----------------------------------------------------------------------------
(* What the types say of each element.                                     *)

\* The fields of entries, inodes and calls.
LEMMA Typed ==
    ASSUME TypeInv
    PROVE  /\ DOMAIN entry = 1 .. Len(entry) /\ DOMAIN inodes = 1 .. Len(inodes)
           /\ Len(entry) \in Nat /\ Len(inodes) \in Nat
           /\ \A e \in 1 .. Len(entry) :
                 /\ entry[e] \in Entry /\ entry[e].tid \in Procs /\ entry[e].fd \in Nat
                 /\ entry[e].inode \in Nat /\ entry[e].live \in BOOLEAN /\ entry[e].next \in Nat
           /\ \A i \in 1 .. Len(inodes) :
                 /\ inodes[i] \in Inode /\ inodes[i].open_cnt \in Int /\ inodes[i].live \in BOOLEAN
           /\ \A p \in Procs :
                 /\ call[p] \in Calls /\ call[p].kind \in Kinds /\ call[p].it \in Nat
                 /\ call[p].inode \in Nat /\ pc[p] \in Places /\ own[p] \in Nat
<1>1. \A e \in 1 .. Len(entry) : entry[e] \in Entry  BY DEF TypeInv
<1>2. \A i \in 1 .. Len(inodes) : inodes[i] \in Inode  BY DEF TypeInv
<1>3. \A p \in Procs : call[p] \in Calls /\ pc[p] \in Places /\ own[p] \in Nat  BY DEF TypeInv
<1>4. \A e \in 1 .. Len(entry) :
         /\ entry[e].tid \in Procs /\ entry[e].fd \in Nat
         /\ entry[e].inode \in Nat /\ entry[e].live \in BOOLEAN /\ entry[e].next \in Nat
  BY <1>1 DEF Entry
<1>5. \A i \in 1 .. Len(inodes) : inodes[i].open_cnt \in Int /\ inodes[i].live \in BOOLEAN
  BY <1>2 DEF Inode
<1>6. \A p \in Procs : call[p].kind \in Kinds /\ call[p].it \in Nat /\ call[p].inode \in Nat
  BY <1>3 DEF Calls
<1>7. /\ DOMAIN entry = 1 .. Len(entry) /\ DOMAIN inodes = 1 .. Len(inodes)
      /\ Len(entry) \in Nat /\ Len(inodes) \in Nat
  BY DEF TypeInv
<1> QED BY <1>1, <1>2, <1>3, <1>4, <1>5, <1>6, <1>7

-----------------------------------------------------------------------------
(* Steps that leave the references as they are: the caller is not between  *)
(* the making of an entry and the end of list_push_back(), nor in          *)
(* inode_close() or just after it.                                         *)

Away == {"push", "pushed", "close", "drop", "free"}
Unmoved(q) == pc'[q] = pc[q] /\ call'[q] = call[q]
Moves(q) ==
    /\ pc[q] \notin Away /\ pc'[q] \notin Away
    /\ Placed(q)' /\ Reaches(q)' /\ (Fresh(q)' => Fresh(q))
    /\ pc'[q] \in {"exit_remove", "removed"} =>
          /\ call'[q].it \in 1 .. Len(entry)
          /\ entry[call'[q].it].tid = q /\ entry[call'[q].it].live
    /\ Running(q)' => Running(q) \/ pc[q] = "unborn"
    /\ pc'[q] # "unborn"
SameEntries ==
    /\ Len(entry') = Len(entry)
    /\ \A e \in 1 .. Len(entry) :
          /\ entry'[e].tid = entry[e].tid /\ entry'[e].fd = entry[e].fd
          /\ entry'[e].inode = entry[e].inode /\ entry'[e].live = entry[e].live
          /\ entry'[e].next = entry[e].next
SameFiles ==
    /\ Len(entry') = Len(entry)
    /\ \A e \in 1 .. Len(entry) : entry'[e].inode = entry[e].inode /\ entry'[e].live = entry[e].live
Quiet ==
    /\ SameEntries
    /\ UNCHANGED <<fd_name_mapping, fd_index, inodes, own>>
    /\ \A q \in Procs : Unmoved(q) \/ Moves(q)

\* Which entries are off the list does not change.
LEMMA QuietUnlinked ==
    ASSUME TypeInv, Quiet
    PROVE  \A q \in Procs : \A e \in 1 .. Len(entry) : Unlinked(q, e)' <=> Unlinked(q, e)
<1>1. SUFFICES ASSUME NEW q \in Procs, NEW e \in 1 .. Len(entry)
               PROVE  Unlinked(q, e)' <=> Unlinked(q, e)
  OBVIOUS
<1>2. Newest(q, e)' <=> Newest(q, e)  BY DEF Quiet, SameEntries, Newest
<1>3. CASE Unmoved(q)  BY <1>2, <1>3 DEF Unmoved, Unlinked
<1>4. CASE Moves(q)  BY <1>4 DEF Moves, Away, Unlinked
<1> QED BY <1>1, <1>3, <1>4 DEF Quiet

\* The number of references to an inode does not change.
LEMMA QuietRefs ==
    ASSUME TypeInv, Quiet
    PROVE  \A i : Refs(i)' = Refs(i)
<1>1. SUFFICES ASSUME NEW i PROVE Refs(i)' = Refs(i)  OBVIOUS
<1>2. \A q \in Procs : \A e : (InClose(q) /\ call[q].it = e)' <=> InClose(q) /\ call[q].it = e
  <2>1. SUFFICES ASSUME NEW q \in Procs, NEW e
                 PROVE  (InClose(q) /\ call[q].it = e)' <=> InClose(q) /\ call[q].it = e
    OBVIOUS
  <2>2. CASE Unmoved(q)  BY <2>2 DEF Unmoved, InClose, Kind
  <2>3. CASE Moves(q)  BY <2>3 DEF Moves, Away, InClose
  <2> QED BY <2>1, <2>2, <2>3 DEF Quiet
<1>3. DOMAIN entry' = DOMAIN entry /\ DOMAIN entry = 1 .. Len(entry)
  BY DEF TypeInv, Quiet, SameEntries
<1>4. EntryRefs(i)' = EntryRefs(i)  BY <1>2, <1>3 DEF Quiet, SameEntries, EntryRefs
<1>5. OwnRefs(i)' = OwnRefs(i)  BY DEF Quiet, OwnRefs
<1>6. CallRefs(i)' = CallRefs(i)
  <2>1. \A q \in Procs : (q \in CallRefs(i))' <=> q \in CallRefs(i)
    <3>1. SUFFICES ASSUME NEW q \in Procs PROVE (q \in CallRefs(i))' <=> q \in CallRefs(i)  OBVIOUS
    <3>2. CASE Unmoved(q)  BY <3>2 DEF Unmoved, CallRefs, Kind
    <3>3. CASE Moves(q)  BY <3>3 DEF Moves, Away, CallRefs
    <3> QED BY <3>1, <3>2, <3>3 DEF Quiet
  <2> QED BY <2>1 DEF CallRefs
<1> QED BY <1>4, <1>5, <1>6 DEF Refs

\* A quiet step keeps the invariant.
LEMMA QuietKeeps ==
    ASSUME SyscallsInv, Quiet, TypeInv'
    PROVE  SyscallsInv'
<1>1. TypeInv /\ BoundInv /\ PlaceInv /\ OwnInv /\ ExitInv /\ ListInv /\ FdInv /\ CountInv
  BY DEF SyscallsInv
<1>2. SameEntries /\ UNCHANGED <<fd_name_mapping, fd_index, inodes, own>>
      /\ \A q \in Procs : Unmoved(q) \/ Moves(q)
  BY DEF Quiet
<1>3. BoundInv'
  <2>1. \A q \in Procs : Reaches(q)'
    <3>1. SUFFICES ASSUME NEW q \in Procs PROVE Reaches(q)'  OBVIOUS
    <3>2. CASE Unmoved(q)  BY <1>1, <1>2, <3>2 DEF Unmoved, BoundInv, Reaches, SameEntries
    <3>3. CASE Moves(q)  BY <3>3 DEF Moves
    <3> QED BY <1>2, <3>2, <3>3
  <2> QED BY <1>1, <1>2, <2>1 DEF BoundInv, SameEntries
<1>4. PlaceInv'
  <2>1. SUFFICES ASSUME NEW q \in Procs PROVE Placed(q)'  BY DEF PlaceInv
  <2>2. CASE Unmoved(q)  BY <1>1, <2>2 DEF Unmoved, PlaceInv, Placed
  <2>3. CASE Moves(q)  BY <2>3 DEF Moves
  <2> QED BY <1>2, <2>2, <2>3
<1>5. OwnInv'
  <2>1. SUFFICES ASSUME NEW q \in Procs PROVE Fresh(q)' => own'[q] = 0  BY DEF OwnInv
  <2>2. Fresh(q)' => Fresh(q)
    <3>1. CASE Unmoved(q)  BY <3>1 DEF Unmoved, Fresh
    <3>2. CASE Moves(q)  BY <3>2 DEF Moves
    <3> QED BY <1>2, <3>1, <3>2
  <2> QED BY <1>1, <1>2, <2>2 DEF OwnInv
<1>6. ExitInv'
  <2>1. SUFFICES ASSUME NEW q \in Procs PROVE Exits(q)'  BY DEF ExitInv
  <2>2. CASE Unmoved(q)
    <3>1. Exits(q)  BY <1>1 DEF ExitInv
    <3>2. call[q].it \in 1 .. Len(entry) => /\ entry'[call[q].it].tid = entry[call[q].it].tid
                                            /\ entry'[call[q].it].live = entry[call[q].it].live
                                            /\ entry'[call[q].it].inode = entry[call[q].it].inode
      BY <1>2 DEF SameEntries
    <3>3. Len(entry') = Len(entry) /\ inodes' = inodes  BY <1>2 DEF SameEntries
    <3> QED BY <2>2, <3>1, <3>2, <3>3 DEF Unmoved, Exits
  <2>3. CASE Moves(q)
    <3>1. pc'[q] \in {"exit_remove", "removed"} =>
             /\ call'[q].it \in 1 .. Len(entry')
             /\ entry'[call'[q].it].tid = q /\ entry'[call'[q].it].live
      BY <1>2, <2>3 DEF Moves, SameEntries
    <3>2. pc'[q] \notin {"push", "close", "drop", "free"}  BY <2>3 DEF Moves, Away
    <3> QED BY <3>1, <3>2 DEF Exits
  <2> QED BY <1>2, <2>2, <2>3
<1>7. ListInv'
  <2>1. \A q \in Procs : \A e \in 1 .. Len(entry) : Unlinked(q, e)' <=> Unlinked(q, e)
    BY <1>1, QuietUnlinked
  <2>2. \A e \in 1 .. Len(entry) : Kept(e)'
    <3>1. SUFFICES ASSUME NEW e \in 1 .. Len(entry) PROVE Kept(e)'  OBVIOUS
    <3>2. PICK t \in Procs : t = entry[e].tid /\ t = entry'[e].tid
      BY <1>1, <1>2, Typed DEF SameEntries
    <3>3. Kept(e) /\ entry'[e].live = entry[e].live  BY <1>1, <1>2 DEF ListInv, SameEntries
    <3>4. /\ OnList(e, fd_name_mapping) <=> entry[e].live /\ ~ Unlinked(t, e)
          /\ Running(t) => entry[e].live
          /\ pc[t] # "unborn"
      BY <3>2, <3>3 DEF Kept
    <3>5. Unlinked(t, e)' <=> Unlinked(t, e)  BY <2>1
    <3>6. (Running(t)' => Running(t)) /\ pc'[t] # "unborn"
      <4>1. CASE Unmoved(t)  BY <3>4, <4>1 DEF Unmoved, Running, Kind
      <4>2. CASE Moves(t)  BY <3>4, <4>2 DEF Moves
      <4> QED BY <1>2, <4>1, <4>2
    <3>7. (OnList(e, fd_name_mapping) <=> entry[e].live /\ ~ Unlinked(t, e))'
      BY <1>2, <3>2, <3>3, <3>4, <3>5
    <3> QED BY <3>2, <3>3, <3>4, <3>6, <3>7 DEF Kept
  <2>3. ASSUME NEW q \in Procs, pc'[q] = "pushed"
        PROVE  \E e \in 1 .. Len(entry) : entry'[e].tid = q /\ entry'[e].live /\ Newest(q, e)'
    <3>1. pc[q] = "pushed"  BY <1>2, <2>3 DEF Unmoved, Moves, Away
    <3>2. PICK e \in 1 .. Len(entry) : entry[e].tid = q /\ entry[e].live /\ Newest(q, e)
      BY <1>1, <3>1 DEF ListInv
    <3>3. Newest(q, e)'  BY <1>2, <3>2 DEF SameEntries, Newest
    <3> QED BY <1>2, <3>2, <3>3 DEF SameEntries
  <2>4. NoTwice(fd_name_mapping)' /\ \A e : OnList(e, fd_name_mapping)' => e \in 1 .. Len(entry')
    BY <1>1, <1>2 DEF ListInv, SameEntries
  <2>5. Len(entry') = Len(entry)  BY <1>2 DEF SameEntries
  <2> QED BY <2>2, <2>3, <2>4, <2>5 DEF ListInv
<1>8. FdInv'  BY <1>1, <1>2 DEF FdInv, SameEntries
<1>9. CountInv'  BY <1>1, <1>2, QuietRefs DEF CountInv
<1> QED BY <1>3, <1>4, <1>5, <1>6, <1>7, <1>8, <1>9 DEF SyscallsInv

-----------------------------------------------------------------------------
(* One process moves.                                                      *)

\* p is at place afterwards, in a call of this kind, with these pointers.
Moved(p, place, kind, it, inode) ==
    /\ pc' = [pc EXCEPT ![p] = place]
    /\ call' \in [Procs -> Calls] /\ \A q \in Procs \ {p} : call'[q] = call[q]
    /\ call'[p].kind = kind /\ call'[p].it = it /\ call'[p].inode = inode

\* Goto() and what it comes with.
LEMMA GotoOnly ==
    ASSUME TypeInv, NEW p \in Procs, NEW place, Goto(p, place), UNCHANGED call
    PROVE  Moved(p, place, call[p].kind, call[p].it, call[p].inode)
BY DEF TypeInv, Goto, Moved
\* A call begins or ends.
LEMMA GotoBecome ==
    ASSUME TypeInv, NEW p \in Procs, NEW place, Goto(p, place), NEW kind \in Kinds, Become(p, kind)
    PROVE  Moved(p, place, kind, 0, 0)
<1>1. PICK c : c = [NoCall EXCEPT !.kind = kind]  OBVIOUS
<1>2. c \in Calls /\ c.kind = kind /\ c.it = 0 /\ c.inode = 0
  BY <1>1 DEF Calls, NoCall, END_OF_LIST
<1>3. call' = [call EXCEPT ![p] = c]  BY <1>1 DEF Become
<1> QED BY <1>2, <1>3 DEF TypeInv, Goto, Moved
\* A step of a walk.
LEMMA GotoSetIt ==
    ASSUME TypeInv, NEW p \in Procs, NEW place, Goto(p, place), NEW it \in Nat, Set(p, "it", it)
    PROVE  Moved(p, place, call[p].kind, it, call[p].inode)
<1>1. PICK c : c = [call[p] EXCEPT !["it"] = it]  OBVIOUS
<1>2. c \in Calls /\ c.kind = call[p].kind /\ c.it = it /\ c.inode = call[p].inode
  BY <1>1 DEF TypeInv, Calls
<1>3. call' = [call EXCEPT ![p] = c]  BY <1>1 DEF Set, TypeInv
<1> QED BY <1>2, <1>3 DEF TypeInv, Goto, Moved
\* An inode is opened, or about to be closed.
LEMMA GotoSetInode ==
    ASSUME TypeInv, NEW p \in Procs, NEW place, Goto(p, place), NEW i \in Nat, Set(p, "inode", i)
    PROVE  Moved(p, place, call[p].kind, call[p].it, i)
<1>1. PICK c : c = [call[p] EXCEPT !["inode"] = i]  OBVIOUS
<1>2. c \in Calls /\ c.kind = call[p].kind /\ c.it = call[p].it /\ c.inode = i
  BY <1>1 DEF TypeInv, Calls
<1>3. call' = [call EXCEPT ![p] = c]  BY <1>1 DEF Set, TypeInv
<1> QED BY <1>2, <1>3 DEF TypeInv, Goto, Moved
\* load() is over and start_process() opens the file once more.
LEMMA GotoSetKind ==
    ASSUME TypeInv, NEW p \in Procs, NEW place, Goto(p, place), NEW k \in Kinds, Set(p, "kind", k)
    PROVE  Moved(p, place, k, call[p].it, call[p].inode)
<1>1. PICK c : c = [call[p] EXCEPT !["kind"] = k]  OBVIOUS
<1>2. c \in Calls /\ c.kind = k /\ c.it = call[p].it /\ c.inode = call[p].inode
  BY <1>1 DEF TypeInv, Calls
<1>3. call' = [call EXCEPT ![p] = c]  BY <1>1 DEF Set, TypeInv
<1> QED BY <1>2, <1>3 DEF TypeInv, Goto, Moved

\* Where a quiet move may lead.
Allowed(p, place, kind, it, inode) ==
    /\ place \in Places \ (Away \union {"unborn"}) /\ kind \in Kinds
    /\ it \in 0 .. Len(entry) /\ inode \in 0 .. Len(inodes)
    /\ pc[p] \notin Away /\ pc[p] \notin {"dead", "unborn"}
    /\ Fits(place, kind)
    /\ Unset(place, kind) => Unset(pc[p], call[p].kind)
    /\ place \in {"exit_remove", "removed"} =>
          /\ it \in 1 .. Len(entry) /\ entry[it].tid = p /\ entry[it].live
    /\ call[p].kind = "exit" => kind = "exit"

\* A quiet move of one process keeps the invariant.
LEMMA MoveKeeps ==
    ASSUME SyscallsInv, NEW p \in Procs, NEW place, NEW kind, NEW it, NEW inode,
           Moved(p, place, kind, it, inode), Allowed(p, place, kind, it, inode),
           SameEntries, entry' \in Seq(Entry), dir' \in Nat,
           UNCHANGED <<fd_name_mapping, fd_index, inodes, own>>
    PROVE  SyscallsInv'
<1>1. TypeInv  BY DEF SyscallsInv
<1>2. pc'[p] = place /\ pc' \in [Procs -> Places] /\ \A q \in Procs \ {p} : Unmoved(q)
  BY <1>1 DEF TypeInv, Moved, Allowed, Unmoved
<1>3. call'[p].kind = kind /\ call'[p].it = it /\ call'[p].inode = inode  BY DEF Moved
<1>4. TypeInv'  BY <1>1, <1>2 DEF TypeInv, Moved
<1>5. Moves(p)
  <2>1. pc[p] \notin Away /\ pc'[p] \notin Away /\ pc'[p] # "unborn"  BY <1>2 DEF Allowed
  <2>2. Placed(p)'  BY <1>2, <1>3 DEF Allowed, Placed
  <2>3. Reaches(p)'
    <3>1. it <= Len(entry') /\ inode <= Len(inodes')  BY DEF Allowed, SameEntries
    <3> QED BY <1>3, <3>1 DEF Reaches
  <2>4. Fresh(p)' => Fresh(p)  BY <1>2, <1>3 DEF Allowed, Fresh
  <2>5. pc'[p] \in {"exit_remove", "removed"} =>
          /\ call'[p].it \in 1 .. Len(entry)
          /\ entry[call'[p].it].tid = p /\ entry[call'[p].it].live
    BY <1>2, <1>3 DEF Allowed
  <2>6. Running(p)' => Running(p)  BY <1>3 DEF Allowed, Running, Kind
  <2> QED BY <2>1, <2>2, <2>3, <2>4, <2>5, <2>6 DEF Moves
<1>6. Quiet  BY <1>2, <1>5 DEF Quiet
<1> QED BY <1>4, <1>6, QuietKeeps

\* What does not touch the entries.
LEMMA EntriesSame ==
    ASSUME TypeInv, UNCHANGED entry
    PROVE  SameEntries /\ SameFiles /\ entry' \in Seq(Entry)
BY DEF TypeInv, SameEntries, SameFiles

\* A crash stops everything where it is.
LEMMA BadKeeps ==
    ASSUME SyscallsInv, NEW what, Bad(what)
    PROVE  SyscallsInv'
<1>1. UNCHANGED <<pc, call, fd_index, fd_name_mapping, entry, inodes, dir, own>>
  BY DEF Bad, listVars, fsVars
<1>2. TypeInv /\ TypeInv'  BY <1>1 DEF SyscallsInv, TypeInv
<1>3. Quiet  BY <1>1 DEF Quiet, SameEntries, Unmoved
<1> QED BY <1>2, <1>3, QuietKeeps

-----------------------------------------------------------------------------
(* The pointers a walk follows.                                            *)

\* list_begin() and list_next() give an entry there has been, or the end.
LEMMA WalkStays ==
    ASSUME SyscallsInv
    PROVE  /\ ListBegin \in 0 .. Len(entry)
           /\ \A e \in 1 .. Len(entry) : ListNext(e) \in 0 .. Len(entry)
<1>1. TypeInv /\ BoundInv /\ ListInv  BY DEF SyscallsInv
<1>2. Len(entry) \in Nat /\ \A e \in 1 .. Len(entry) : entry[e].next \in Nat  BY <1>1, Typed
<1>3. PICK n \in Nat : n = Len(fd_name_mapping) /\ DOMAIN fd_name_mapping = 1 .. n
  BY <1>1 DEF TypeInv
<1>4. \A i \in 1 .. n : fd_name_mapping[i] \in 1 .. Len(entry)
  <2>1. \A i \in 1 .. n : OnList(fd_name_mapping[i], fd_name_mapping)  BY <1>3 DEF OnList
  <2> QED BY <1>1, <2>1 DEF ListInv
<1>5. ListBegin \in 0 .. Len(entry)
  <2>1. CASE fd_name_mapping = << >>  BY <1>2, <2>1 DEF ListBegin, END_OF_LIST
  <2>2. CASE fd_name_mapping # << >>
    <3>1. 1 \in 1 .. n /\ Head(fd_name_mapping) = fd_name_mapping[1]
      BY <1>1, <1>3, <2>2 DEF TypeInv
    <3>2. Head(fd_name_mapping) \in 1 .. Len(entry)  BY <1>4, <3>1
    <3> QED BY <1>2, <2>2, <3>2 DEF ListBegin
  <2> QED BY <2>1, <2>2
<1>6. ASSUME NEW e \in 1 .. Len(entry) PROVE ListNext(e) \in 0 .. Len(entry)
  <2>1. CASE OnList(e, fd_name_mapping)
    <3>1. PICK i : i = CHOOSE j \in DOMAIN fd_name_mapping : fd_name_mapping[j] = e  OBVIOUS
    <3>2. i \in 1 .. n  BY <1>3, <2>1, <3>1 DEF OnList
    <3>3. ListNext(e) = IF i = n THEN 0 ELSE fd_name_mapping[i + 1]
      BY <1>3, <2>1, <3>1 DEF ListNext, Successor, END_OF_LIST
    <3>4. i # n => i + 1 \in 1 .. n  BY <3>2
    <3>5. i # n => fd_name_mapping[i + 1] \in 1 .. Len(entry)  BY <1>4, <3>4
    <3> QED BY <1>2, <3>3, <3>5
  <2>2. CASE ~ OnList(e, fd_name_mapping)
    <3>1. ListNext(e) = entry[e].next  BY <2>2 DEF ListNext, Successor
    <3> QED BY <1>1, <1>2, <3>1 DEF BoundInv
  <2> QED BY <2>1, <2>2
<1> QED BY <1>5, <1>6

\* What is known of a process.
LEMMA Known ==
    ASSUME SyscallsInv, NEW p \in Procs
    PROVE  /\ TypeInv /\ pc[p] \in Places /\ call[p].kind \in Kinds
           /\ call[p].it \in 0 .. Len(entry) /\ call[p].inode \in 0 .. Len(inodes)
           /\ Len(entry) \in Nat /\ Len(inodes) \in Nat
           /\ Fits(pc[p], call[p].kind) /\ Exits(p) /\ dir \in Nat
<1>1. TypeInv /\ BoundInv /\ PlaceInv /\ ExitInv  BY DEF SyscallsInv
<1>2. /\ call[p].it \in Nat /\ call[p].inode \in Nat /\ Len(entry) \in Nat /\ Len(inodes) \in Nat
      /\ pc[p] \in Places /\ call[p].kind \in Kinds
  BY <1>1, Typed
<1>3. call[p].it <= Len(entry) /\ call[p].inode <= Len(inodes)  BY <1>1 DEF BoundInv, Reaches
<1>4. Fits(pc[p], call[p].kind) /\ Exits(p)  BY <1>1 DEF PlaceInv, Placed, ExitInv
<1> QED BY <1>1, <1>2, <1>3, <1>4 DEF TypeInv

-----------------------------------------------------------------------------
(* The quiet actions.                                                      *)


\* syscall_handler() of a call.
LEMMA EnterKeeps ==
    ASSUME SyscallsInv, NEW p \in Procs, NEW kind \in DOMAIN Begins,
           NEW fd \in IF kind \in WithFd THEN HandedOut \union {0} ELSE {0}, Enter(p, kind, fd)
    PROVE  SyscallsInv'
<1>1. /\ TypeInv /\ Len(inodes) \in Nat /\ Fits(pc[p], call[p].kind) /\ ListBegin \in 0 .. Len(entry)
      /\ Len(entry) \in Nat /\ dir \in Nat
  BY Known, WalkStays
<1>2. pc[p] = "user" /\ UNCHANGED <<entry, fd_name_mapping, fd_index, inodes, own, dir>>
  BY DEF Enter, At, listVars, fsVars
<1>3. fd \in Nat
  <2>1. \A e \in DOMAIN entry : entry[e].fd \in Nat  BY <1>1, Typed
  <2> QED BY <2>1 DEF HandedOut
<1>4. kind \in Kinds /\ Begins[kind] \in {"acquire", "walk", "getc"} /\ kind \notin {"load", "start", "failed", "exit"}
      /\ Fits(Begins[kind], kind)
  BY DEF Begins, Kinds, Locking, Walking, Fits, OnExit, Closing, Starting
<1>5. Moved(p, Begins[kind], kind, ListBegin, 0)
  <2>1. PICK c, b : c = [NoCall EXCEPT !.kind = kind, !.fd = fd, !.it = b] /\ b = ListBegin
    OBVIOUS
  <2>2. b \in Nat  BY <1>1, <2>1
  <2>3. c = [kind |-> kind, fd |-> fd, it |-> b, inode |-> 0, child |-> Nobody]
    BY <2>1 DEF NoCall
  <2>4. c \in Calls /\ c.kind = kind /\ c.it = b /\ c.inode = 0
    BY <1>3, <1>4, <2>2, <2>3 DEF Calls
  <2>5. call' = [call EXCEPT ![p] = c] /\ pc' = [pc EXCEPT ![p] = Begins[kind]]
    BY <2>1 DEF Enter, Goto
  <2> QED BY <1>1, <2>1, <2>4, <2>5 DEF TypeInv, Moved
<1>6. call[p].kind = "none"  BY <1>1, <1>2 DEF Fits
<1>7. Allowed(p, Begins[kind], kind, ListBegin, 0)
  BY <1>1, <1>2, <1>4, <1>6 DEF Allowed, Places, Away, Unset
<1> QED BY <1>1, <1>2, <1>5, <1>7, EntriesSame, MoveKeeps

\* syscall_exit() begins.
LEMMA ExitKeeps ==
    ASSUME SyscallsInv, NEW p \in Procs, Exit(p) \/ FaultAbove(p)
    PROVE  SyscallsInv'
<1>1. TypeInv /\ Fits(pc[p], call[p].kind) /\ Len(entry) \in Nat /\ Len(inodes) \in Nat /\ dir \in Nat
  BY Known
<1>2. /\ pc[p] \in {"user", "transfer"} /\ Goto(p, "exit_find") /\ Become(p, "exit")
      /\ UNCHANGED <<entry, fd_name_mapping, fd_index, inodes, own, dir>>
  BY DEF Exit, FaultAbove, At, listVars, fsVars
<1>3. Moved(p, "exit_find", "exit", 0, 0)  BY <1>1, <1>2, GotoBecome DEF Kinds
<1>4. Allowed(p, "exit_find", "exit", 0, 0)
  BY <1>1, <1>2 DEF Allowed, Places, Away, Unset, Kinds, Fits, OnExit, Closing, Starting
<1> QED BY <1>1, <1>2, <1>3, <1>4, EntriesSame, MoveKeeps

\* kill().
LEMMA KillKeeps ==
    ASSUME SyscallsInv, NEW p \in Procs, Kill(p)
    PROVE  SyscallsInv'
<1>1. /\ TypeInv /\ Fits(pc[p], call[p].kind) /\ call[p].kind \in Kinds /\ dir \in Nat
      /\ call[p].it \in 0 .. Len(entry) /\ call[p].inode \in 0 .. Len(inodes)
  BY Known
<1>2. /\ pc[p] = "user" /\ Goto(p, "dead") /\ UNCHANGED call
      /\ UNCHANGED <<entry, fd_name_mapping, fd_index, inodes, own, dir>>
  BY DEF Kill, At, listVars, fsVars
<1>3. PICK k, it, i : k = call[p].kind /\ it = call[p].it /\ i = call[p].inode  OBVIOUS
<1>4. Moved(p, "dead", k, it, i)  BY <1>1, <1>2, <1>3, GotoOnly
<1>5. Allowed(p, "dead", k, it, i)
  BY <1>1, <1>2, <1>3 DEF Allowed, Places, Away, Unset, Kinds, Fits, OnExit, Closing, Starting
<1> QED BY <1>1, <1>2, <1>4, <1>5, EntriesSame, MoveKeeps

\* The return to the caller, out of input_getc() or with syscall_lock given back.
LEMMA ReturnKeeps ==
    ASSUME SyscallsInv, NEW p \in Procs, pc[p] \in {"getc", "release", "use"},
           Goto(p, "user"), Become(p, "none"),
           UNCHANGED <<entry, fd_name_mapping, fd_index, inodes, own, dir>>
    PROVE  SyscallsInv'
<1>1. TypeInv /\ Fits(pc[p], call[p].kind) /\ Len(entry) \in Nat /\ Len(inodes) \in Nat /\ dir \in Nat
  BY Known
<1>2. Moved(p, "user", "none", 0, 0)  BY <1>1, GotoBecome DEF Kinds
<1>3. Allowed(p, "user", "none", 0, 0)
  BY <1>1 DEF Allowed, Places, Away, Unset, Kinds, Fits, OnExit, Closing, Starting
<1> QED BY <1>1, <1>2, <1>3, EntriesSame, MoveKeeps

\* input_getc() has a key.
LEMMA KeyPressedKeeps ==
    ASSUME SyscallsInv, NEW p \in Procs, KeyPressed(p)
    PROVE  SyscallsInv'
<1>1. /\ pc[p] = "getc" /\ Goto(p, "user") /\ Become(p, "none")
      /\ UNCHANGED <<entry, fd_name_mapping, fd_index, inodes, own, dir>>
  BY DEF KeyPressed, Return, At, listVars, fsVars
<1> QED BY <1>1, ReturnKeeps

\* lock_acquire (&syscall_lock).
LEMMA AcquireKeeps ==
    ASSUME SyscallsInv, NEW p \in Procs, Acquire(p)
    PROVE  SyscallsInv'
<1>1. /\ TypeInv /\ Fits(pc[p], call[p].kind) /\ dir \in Nat /\ ListBegin \in 0 .. Len(entry)
      /\ call[p].it \in 0 .. Len(entry) /\ call[p].inode \in 0 .. Len(inodes)
  BY Known, WalkStays
<1>2. pc[p] = "acquire" /\ UNCHANGED <<entry, fd_name_mapping, fd_index, inodes, own, dir>>
  BY DEF Acquire, At, listVars, fsVars
<1>3. PICK k, i : k = call[p].kind /\ i = call[p].inode  OBVIOUS
<1>4. k \in Locking  BY <1>1, <1>2, <1>3 DEF Fits
<1>5. CASE k = "read"
  <2>1. Goto(p, "transfer") /\ UNCHANGED call  BY <1>3, <1>5 DEF Acquire, Kind
  <2>2. PICK it : it = call[p].it  OBVIOUS
  <2>3. Moved(p, "transfer", k, it, i)  BY <1>1, <1>3, <2>1, <2>2, GotoOnly
  <2>4. Allowed(p, "transfer", k, it, i)
    BY <1>1, <1>2, <1>3, <1>5, <2>2 DEF Allowed, Places, Away, Unset, Kinds, Locking, Fits, OnExit, Closing, Starting
  <2> QED BY <1>1, <1>2, <2>3, <2>4, EntriesSame, MoveKeeps
<1>6. CASE k # "read"
  <2>1. PICK place : Goto(p, place) /\ place \in {"walk", "fs_acquire", "execute"}
                     /\ (place = "walk" => k \in {"open", "filesize", "write", "seek"})
    BY <1>3, <1>4, <1>6 DEF Acquire, Kind, Locking
  <2>2. PICK it : it = ListBegin  OBVIOUS
  <2>3. Set(p, "it", it)  BY <1>3, <1>6, <2>2 DEF Acquire, Kind
  <2>4. it \in Nat  BY <1>1, <2>2
  <2>5. Moved(p, place, k, it, i)  BY <1>1, <1>3, <2>1, <2>3, <2>4, GotoSetIt
  <2>6. Allowed(p, place, k, it, i)
    BY <1>1, <1>2, <1>3, <1>4, <2>1, <2>2
    DEF Allowed, Places, Away, Unset, Kinds, Locking, Walking, Fits, OnExit, Closing, Starting
  <2> QED BY <1>1, <1>2, <2>5, <2>6, EntriesSame, MoveKeeps
<1> QED BY <1>5, <1>6

\* lock_acquire() and lock_release() of filesys_lock, filesys_create(), the end of
\* process_execute(), a transfer: the process only goes on.
LEMMA GoesOn ==
    ASSUME SyscallsInv, NEW p \in Procs, NEW place, Goto(p, place), UNCHANGED call,
           UNCHANGED <<entry, fd_name_mapping, fd_index, inodes, own>>, dir' \in Nat,
           \/ place = "release" /\ pc[p] \in {"fs", "fs_release", "exec_wait", "execute", "transfer", "use"}
           \/ place = "use" /\ pc[p] \in {"walk", "release"}
           \/ place = "fs" /\ pc[p] = "fs_acquire"
           \/ place = "loaded" /\ pc[p] = "fs"
           \/ place \in {"transfer", "release", "fs_acquire"} /\ pc[p] = "walk"
           \/ place = "acquire" /\ pc[p] = "walk" /\ call[p].kind = "read"
           \/ place = "dead" /\ pc[p] = "exit_walk"
           \/ place = "removed" /\ pc[p] = "exit_remove"
    PROVE  SyscallsInv'
<1>1. /\ TypeInv /\ Fits(pc[p], call[p].kind) /\ call[p].kind \in Kinds
      /\ call[p].it \in 0 .. Len(entry) /\ call[p].inode \in 0 .. Len(inodes) /\ Exits(p)
  BY Known
<1>2. PICK k, it, i : k = call[p].kind /\ it = call[p].it /\ i = call[p].inode  OBVIOUS
<1>3. Moved(p, place, k, it, i)  BY <1>1, <1>2, GotoOnly
<1>4. Fits(place, k)
  BY <1>1, <1>2 DEF Fits, OnExit, Closing, Starting, Locking, Walking
<1>5. Unset(place, k) => Unset(pc[p], call[p].kind)  BY <1>1, <1>2 DEF Unset, Fits, Walking
<1>6. place = "removed" => it \in 1 .. Len(entry) /\ entry[it].tid = p /\ entry[it].live
  <2>1. SUFFICES ASSUME place = "removed"
                 PROVE  it \in 1 .. Len(entry) /\ entry[it].tid = p /\ entry[it].live
    OBVIOUS
  <2>2. pc[p] = "exit_remove"  BY <2>1
  <2>3. call[p].kind = "exit"  BY <1>1, <2>2 DEF Fits, OnExit
  <2> QED BY <1>1, <1>2, <2>2, <2>3 DEF Exits
<1>7. place # "exit_remove" /\ place \in Places \ (Away \union {"unborn"})  BY DEF Places, Away
<1>8. pc[p] \notin Away /\ pc[p] \notin {"dead", "unborn"}  BY DEF Away
<1>9. Allowed(p, place, k, it, i)  BY <1>1, <1>2, <1>4, <1>5, <1>6, <1>7, <1>8 DEF Allowed
<1> QED BY <1>1, <1>3, <1>9, EntriesSame, MoveKeeps

\* lock_release (&syscall_lock).
LEMMA ReleaseKeeps ==
    ASSUME SyscallsInv, NEW p \in Procs, Release(p)
    PROVE  SyscallsInv'
<1>1. dir \in Nat /\ pc[p] = "release" /\ UNCHANGED <<entry, fd_name_mapping, fd_index, inodes, own, dir>>
  BY Known DEF Release, At, listVars, fsVars
<1>2. (Goto(p, "use") /\ UNCHANGED call) \/ (Goto(p, "user") /\ Become(p, "none"))
  BY DEF Release, Return
<1>3. CASE Goto(p, "use") /\ UNCHANGED call  BY <1>1, <1>3, GoesOn
<1>4. CASE Goto(p, "user") /\ Become(p, "none")  BY <1>1, <1>4, ReturnKeeps
<1> QED BY <1>2, <1>3, <1>4

\* file_length(), file_seek() and file_tell().
LEMMA UseKeeps ==
    ASSUME SyscallsInv, NEW p \in Procs, Use(p)
    PROVE  SyscallsInv'
<1>1. CASE \E what : Bad(what)  BY <1>1, BadKeeps
<1>2. CASE ~ \E what : Bad(what)
  <2>1. dir \in Nat /\ pc[p] = "use" /\ UNCHANGED <<entry, fd_name_mapping, fd_index, inodes, own, dir>>
    BY <1>2, Known DEF Use, At, listVars, fsVars
  <2>2. (Goto(p, "release") /\ UNCHANGED call) \/ (Goto(p, "user") /\ Become(p, "none"))
    BY <1>2 DEF Use, Return
  <2>3. CASE Goto(p, "release") /\ UNCHANGED call  BY <2>1, <2>3, GoesOn
  <2>4. CASE Goto(p, "user") /\ Become(p, "none")  BY <2>1, <2>4, ReturnKeeps
  <2> QED BY <2>2, <2>3, <2>4
<1> QED BY <1>1, <1>2

\* The actions that do no more than that.
LEMMA GoingOnKeeps ==
    ASSUME SyscallsInv, NEW p \in Procs,
           Transfer(p) \/ FsAcquire(p) \/ FsRelease(p) \/ ExecWait(p) \/ ExitRemove(p)
    PROVE  SyscallsInv'
<1>0. dir \in Nat  BY Known
<1>1. CASE Transfer(p)
  <2>1. (\E what : Bad(what)) \/ (/\ pc[p] = "transfer" /\ Goto(p, "release") /\ UNCHANGED call
                                  /\ UNCHANGED <<entry, fd_name_mapping, fd_index, inodes, own, dir>>)
    BY <1>1 DEF Transfer, At, listVars, fsVars
  <2> QED BY <1>0, <2>1, BadKeeps, GoesOn
<1>2. CASE FsAcquire(p)
  <2>1. /\ pc[p] = "fs_acquire" /\ Goto(p, "fs") /\ UNCHANGED call
        /\ UNCHANGED <<entry, fd_name_mapping, fd_index, inodes, own, dir>>
    BY <1>2 DEF FsAcquire, At, listVars, fsVars
  <2> QED BY <1>0, <2>1, GoesOn
<1>3. CASE FsRelease(p)
  <2>1. /\ pc[p] = "fs_release" /\ Goto(p, "release") /\ UNCHANGED call
        /\ UNCHANGED <<entry, fd_name_mapping, fd_index, inodes, own, dir>>
    BY <1>3 DEF FsRelease, At, listVars, fsVars
  <2> QED BY <1>0, <2>1, GoesOn
<1>4. CASE ExecWait(p)
  <2>1. /\ pc[p] = "exec_wait" /\ Goto(p, "release") /\ UNCHANGED call
        /\ UNCHANGED <<entry, fd_name_mapping, fd_index, inodes, own, dir>>
    BY <1>4 DEF ExecWait, At, listVars, fsVars
  <2> QED BY <1>0, <2>1, GoesOn
<1>5. CASE ExitRemove(p)
  <2>1. Bad("torn_list") \/ (/\ pc[p] = "exit_remove" /\ Goto(p, "removed") /\ UNCHANGED call
                             /\ UNCHANGED <<entry, fd_name_mapping, fd_index, inodes, own, dir>>)
    BY <1>5 DEF ExitRemove, At, listVars, fsVars
  <2> QED BY <1>0, <2>1, BadKeeps, GoesOn
<1> QED BY <1>1, <1>2, <1>3, <1>4, <1>5

\* There is always a sector that no open inode has.
LEMMA FreeSector ==
    ASSUME TypeInv
    PROVE  \E s \in 1 .. Len(inodes) + 1 :
              \A i \in DOMAIN inodes : inodes[i].live => inodes[i].sector # s
<1>1. PICK n \in Nat : n = Len(inodes) /\ DOMAIN inodes = 1 .. n  BY Typed
<1>2. SUFFICES ASSUME \A s \in 1 .. n + 1 : \E i \in 1 .. n : inodes[i].sector = s
               PROVE  FALSE
  BY <1>1
<1>3. PICK f : f = [s \in 1 .. n + 1 |-> CHOOSE i \in 1 .. n : inodes[i].sector = s]  OBVIOUS
<1>4. \A s \in 1 .. n + 1 : f[s] \in 1 .. n /\ inodes[f[s]].sector = s  BY <1>2, <1>3
<1>5. f \in [1 .. n + 1 -> 1 .. n]  BY <1>3, <1>4
<1>6. /\ IsFiniteSet(1 .. n + 1) /\ IsFiniteSet(1 .. n)
      /\ Cardinality(1 .. n + 1) = n + 1 /\ Cardinality(1 .. n) = n
  BY FS_Interval
<1>7. PICK a \in 1 .. n + 1, b \in 1 .. n + 1 : a # b /\ f[a] = f[b]
  BY <1>5, <1>6, FS_PigeonHole, SMTT(20)
<1> QED BY <1>4, <1>7

\* filesys_create().
LEMMA FsCreateKeeps ==
    ASSUME SyscallsInv, NEW p \in Procs, FsCreate(p)
    PROVE  SyscallsInv'
<1>1. TypeInv /\ Len(inodes) \in Nat /\ dir \in Nat  BY Known
<1>2. /\ pc[p] = "fs" /\ Goto(p, "release") /\ UNCHANGED call
      /\ UNCHANGED <<entry, fd_name_mapping, fd_index, inodes, own>>
  BY DEF FsCreate, At, listVars
<1>3. dir' \in Nat
  <2>1. CASE UNCHANGED dir  BY <1>1, <2>1
  <2>2. CASE dir' # dir
    <3>1. PICK s : s = CHOOSE x \in 1 .. Len(inodes) + 1 :
                          \A i \in DOMAIN inodes : inodes[i].live => inodes[i].sector # x
      OBVIOUS
    <3>2. \E s1 \in 1 .. Len(inodes) + 1 :
             \A i \in DOMAIN inodes : inodes[i].live => inodes[i].sector # s1
      BY <1>1, FreeSector
    <3>3. s \in 1 .. Len(inodes) + 1  BY <3>1, <3>2
    <3>4. dir' = s  BY <2>2, <3>1 DEF FsCreate
    <3> QED BY <1>1, <3>3, <3>4
  <2> QED BY <2>1, <2>2
<1> QED BY <1>2, <1>3, GoesOn

\* One element of a walk: compared and found, or passed, or the end.
LEMMA WalkKeeps ==
    ASSUME SyscallsInv, NEW p \in Procs, Walk(p)
    PROVE  SyscallsInv'
<1>1. /\ TypeInv /\ Fits(pc[p], call[p].kind) /\ call[p].kind \in Kinds /\ dir \in Nat
      /\ call[p].it \in 0 .. Len(entry) /\ call[p].inode \in 0 .. Len(inodes)
      /\ Len(entry) \in Nat /\ Len(inodes) \in Nat
  BY Known
<1>2. pc[p] = "walk"  BY DEF Walk, At
<1>3. PICK k, it, i : k = call[p].kind /\ it = call[p].it /\ i = call[p].inode  OBVIOUS
<1>4. k \in Walking  BY <1>1, <1>2, <1>3 DEF Fits
<1>5. ASSUME Goto(p, "user"), Become(p, "none"), SameEntries, entry' \in Seq(Entry),
             UNCHANGED <<fd_name_mapping, fd_index, inodes, own, dir>>
      PROVE  SyscallsInv'
  <2>1. Moved(p, "user", "none", 0, 0)  BY <1>1, <1>5, GotoBecome DEF Kinds
  <2>2. Allowed(p, "user", "none", 0, 0)
    BY <1>1, <1>2, <1>3, <1>4 DEF Allowed, Places, Away, Unset, Kinds, Fits, OnExit, Closing, Starting, Walking
  <2> QED BY <1>1, <1>5, <2>1, <2>2, MoveKeeps
<1>6. CASE it = END_OF_LIST
  <2>1. CASE Kind(p, Unchecked)
    <3>1. Bad("null_file")  BY <1>3, <1>6, <2>1 DEF Walk
    <3> QED BY <3>1, BadKeeps
  <2>2. CASE ~ Kind(p, Unchecked)
    <3>1. NotFound(p) /\ UNCHANGED <<entry, fd_name_mapping, fd_index, inodes, own, dir>>
      BY <1>3, <1>6, <2>2 DEF Walk, listVars, fsVars
    <3>2. k \in {"open", "filesize", "write", "read", "close"}
      BY <1>3, <1>4, <2>2 DEF Kind, Unchecked, Walking
    <3>3. \/ Goto(p, "user") /\ Become(p, "none")
          \/ Goto(p, "release") /\ UNCHANGED call
          \/ Goto(p, "fs_acquire") /\ UNCHANGED call
      BY <1>3, <3>1, <3>2 DEF NotFound, Kind, Return
    <3>4. SameEntries /\ entry' \in Seq(Entry) /\ dir' \in Nat  BY <1>1, <3>1, EntriesSame
    <3> QED BY <1>2, <1>5, <3>1, <3>3, <3>4, GoesOn
  <2> QED BY <2>1, <2>2
<1>7. CASE it # END_OF_LIST /\ ~ entry[it].live
  <2>1. Bad("freed_entry")  BY <1>3, <1>7 DEF Walk
  <2> QED BY <2>1, BadKeeps
<1>8. CASE it # END_OF_LIST /\ entry[it].live
  <2>1. UNCHANGED <<fd_name_mapping, fd_index, inodes, own, dir>>
    BY <1>3, <1>8 DEF Walk, fsVars
  <2>2. Found(p) \/ (Set(p, "it", ListNext(it)) /\ UNCHANGED <<pc, entry>>)
    BY <1>3, <1>8 DEF Walk
  <2>3. it \in 1 .. Len(entry)  BY <1>1, <1>3, <1>8 DEF END_OF_LIST
  <2>4. CASE Found(p)
    <3>1. CASE k = "close"
      <4>1. Goto(p, "user") /\ Become(p, "none") /\ entry' = [entry EXCEPT ![it].closed = TRUE]
        BY <1>3, <2>4, <3>1 DEF Found, Kind, Return
      <4>2. PICK r : r = [entry[it] EXCEPT !.closed = TRUE]  OBVIOUS
      <4>3. entry[it] \in Entry  BY <1>1, <2>3, Typed
      <4>4. r \in Entry /\ r.tid = entry[it].tid /\ r.fd = entry[it].fd /\ r.inode = entry[it].inode
            /\ r.live = entry[it].live /\ r.next = entry[it].next
        BY <4>2, <4>3 DEF Entry
      <4>5. entry' = [entry EXCEPT ![it] = r]  BY <4>1, <4>2
      <4>6. SameEntries /\ entry' \in Seq(Entry)
        BY <1>1, <2>3, <4>4, <4>5 DEF SameEntries, TypeInv
      <4> QED BY <1>5, <2>1, <4>1, <4>6
    <3>2. CASE k \in {"seek", "tell"}
      <4>1. Goto(p, "use") /\ UNCHANGED <<call, entry>>
        BY <1>3, <2>4, <3>2 DEF Found, Kind
      <4> QED BY <1>1, <1>2, <2>1, <4>1, GoesOn
    <3>3. CASE k = "read"
      <4>1. Goto(p, "acquire") /\ UNCHANGED <<call, entry>>
        BY <1>3, <2>4, <3>3 DEF Found, Kind
      <4> QED BY <1>1, <1>2, <1>3, <2>1, <3>3, <4>1, GoesOn
    <3>4. CASE k \in {"open", "filesize", "write"}
      <4>1. PICK place \in {"transfer", "release", "fs_acquire"} : Goto(p, place)
        BY <1>3, <2>4, <3>4 DEF Found, Kind
      <4>2. UNCHANGED <<call, entry>>  BY <1>3, <2>4, <3>4 DEF Found, Kind
      <4> QED BY <1>1, <1>2, <2>1, <4>1, <4>2, GoesOn
    <3> QED BY <1>4, <3>1, <3>2, <3>3, <3>4 DEF Walking
  <2>5. CASE Set(p, "it", ListNext(it)) /\ UNCHANGED <<pc, entry>>
    <3>1. PICK n : n = ListNext(it) /\ n \in Nat /\ n \in 0 .. Len(entry)  BY <2>3, WalkStays, <1>1
    <3>2. Goto(p, "walk")  BY <1>1, <1>2, <2>5 DEF Goto, TypeInv
    <3>3. Moved(p, "walk", k, n, i)  BY <1>1, <1>3, <2>5, <3>1, <3>2, GotoSetIt
    <3>4. Allowed(p, "walk", k, n, i)
      BY <1>1, <1>2, <1>3, <1>4, <3>1
      DEF Allowed, Places, Away, Unset, Kinds, Fits, OnExit, Closing, Starting, Walking
    <3> QED BY <1>1, <2>1, <2>5, <3>3, <3>4, EntriesSame, MoveKeeps
  <2> QED BY <2>2, <2>4, <2>5
<1> QED BY <1>6, <1>7, <1>8

\* find_mapping_by_tid() starts at the beginning.
LEMMA ExitFindKeeps ==
    ASSUME SyscallsInv, NEW p \in Procs, ExitFind(p)
    PROVE  SyscallsInv'
<1>1. /\ TypeInv /\ Fits(pc[p], call[p].kind) /\ call[p].inode \in 0 .. Len(inodes)
      /\ dir \in Nat /\ Len(entry) \in Nat
  BY Known
<1>2. PICK b : b = ListBegin /\ b \in 0 .. Len(entry) /\ b \in Nat  BY <1>1, WalkStays
<1>3. PICK i : i = call[p].inode  OBVIOUS
<1>4. /\ pc[p] = "exit_find" /\ Goto(p, "exit_walk") /\ Set(p, "it", b)
      /\ UNCHANGED <<entry, fd_name_mapping, fd_index, inodes, own, dir>>
  BY <1>2 DEF ExitFind, At, listVars, fsVars
<1>5. call[p].kind = "exit"  BY <1>1, <1>4 DEF Fits, OnExit
<1>6. Moved(p, "exit_walk", "exit", b, i)  BY <1>1, <1>2, <1>3, <1>4, <1>5, GotoSetIt
<1>7. Allowed(p, "exit_walk", "exit", b, i)
  BY <1>1, <1>2, <1>3, <1>4, <1>5 DEF Allowed, Places, Away, Unset, Kinds, Fits, OnExit, Closing, Starting
<1> QED BY <1>1, <1>4, <1>6, <1>7, EntriesSame, MoveKeeps

\* An element of its walk: an entry of the caller's is taken, others are passed.
LEMMA ExitWalkKeeps ==
    ASSUME SyscallsInv, NEW p \in Procs, ExitWalk(p)
    PROVE  SyscallsInv'
<1>1. /\ TypeInv /\ Fits(pc[p], call[p].kind) /\ call[p].inode \in 0 .. Len(inodes)
      /\ dir \in Nat /\ Len(entry) \in Nat /\ call[p].it \in 0 .. Len(entry)
  BY Known
<1>2. PICK it, i : it = call[p].it /\ i = call[p].inode  OBVIOUS
<1>3. pc[p] = "exit_walk"  BY DEF ExitWalk, At
<1>4. call[p].kind = "exit"  BY <1>1, <1>3 DEF Fits, OnExit
<1>5. CASE it = END_OF_LIST
  <2>1. Goto(p, "dead") /\ UNCHANGED <<call, entry, fd_name_mapping, fd_index, inodes, own, dir>>
    BY <1>2, <1>5 DEF ExitWalk, listVars, fsVars
  <2> QED BY <1>1, <1>3, <2>1, GoesOn
<1>6. CASE it # END_OF_LIST /\ ~ entry[it].live
  <2>1. Bad("freed_entry")  BY <1>2, <1>6 DEF ExitWalk
  <2> QED BY <2>1, BadKeeps
<1>7. CASE it # END_OF_LIST /\ entry[it].live
  <2>1. UNCHANGED <<entry, fd_name_mapping, fd_index, inodes, own, dir>>
    BY <1>2, <1>7 DEF ExitWalk, listVars, fsVars
  <2>2. it \in 1 .. Len(entry)  BY <1>1, <1>2, <1>7 DEF END_OF_LIST
  <2>3. CASE entry[it].tid = p
    <3>1. Goto(p, "exit_remove") /\ UNCHANGED call  BY <1>2, <1>7, <2>3 DEF ExitWalk
    <3>2. Moved(p, "exit_remove", "exit", it, i)  BY <1>1, <1>2, <1>4, <3>1, GotoOnly
    <3>3. Allowed(p, "exit_remove", "exit", it, i)
      BY <1>1, <1>2, <1>3, <1>7, <2>2, <2>3
      DEF Allowed, Places, Away, Unset, Kinds, Fits, OnExit, Closing, Starting
    <3> QED BY <1>1, <2>1, <3>2, <3>3, EntriesSame, MoveKeeps
  <2>4. CASE entry[it].tid # p
    <3>1. PICK n : n = ListNext(it) /\ n \in Nat /\ n \in 0 .. Len(entry)  BY <2>2, WalkStays, <1>1
    <3>2. Goto(p, "exit_walk") /\ Set(p, "it", n)
      BY <1>1, <1>2, <1>3, <1>7, <2>4, <3>1 DEF ExitWalk, Goto, TypeInv
    <3>3. Moved(p, "exit_walk", "exit", n, i)  BY <1>1, <1>2, <1>4, <3>1, <3>2, GotoSetIt
    <3>4. Allowed(p, "exit_walk", "exit", n, i)
      BY <1>1, <1>2, <1>3, <3>1 DEF Allowed, Places, Away, Unset, Kinds, Fits, OnExit, Closing, Starting
    <3> QED BY <1>1, <2>1, <3>3, <3>4, EntriesSame, MoveKeeps
  <2> QED BY <2>3, <2>4
<1> QED BY <1>5, <1>6, <1>7

\* The end of start_process().
LEMMA LoadedKeeps ==
    ASSUME SyscallsInv, NEW p \in Procs, Loaded(p)
    PROVE  SyscallsInv'
<1>1. TypeInv /\ Fits(pc[p], call[p].kind) /\ Len(entry) \in Nat /\ Len(inodes) \in Nat /\ dir \in Nat
  BY Known
<1>2. PICK place, k : /\ Goto(p, place) /\ Become(p, k)
                      /\ \/ place = "user" /\ k = "none"
                         \/ place = "exit_find" /\ k = "exit"
  BY Zenon DEF Loaded, Return
<1>3. pc[p] = "loaded" /\ UNCHANGED <<entry, fd_name_mapping, fd_index, inodes, own, dir>>
  BY DEF Loaded, At, listVars, fsVars
<1>4. Moved(p, place, k, 0, 0)  BY <1>1, <1>2, GotoBecome DEF Kinds
<1>5. Allowed(p, place, k, 0, 0)
  BY <1>1, <1>2, <1>3 DEF Allowed, Places, Away, Unset, Kinds, Fits, OnExit, Closing, Starting
<1> QED BY <1>1, <1>3, <1>4, <1>5, EntriesSame, MoveKeeps

\* process_execute(): two processes move, the caller and the one that is created.
LEMMA ExecuteKeeps ==
    ASSUME SyscallsInv, NEW p \in Procs, Execute(p)
    PROVE  SyscallsInv'
<1>1. /\ TypeInv /\ Fits(pc[p], call[p].kind) /\ call[p].kind \in Kinds /\ Len(entry) \in Nat
      /\ Len(inodes) \in Nat /\ dir \in Nat /\ call[p] \in Calls
      /\ call[p].it \in 0 .. Len(entry) /\ call[p].inode \in 0 .. Len(inodes)
  BY Known, Typed
<1>2. pc[p] = "execute" /\ UNCHANGED <<entry, fd_name_mapping, fd_index, inodes, own, dir>>
  BY DEF Execute, At, listVars, fsVars
<1>3. CASE Goto(p, "release") /\ UNCHANGED call  BY <1>1, <1>2, <1>3, GoesOn
<1>4. CASE ~ (Goto(p, "release") /\ UNCHANGED call)
  <2>1. PICK c \in Unborn :
          /\ pc' = [pc EXCEPT ![p] = "exec_wait", ![c] = "fs_acquire"]
          /\ call' = [call EXCEPT ![p].child = c, ![c] = [NoCall EXCEPT !.kind = "load"]]
    BY <1>4 DEF Execute
  <2>2. c \in Procs /\ pc[c] = "unborn" /\ c # p  BY <1>2 DEF Unborn
  <2>3. PICK r, n : r = [call[p] EXCEPT !.child = c] /\ n = [NoCall EXCEPT !.kind = "load"]
    OBVIOUS
  <2>4. r \in Calls /\ r.kind = call[p].kind /\ r.it = call[p].it /\ r.inode = call[p].inode
    BY <1>1, <2>2, <2>3 DEF Calls
  <2>5. n \in Calls /\ n.kind = "load" /\ n.it = 0 /\ n.inode = 0
    BY <2>3 DEF Calls, NoCall, END_OF_LIST, Kinds
  <2>6. call' = [[call EXCEPT ![p] = r] EXCEPT ![c] = n]  BY <2>1, <2>3
  <2>7. /\ call' \in [Procs -> Calls] /\ call'[p] = r /\ call'[c] = n
        /\ \A q \in Procs \ {p, c} : call'[q] = call[q]
    BY <1>1, <2>2, <2>4, <2>5, <2>6 DEF TypeInv
  <2>8. /\ pc' \in [Procs -> Places] /\ pc'[p] = "exec_wait" /\ pc'[c] = "fs_acquire"
        /\ \A q \in Procs \ {p, c} : pc'[q] = pc[q]
    BY <1>1, <2>1, <2>2 DEF TypeInv, Places
  <2>9. TypeInv'  BY <1>1, <1>2, <2>7, <2>8 DEF TypeInv
  <2>10. Moves(p)
    <3>1. pc[p] \notin Away /\ pc'[p] \notin Away /\ pc'[p] # "unborn"
          /\ pc'[p] \notin {"exit_remove", "removed"}
      BY <1>2, <2>8 DEF Away
    <3>2. Placed(p)'  BY <1>1, <1>2, <2>4, <2>7, <2>8 DEF Placed, Fits, OnExit, Closing, Starting
    <3>3. Reaches(p)'  BY <1>1, <1>2, <2>4, <2>7 DEF Reaches
    <3>4. Fresh(p)' => Fresh(p)  BY <1>2, <2>4, <2>7, <2>8 DEF Fresh, Unset
    <3>5. Running(p)' => Running(p)  BY <1>2, <2>4, <2>7 DEF Running, Kind
    <3> QED BY <3>1, <3>2, <3>3, <3>4, <3>5 DEF Moves
  <2>11. Moves(c)
    <3>1. pc[c] \notin Away /\ pc'[c] \notin Away /\ pc'[c] # "unborn"
          /\ pc'[c] \notin {"exit_remove", "removed"}
      BY <2>2, <2>8 DEF Away
    <3>2. Placed(c)'  BY <2>5, <2>7, <2>8 DEF Placed, Fits, OnExit, Closing, Starting
    <3>3. Reaches(c)'  BY <1>1, <1>2, <2>5, <2>7 DEF Reaches
    <3>4. Fresh(c)  BY <2>2 DEF Fresh, Unset
    <3> QED BY <2>2, <3>1, <3>2, <3>3, <3>4 DEF Moves
  <2>12. \A q \in Procs \ {p, c} : Unmoved(q)  BY <2>7, <2>8 DEF Unmoved
  <2>13. SameEntries  BY <1>2 DEF SameEntries
  <2>14. Quiet  BY <1>2, <2>10, <2>11, <2>12, <2>13 DEF Quiet
  <2> QED BY <2>9, <2>14, QuietKeeps
<1> QED BY <1>3, <1>4

-----------------------------------------------------------------------------
(* Steps that change the references.  What they leave alone comes first.   *)

\* Entries stay where they are and whose they are; those of other processes stay live.
KeepOthers(p) ==
    /\ Len(entry) <= Len(entry')
    /\ \A e \in 1 .. Len(entry) :
          /\ entry'[e].tid = entry[e].tid /\ entry'[e].fd = entry[e].fd
          /\ entry'[e].inode = entry[e].inode
          /\ entry[e].tid # p => entry'[e].live = entry[e].live
Leads(p, place, kind, it, inode) ==
    /\ place \in Places /\ Fits(place, kind)
    /\ it \in 0 .. Len(entry') /\ inode \in 0 .. Len(inodes')
    /\ own'[p] \in 0 .. Len(inodes') /\ (Unset(place, kind) => own'[p] = 0)
    /\ \A q \in Procs \ {p} : own'[q] = own[q]

\* What is known of each process still is, if it is for the one that moves.
LEMMA ProcsStay ==
    ASSUME SyscallsInv, TypeInv', NEW p \in Procs, NEW place, NEW kind, NEW it, NEW inode,
           Moved(p, place, kind, it, inode), Leads(p, place, kind, it, inode),
           KeepOthers(p), Len(inodes) <= Len(inodes'), Exits(p)'
    PROVE  PlaceInv' /\ OwnInv' /\ ExitInv'
           /\ \A q \in Procs : Reaches(q)' /\ own'[q] <= Len(inodes')
<1>1. TypeInv /\ BoundInv /\ PlaceInv /\ OwnInv /\ ExitInv  BY DEF SyscallsInv
<1>2. pc'[p] = place /\ call'[p].kind = kind /\ call'[p].it = it /\ call'[p].inode = inode
  BY <1>1 DEF TypeInv, Moved
<1>3. \A q \in Procs \ {p} : pc'[q] = pc[q] /\ call'[q] = call[q] /\ own'[q] = own[q]
  BY <1>1 DEF TypeInv, Moved, Leads
<1>4. PICK n \in Nat, m \in Nat, n1 \in Nat, m1 \in Nat :
         /\ n = Len(entry) /\ m = Len(inodes) /\ n1 = Len(entry') /\ m1 = Len(inodes')
         /\ n <= n1 /\ m <= m1
  BY <1>1 DEF TypeInv, KeepOthers
<1>5. PlaceInv'
  <2>1. SUFFICES ASSUME NEW q \in Procs PROVE Placed(q)'  BY DEF PlaceInv
  <2>2. CASE q = p  BY <1>2, <2>2 DEF Leads, Placed
  <2>3. CASE q # p  BY <1>1, <1>3, <2>3 DEF PlaceInv, Placed
  <2> QED BY <2>2, <2>3
<1>6. OwnInv'
  <2>1. SUFFICES ASSUME NEW q \in Procs PROVE Fresh(q)' => own'[q] = 0  BY DEF OwnInv
  <2>2. CASE q = p  BY <1>2, <2>2 DEF Leads, Fresh
  <2>3. CASE q # p  BY <1>1, <1>3, <2>3 DEF OwnInv, Fresh
  <2> QED BY <2>2, <2>3
<1>7. ASSUME NEW q \in Procs PROVE Reaches(q)' /\ own'[q] <= Len(inodes')
  <2>1. CASE q = p
    <3>1. it <= Len(entry') /\ inode <= Len(inodes') /\ own'[p] <= Len(inodes')  BY <1>4 DEF Leads
    <3> QED BY <1>2, <2>1, <3>1 DEF Reaches
  <2>2. CASE q # p
    <3>1. call[q].it <= n /\ call[q].inode <= m /\ own[q] <= m /\ call[q].it \in Nat
          /\ call[q].inode \in Nat /\ own[q] \in Nat
      BY <1>1, <1>4, Typed DEF BoundInv, Reaches
    <3>2. call[q].it <= n1 /\ call[q].inode <= m1 /\ own[q] <= m1  BY <1>4, <3>1
    <3> QED BY <1>3, <1>4, <2>2, <3>2 DEF Reaches
  <2> QED BY <2>1, <2>2
<1>8. ExitInv'
  <2>1. SUFFICES ASSUME NEW q \in Procs PROVE Exits(q)'  BY DEF ExitInv
  <2>2. CASE q = p  BY <2>2
  <2>3. CASE q # p
    <3>1. Exits(q) /\ pc'[q] = pc[q] /\ call'[q] = call[q]  BY <1>1, <1>3, <2>3 DEF ExitInv
    <3>2. call[q].it \in 1 .. n /\ entry[call[q].it].tid = q =>
             /\ call[q].it \in 1 .. n1
             /\ entry'[call[q].it].tid = q /\ entry'[call[q].it].live = entry[call[q].it].live
             /\ entry'[call[q].it].inode = entry[call[q].it].inode
      BY <1>4, <2>3 DEF KeepOthers
    <3>3. call[q].inode \in 1 .. m => call[q].inode \in 1 .. m1  BY <1>4
    <3>4. call[q].kind = "exit" /\ pc[q] \in {"exit_remove", "removed", "close", "drop", "free"}
             => /\ call[q].it \in 1 .. n
                /\ entry[call[q].it].tid = q /\ entry[call[q].it].live
      BY <1>4, <3>1 DEF Exits
    <3>5. /\ call[q].kind = "exit" /\ pc[q] = "close" => call[q].inode = entry[call[q].it].inode
          /\ pc[q] \in {"push", "close", "drop"} => call[q].inode \in 1 .. m
      BY <1>4, <3>1 DEF Exits
    <3> QED BY <1>4, <3>1, <3>2, <3>3, <3>4, <3>5 DEF Exits
  <2> QED BY <2>2, <2>3
<1> QED BY <1>5, <1>6, <1>7, <1>8

\* The list and what is off it, when no entry is made, linked, removed or freed.
LEMMA ListStays ==
    ASSUME SyscallsInv, NEW p \in Procs, NEW place, NEW kind, NEW it, NEW inode,
           Moved(p, place, kind, it, inode), UNCHANGED <<entry, fd_name_mapping>>,
           place \notin {"unborn", "pushed"}, pc[p] \notin {"unborn", "pushed", "dead"},
           call[p].kind = "exit" => kind = "exit",
           \A e \in 1 .. Len(entry) : Unlinked(p, e)' <=> Unlinked(p, e)
    PROVE  ListInv'
<1>1. TypeInv /\ ListInv  BY DEF SyscallsInv
<1>2. pc'[p] = place /\ call'[p].kind = kind  BY <1>1 DEF TypeInv, Moved
<1>3. \A q \in Procs \ {p} : pc'[q] = pc[q] /\ call'[q] = call[q]  BY <1>1 DEF TypeInv, Moved
<1>4. ASSUME NEW q \in Procs, NEW e \in 1 .. Len(entry) PROVE Unlinked(q, e)' <=> Unlinked(q, e)
  <2>1. CASE q = p  BY <2>1
  <2>2. CASE q # p  BY <1>3, <2>2 DEF Unlinked, Newest
  <2> QED BY <2>1, <2>2
<1>5. ASSUME NEW e \in 1 .. Len(entry) PROVE Kept(e)'
  <2>1. PICK t \in Procs : t = entry[e].tid /\ t = entry'[e].tid  BY <1>1, Typed
  <2>2. Kept(e)  BY <1>1 DEF ListInv
  <2>3. Unlinked(t, e)' <=> Unlinked(t, e)  BY <1>4
  <2>4. Running(t)' => Running(t)
    <3>1. CASE t = p  BY <1>2, <3>1 DEF Running, Kind
    <3>2. CASE t # p  BY <1>3, <3>2 DEF Running, Kind
    <3> QED BY <3>1, <3>2
  <2>5. pc[t] # "unborn" => pc'[t] # "unborn"  BY <1>2, <1>3
  <2>6. /\ OnList(e, fd_name_mapping) <=> entry[e].live /\ ~ Unlinked(t, e)
        /\ Running(t) => entry[e].live
        /\ pc[t] # "unborn"
    BY <2>1, <2>2 DEF Kept
  <2>7. (OnList(e, fd_name_mapping) <=> entry[e].live /\ ~ Unlinked(t, e))'  BY <2>3, <2>6
  <2> QED BY <2>1, <2>4, <2>5, <2>6, <2>7 DEF Kept
<1>6. ASSUME NEW q \in Procs, pc'[q] = "pushed"
      PROVE  \E e \in 1 .. Len(entry) : entry'[e].tid = q /\ entry'[e].live /\ Newest(q, e)'
  <2>1. pc[q] = "pushed"  BY <1>2, <1>3, <1>6
  <2>2. PICK e \in 1 .. Len(entry) : entry[e].tid = q /\ entry[e].live /\ Newest(q, e)
    BY <1>1, <2>1 DEF ListInv
  <2> QED BY <2>2 DEF Newest
<1>7. NoTwice(fd_name_mapping)' /\ \A e : OnList(e, fd_name_mapping)' => e \in 1 .. Len(entry')
  BY <1>1 DEF ListInv
<1> QED BY <1>5, <1>6, <1>7 DEF ListInv

\* The sets that are counted are finite.
LEMMA RefsFinite ==
    ASSUME TypeInv, NEW i
    PROVE  /\ IsFiniteSet(EntryRefs(i)) /\ IsFiniteSet(OwnRefs(i)) /\ IsFiniteSet(CallRefs(i))
           /\ Cardinality(EntryRefs(i)) \in Nat /\ Cardinality(OwnRefs(i)) \in Nat
           /\ Cardinality(CallRefs(i)) \in Nat /\ Refs(i) \in Nat
<1>1. IsFiniteSet(1 .. Len(entry)) /\ DOMAIN entry = 1 .. Len(entry)
  <2>1. Len(entry) \in Nat /\ DOMAIN entry = 1 .. Len(entry)  BY Typed
  <2> QED BY <2>1, FS_Interval
<1>2. IsFiniteSet(Procs)  BY SyscallsAssumption
<1>3. EntryRefs(i) \in SUBSET (1 .. Len(entry)) /\ OwnRefs(i) \in SUBSET Procs /\ CallRefs(i) \in SUBSET Procs
  BY <1>1 DEF EntryRefs, OwnRefs, CallRefs
<1>4. IsFiniteSet(EntryRefs(i)) /\ IsFiniteSet(OwnRefs(i)) /\ IsFiniteSet(CallRefs(i))
  BY <1>1, <1>2, <1>3, FS_Subset
<1>5. /\ Cardinality(EntryRefs(i)) \in Nat /\ Cardinality(OwnRefs(i)) \in Nat
      /\ Cardinality(CallRefs(i)) \in Nat
  BY <1>4, FS_CardinalityType
<1> QED BY <1>4, <1>5 DEF Refs

\* Whether a call counts as a reference to i.
Holds(place, kind, inode, i) ==
    inode = i /\ (place = "push" \/ (place = "close" /\ kind # "exit"))
Holding(p, i) == Holds(pc[p], call[p].kind, call[p].inode, i)

\* The move of one process changes the references of the calls by its own at most.
LEMMA CallsCounted ==
    ASSUME TypeInv, TypeInv', NEW p \in Procs, NEW place, NEW kind, NEW it, NEW inode, NEW i,
           Moved(p, place, kind, it, inode)
    PROVE  /\ Holding(p, i) /\ ~ Holds(place, kind, inode, i)
                 => Cardinality(CallRefs(i)') = Cardinality(CallRefs(i)) - 1
           /\ ~ Holding(p, i) /\ Holds(place, kind, inode, i)
                 => Cardinality(CallRefs(i)') = Cardinality(CallRefs(i)) + 1
           /\ (Holding(p, i) <=> Holds(place, kind, inode, i))
                 => Cardinality(CallRefs(i)') = Cardinality(CallRefs(i))
<1>1. /\ pc'[p] = place /\ call'[p].kind = kind /\ call'[p].inode = inode
      /\ \A q \in Procs \ {p} : pc'[q] = pc[q] /\ call'[q] = call[q]
  BY DEF TypeInv, Moved
<1>2. IsFiniteSet(CallRefs(i)) /\ Cardinality(CallRefs(i)) \in Nat
      /\ IsFiniteSet(CallRefs(i)') /\ Cardinality(CallRefs(i)') \in Nat
  <2>1. IsFiniteSet(CallRefs(i)) /\ Cardinality(CallRefs(i)) \in Nat  BY RefsFinite
  <2>2. CallRefs(i)' \in SUBSET Procs  BY DEF CallRefs
  <2>3. IsFiniteSet(CallRefs(i)')  BY <2>2, SyscallsAssumption, FS_Subset
  <2> QED BY <2>1, <2>3, FS_CardinalityType
<1>3. \A q \in Procs \ {p} : q \in CallRefs(i)' <=> q \in CallRefs(i)  BY <1>1 DEF CallRefs, Kind
<1>4. p \in CallRefs(i) <=> Holding(p, i)  BY DEF CallRefs, Kind, Holding, Holds
<1>5. p \in CallRefs(i)' <=> Holds(place, kind, inode, i)  BY <1>1 DEF CallRefs, Kind, Holds
<1>6. CallRefs(i) \subseteq Procs /\ CallRefs(i)' \subseteq Procs  BY DEF CallRefs
<1>7. PICK S, T : S = CallRefs(i) /\ T = CallRefs(i)'  OBVIOUS
<1>8. CASE Holding(p, i) /\ ~ Holds(place, kind, inode, i)
  <2>1. T = S \ {p} /\ p \in S  BY <1>3, <1>4, <1>5, <1>6, <1>7, <1>8
  <2>2. Cardinality(T) = Cardinality(S) - 1  BY <1>2, <1>7, <2>1, FS_RemoveElement
  <2> QED BY <1>7, <1>8, <2>2
<1>9. CASE ~ Holding(p, i) /\ Holds(place, kind, inode, i)
  <2>1. T = S \union {p} /\ p \notin S  BY <1>3, <1>4, <1>5, <1>6, <1>7, <1>9
  <2>2. Cardinality(T) = Cardinality(S) + 1  BY <1>2, <1>7, <2>1, FS_AddElement
  <2> QED BY <1>7, <1>9, <2>2
<1>10. CASE Holding(p, i) <=> Holds(place, kind, inode, i)
  <2>1. T = S  BY <1>3, <1>4, <1>5, <1>6, <1>7, <1>10
  <2> QED BY <1>7, <1>10, <2>1
<1> QED BY <1>8, <1>9, <1>10

\* Whether a process has counted down the inode of its entry e already.
Passed(place, kind, it, e) == place \in {"drop", "free"} /\ kind = "exit" /\ it = e

\* The references of the entries change with what the process has passed only.
LEMMA EntriesCounted ==
    ASSUME TypeInv, TypeInv', NEW p \in Procs, NEW place, NEW kind, NEW it, NEW inode, NEW i,
           Moved(p, place, kind, it, inode), SameFiles,
           \A e \in 1 .. Len(entry) :
              Passed(place, kind, it, e) <=> Passed(pc[p], call[p].kind, call[p].it, e)
    PROVE  EntryRefs(i)' = EntryRefs(i)
<1>1. /\ pc'[p] = place /\ call'[p].kind = kind /\ call'[p].it = it
      /\ \A q \in Procs \ {p} : pc'[q] = pc[q] /\ call'[q] = call[q]
  BY DEF TypeInv, Moved
<1>2. DOMAIN entry = 1 .. Len(entry) /\ DOMAIN entry' = DOMAIN entry
  BY DEF TypeInv, SameFiles
<1>3. ASSUME NEW q \in Procs, NEW e \in 1 .. Len(entry)
      PROVE  (InClose(q) /\ call[q].it = e)' <=> InClose(q) /\ call[q].it = e
  <2>1. CASE q = p  BY <1>1, <2>1 DEF InClose, Kind, Passed
  <2>2. CASE q # p  BY <1>1, <2>2 DEF InClose, Kind
  <2> QED BY <2>1, <2>2
<1>4. \A e \in 1 .. Len(entry) : (\E q \in Procs : InClose(q) /\ call[q].it = e)'
                                     <=> \E q \in Procs : InClose(q) /\ call[q].it = e
  BY <1>3
<1> QED BY <1>2, <1>4 DEF EntryRefs, SameFiles

-----------------------------------------------------------------------------
(* inode_open().                                                           *)

\* It gives an inode that is counted once more, or a new one that is counted once.
LEMMA OpenEffect ==
    ASSUME TypeInv
    PROVE  /\ inode_open \in Seq(Inode) /\ Opened \in 1 .. Len(inode_open)
           /\ \A i \in 1 .. Len(inodes) : i # Opened => inode_open[i] = inodes[i]
           /\ \/ /\ Opened \in 1 .. Len(inodes) /\ Len(inode_open) = Len(inodes)
                 /\ inode_open[Opened].live = inodes[Opened].live
                 /\ inode_open[Opened].open_cnt = inodes[Opened].open_cnt + 1
              \/ /\ Opened = Len(inodes) + 1 /\ Len(inode_open) = Len(inodes) + 1
                 /\ inode_open[Opened].open_cnt = 1
<1>1. PICK m \in Nat : m = Len(inodes) /\ DOMAIN inodes = 1 .. m  BY Typed
<1>2. CASE Listed = {}
  <2>1. PICK x : x = NewInode  OBVIOUS
  <2>2. x \in Inode /\ x.open_cnt = 1  BY <2>1 DEF NewInode, Inode, TypeInv
  <2>3. inode_open = Append(inodes, x) /\ Opened = m + 1
    BY <1>1, <1>2, <2>1 DEF inode_open, Opened
  <2>4. /\ Append(inodes, x) \in Seq(Inode) /\ Len(Append(inodes, x)) = m + 1
        /\ \A i \in 1 .. m : Append(inodes, x)[i] = inodes[i]
        /\ Append(inodes, x)[m + 1] = x
    BY <1>1, <2>2 DEF TypeInv
  <2>5. m + 1 \in 1 .. m + 1  OBVIOUS
  <2> QED BY <1>1, <2>2, <2>3, <2>4, <2>5
<1>3. CASE Listed # {}
  <2>1. PICK o : o = CHOOSE i \in Listed : TRUE  OBVIOUS
  <2>2. o \in 1 .. m  BY <1>1, <1>3, <2>1 DEF Listed
  <2>3. Opened = o  BY <1>3, <2>1 DEF Opened
  <2>4. PICK x : x = [inodes[o] EXCEPT !.open_cnt = @ + 1]  OBVIOUS
  <2>5. inodes[o] \in Inode /\ inodes[o].open_cnt \in Int  BY <1>1, <2>2, Typed
  <2>6. x \in Inode /\ x.open_cnt = inodes[o].open_cnt + 1 /\ x.live = inodes[o].live
    BY <2>4, <2>5 DEF Inode
  <2>7. inode_open = [inodes EXCEPT ![o] = x]  BY <1>3, <2>3, <2>4 DEF inode_open
  <2>8. /\ [inodes EXCEPT ![o] = x] \in Seq(Inode) /\ Len([inodes EXCEPT ![o] = x]) = m
        /\ \A i \in 1 .. m : i # o => [inodes EXCEPT ![o] = x][i] = inodes[i]
        /\ [inodes EXCEPT ![o] = x][o] = x
    BY <1>1, <2>2, <2>6 DEF TypeInv
  <2> QED BY <1>1, <2>2, <2>3, <2>6, <2>7, <2>8
<1> QED BY <1>2, <1>3

\* An inode that there has not been is not referred to.
LEMMA NoRefsYet ==
    ASSUME SyscallsInv
    PROVE  Refs(Len(inodes) + 1) = 0
<1>1. TypeInv /\ BoundInv /\ ExitInv  BY DEF SyscallsInv
<1>2. PICK m \in Nat : m = Len(inodes)  BY <1>1, Typed
<1>3. DOMAIN entry = 1 .. Len(entry)  BY <1>1, Typed
<1>4. EntryRefs(m + 1) = {}
  <2>1. \A e \in 1 .. Len(entry) : entry[e].inode # m + 1  BY <1>1, <1>2 DEF BoundInv
  <2> QED BY <1>3, <2>1 DEF EntryRefs
<1>5. OwnRefs(m + 1) = {}
  <2>1. \A q \in Procs : own[q] <= m /\ own[q] \in Nat  BY <1>1, <1>2, Typed DEF BoundInv
  <2>2. \A q \in Procs : own[q] # m + 1  BY <2>1
  <2> QED BY <2>2 DEF OwnRefs
<1>6. CallRefs(m + 1) = {}
  <2>1. \A q \in Procs : call[q].inode <= m /\ call[q].inode \in Nat
    BY <1>1, <1>2, Typed DEF BoundInv, Reaches
  <2>2. \A q \in Procs : call[q].inode # m + 1  BY <2>1
  <2> QED BY <2>2 DEF CallRefs
<1>7. Cardinality({}) = 0  BY FS_EmptySet
<1>8. Refs(m + 1) = 0  BY <1>4, <1>5, <1>6, <1>7 DEF Refs
<1> QED BY <1>2, <1>8

\* One reference more to o, and to no other.
OneMore(o) == \A i \in Nat \ {0} : /\ i # o => Refs(i)' = Refs(i)
                                   /\ i = o => Refs(i)' = Refs(i) + 1

\* filesys_open() or dir_remove() with an inode, that the process or its call refers to.
LEMMA OpenedKeeps ==
    ASSUME SyscallsInv, TypeInv', NEW p \in Procs, NEW place, NEW kind, NEW it, NEW o,
           pc[p] = "fs", call[p].kind = kind, call[p].it = it, o = Opened,
           Moved(p, place, kind, it, o), Leads(p, place, kind, it, o), OneMore(o),
           inodes' = inode_open, UNCHANGED <<entry, fd_name_mapping, fd_index>>,
           place \in {"push", "close", "loaded"}, kind # "exit"
    PROVE  SyscallsInv'
<1>1. TypeInv /\ BoundInv /\ ListInv /\ FdInv /\ CountInv  BY DEF SyscallsInv
<1>2. PICK m \in Nat, m1 \in Nat : /\ m = Len(inodes) /\ m1 = Len(inodes')
                                   /\ m1 \in {m, m + 1} /\ o \in 1 .. m1
  BY <1>1, OpenEffect, Typed DEF TypeInv
<1>3. pc'[p] = place /\ call'[p].kind = kind /\ call'[p].inode = o  BY <1>1 DEF TypeInv, Moved
<1>4. Exits(p)'  BY <1>2, <1>3 DEF Exits
<1>5. KeepOthers(p) /\ Len(inodes) <= Len(inodes')
  <2>1. Len(entry) \in Nat  BY <1>1, Typed
  <2> QED BY <1>2, <2>1 DEF KeepOthers
<1>6. PlaceInv' /\ OwnInv' /\ ExitInv' /\ \A q \in Procs : Reaches(q)' /\ own'[q] <= Len(inodes')
  BY <1>4, <1>5, ProcsStay
<1>7. BoundInv'
  <2>1. \A e \in 1 .. Len(entry) : entry[e].next <= Len(entry) /\ entry[e].inode \in 1 .. m
    BY <1>1, <1>2 DEF BoundInv
  <2>2. \A e \in 1 .. Len(entry) : entry[e].inode \in 1 .. m1  BY <1>2, <2>1
  <2> QED BY <1>2, <1>6, <2>1, <2>2 DEF BoundInv
<1>8. ListInv'
  <2>1. \A e \in 1 .. Len(entry) : Unlinked(p, e)' <=> Unlinked(p, e)  BY <1>3 DEF Unlinked
  <2> QED BY <2>1, ListStays
<1>9. FdInv'  BY <1>1 DEF FdInv
<1>10. CountInv'
  <2>1. SUFFICES ASSUME NEW i \in 1 .. m1, inodes'[i].live PROVE inodes'[i].open_cnt = Refs(i)'
    BY <1>2 DEF CountInv
  <2>2. i \in Nat \ {0}  BY <1>2
  <2>3. CASE i # o
    <3>1. i \in 1 .. m
      <4>1. m1 = m + 1 => o = m + 1  BY <1>1, <1>2, OpenEffect
      <4> QED BY <1>2, <2>3, <4>1
    <3>2. inodes'[i] = inodes[i]  BY <1>1, <1>2, <2>3, <3>1, OpenEffect
    <3>3. inodes[i].open_cnt = Refs(i)  BY <1>1, <1>2, <2>1, <3>1, <3>2 DEF CountInv
    <3> QED BY <2>2, <2>3, <3>2, <3>3 DEF OneMore
  <2>4. CASE i = o /\ m1 = m
    <3>1. /\ i \in 1 .. m /\ inodes'[i].live = inodes[i].live
          /\ inodes'[i].open_cnt = inodes[i].open_cnt + 1
      BY <1>1, <1>2, <2>4, OpenEffect
    <3>2. inodes[i].open_cnt = Refs(i)  BY <1>1, <1>2, <2>1, <3>1 DEF CountInv
    <3> QED BY <2>2, <2>4, <3>1, <3>2 DEF OneMore
  <2>5. CASE i = o /\ m1 = m + 1
    <3>1. i = m + 1 /\ inodes'[i].open_cnt = 1  BY <1>1, <1>2, <2>5, OpenEffect
    <3>2. Refs(i) = 0  BY <1>2, <3>1, NoRefsYet
    <3> QED BY <2>2, <2>5, <3>1, <3>2 DEF OneMore
  <2> QED BY <1>2, <2>3, <2>4, <2>5
<1> QED BY <1>6, <1>7, <1>8, <1>9, <1>10 DEF SyscallsInv

\* The reference is the call's: open and load() before they go on, and dir_remove().
LEMMA CallOpens ==
    ASSUME SyscallsInv, NEW p \in Procs, NEW place, NEW kind,
           pc[p] = "fs", call[p].kind = kind, dir' \in Nat, Goto(p, place), Set(p, "inode", Opened),
           inodes' = inode_open, UNCHANGED <<entry, fd_name_mapping, fd_index, own>>,
           \/ place = "push" /\ kind = "open"
           \/ place = "close" /\ kind \in {"remove", "open"} \union Starting
    PROVE  SyscallsInv'
<1>1. /\ TypeInv /\ BoundInv /\ OwnInv /\ inode_open \in Seq(Inode)
      /\ Opened \in 1 .. Len(inode_open) /\ call[p].it \in 0 .. Len(entry)
  BY Known, OpenEffect DEF SyscallsInv
<1>2. PICK it, o : it = call[p].it /\ o = Opened  OBVIOUS
<1>3. o \in Nat /\ o \in 1 .. Len(inodes')  BY <1>1, <1>2
<1>4. Moved(p, place, kind, it, o)  BY <1>1, <1>2, <1>3, GotoSetInode
<1>5. place \in Places /\ Fits(place, kind)  BY DEF Places, Fits, OnExit, Closing, Starting
<1>6. TypeInv'
  <2>1. pc' \in [Procs -> Places]  BY <1>1, <1>5 DEF TypeInv, Goto
  <2> QED BY <1>1, <1>4, <2>1 DEF TypeInv, Moved
<1>7. Leads(p, place, kind, it, o)
  <2>1. own'[p] \in 0 .. Len(inodes')
    <3>1. own[p] \in Nat /\ own[p] <= Len(inodes) /\ Len(inodes) \in Nat  BY <1>1, Typed DEF BoundInv
    <3>2. Len(inodes) <= Len(inodes') /\ Len(inodes') \in Nat  BY <1>1, <3>1, OpenEffect
    <3> QED BY <3>1, <3>2
  <2>2. Unset(place, kind) => own'[p] = 0  BY <1>1 DEF OwnInv, Fresh, Unset
  <2>3. it \in 0 .. Len(entry') /\ o \in 0 .. Len(inodes')  BY <1>1, <1>2, <1>3
  <2> QED BY <1>5, <2>1, <2>2, <2>3 DEF Leads
<1>8. place \in {"push", "close"} /\ kind # "exit"  BY DEF Starting
<1>9. OneMore(o)
  <2>1. SUFFICES ASSUME NEW i \in Nat \ {0}
                 PROVE  (i # o => Refs(i)' = Refs(i)) /\ (i = o => Refs(i)' = Refs(i) + 1)
    BY DEF OneMore
  <2>2. EntryRefs(i)' = EntryRefs(i)
    <3>1. \A e \in 1 .. Len(entry) :
             Passed(place, kind, it, e) <=> Passed(pc[p], call[p].kind, call[p].it, e)
      BY DEF Passed
    <3> QED BY <1>1, <1>4, <1>6, <3>1, EntriesSame, EntriesCounted
  <2>3. OwnRefs(i)' = OwnRefs(i)  BY DEF OwnRefs
  <2>4. ~ Holding(p, i) /\ (Holds(place, kind, o, i) <=> i = o)  BY <1>8 DEF Holding, Holds
  <2>5. /\ i # o => Cardinality(CallRefs(i)') = Cardinality(CallRefs(i))
        /\ i = o => Cardinality(CallRefs(i)') = Cardinality(CallRefs(i)) + 1
    BY <1>1, <1>4, <1>6, <2>4, CallsCounted
  <2>6. PICK a \in Nat, b \in Nat, c \in Nat :
           /\ a = Cardinality(EntryRefs(i)) /\ b = Cardinality(OwnRefs(i))
           /\ c = Cardinality(CallRefs(i)) /\ Refs(i) = a + b + c
    BY <1>1, RefsFinite DEF Refs
  <2>7. Refs(i)' = a + b + Cardinality(CallRefs(i)')  BY <2>2, <2>3, <2>6 DEF Refs
  <2> QED BY <2>5, <2>6, <2>7
<1> QED BY <1>2, <1>4, <1>6, <1>7, <1>8, <1>9, OpenedKeeps

\* The reference is t->file, that was not set.
LEMMA OwnOpens ==
    ASSUME SyscallsInv, NEW p \in Procs, NEW k \in {"start", "failed"}, pc[p] = "fs",
           call[p].kind = k, dir' \in Nat,
           Goto(p, "loaded"), Set(p, "inode", Opened), inodes' = inode_open,
           own' = [own EXCEPT ![p] = Opened], UNCHANGED <<entry, fd_name_mapping, fd_index>>
    PROVE  SyscallsInv'
<1>1. /\ TypeInv /\ BoundInv /\ OwnInv /\ inode_open \in Seq(Inode)
      /\ Opened \in 1 .. Len(inode_open) /\ call[p].it \in 0 .. Len(entry)
  BY Known, OpenEffect DEF SyscallsInv
<1>2. PICK it, o : it = call[p].it /\ o = Opened  OBVIOUS
<1>3. o \in Nat /\ o \in 1 .. Len(inodes')  BY <1>1, <1>2
<1>4. Moved(p, "loaded", k, it, o)  BY <1>1, <1>2, <1>3, GotoSetInode
<1>5. "loaded" \in Places /\ Fits("loaded", k)  BY DEF Places, Fits, OnExit, Closing, Starting
<1>6. own' = [own EXCEPT ![p] = o] /\ own'[p] = o /\ own' \in [Procs -> Nat]
  BY <1>1, <1>2, <1>3 DEF TypeInv
<1>7. TypeInv'
  <2>1. pc' \in [Procs -> Places]  BY <1>1, <1>5 DEF TypeInv, Goto
  <2> QED BY <1>1, <1>4, <1>6, <2>1 DEF TypeInv, Moved
<1>8. Leads(p, "loaded", k, it, o)
  <2>1. it \in 0 .. Len(entry') /\ o \in 0 .. Len(inodes')  BY <1>1, <1>2, <1>3
  <2>2. \A q \in Procs \ {p} : own'[q] = own[q]  BY <1>1, <1>6 DEF TypeInv
  <2> QED BY <1>5, <1>6, <2>1, <2>2 DEF Leads, Unset
<1>9. OneMore(o)
  <2>1. SUFFICES ASSUME NEW i \in Nat \ {0}
                 PROVE  (i # o => Refs(i)' = Refs(i)) /\ (i = o => Refs(i)' = Refs(i) + 1)
    BY DEF OneMore
  <2>2. EntryRefs(i)' = EntryRefs(i)
    <3>1. \A e \in 1 .. Len(entry) :
             Passed("loaded", k, it, e) <=> Passed(pc[p], call[p].kind, call[p].it, e)
      BY DEF Passed
    <3> QED BY <1>1, <1>4, <1>7, <3>1, EntriesSame, EntriesCounted
  <2>3. Cardinality(CallRefs(i)') = Cardinality(CallRefs(i))
    <3>1. ~ Holding(p, i) /\ ~ Holds("loaded", k, o, i)  BY DEF Holding, Holds
    <3> QED BY <1>1, <1>4, <1>7, <3>1, CallsCounted
  <2>4. own[p] = 0 /\ o # 0  BY <1>1, <1>3 DEF OwnInv, Fresh, Unset
  <2>5. PICK S, T : S = OwnRefs(i) /\ T = OwnRefs(i)'  OBVIOUS
  <2>6. i # o /\ i # 0 => T = S  BY <1>1, <1>6, <2>4, <2>5 DEF OwnRefs, TypeInv
  <2>7. i = o => T = S \union {p} /\ p \notin S  BY <1>1, <1>6, <2>4, <2>5 DEF OwnRefs, TypeInv
  <2>8. i = o => Cardinality(T) = Cardinality(S) + 1
    BY <1>1, <2>5, <2>7, RefsFinite, FS_AddElement
  <2>9. PICK a \in Nat, b \in Nat, c \in Nat :
           /\ a = Cardinality(EntryRefs(i)) /\ b = Cardinality(OwnRefs(i))
           /\ c = Cardinality(CallRefs(i)) /\ Refs(i) = a + b + c
    BY <1>1, RefsFinite DEF Refs
  <2>10. Refs(i)' = a + Cardinality(T) + c  BY <2>2, <2>3, <2>5, <2>9 DEF Refs
  <2> QED BY <2>5, <2>6, <2>8, <2>9, <2>10
<1> QED BY <1>2, <1>4, <1>7, <1>8, <1>9, OpenedKeeps

\* filesys_remove().
LEMMA FsRemoveKeeps ==
    ASSUME SyscallsInv, NEW p \in Procs, FsRemove(p)
    PROVE  SyscallsInv'
<1>0. dir \in Nat  BY Known
<1>1. /\ pc[p] = "fs" /\ call[p].kind = "remove" /\ dir' \in Nat
      /\ UNCHANGED <<entry, fd_name_mapping, fd_index, own>>
  BY <1>0 DEF FsRemove, At, Kind, listVars
<1>2. \/ inodes' = inode_open /\ Set(p, "inode", Opened) /\ Goto(p, "close")
      \/ Goto(p, "release") /\ UNCHANGED <<inodes, call>>
  BY DEF FsRemove
<1>3. CASE inodes' = inode_open /\ Set(p, "inode", Opened) /\ Goto(p, "close")
  BY <1>1, <1>3, CallOpens
<1>4. CASE Goto(p, "release") /\ UNCHANGED <<inodes, call>>  BY <1>1, <1>4, GoesOn
<1> QED BY <1>2, <1>3, <1>4

\* filesys_open() without an inode.
LEMMA NoInodeKeeps ==
    ASSUME SyscallsInv, NEW p \in Procs, NoInode(p), pc[p] = "fs", dir' \in Nat,
           UNCHANGED <<entry, fd_name_mapping, fd_index>>
    PROVE  SyscallsInv'
<1>1. CASE call[p].kind = "load"
  <2>1. Goto(p, "fs_acquire") /\ Set(p, "kind", "failed") /\ UNCHANGED <<inodes, own>>
    BY <1>1 DEF NoInode, Kind
  <2>2. TypeInv /\ call[p].it \in 0 .. Len(entry) /\ call[p].inode \in 0 .. Len(inodes)  BY Known
  <2>3. PICK it, i : it = call[p].it /\ i = call[p].inode  OBVIOUS
  <2>4. Moved(p, "fs_acquire", "failed", it, i)  BY <2>1, <2>2, <2>3, GotoSetKind DEF Kinds
  <2>5. Allowed(p, "fs_acquire", "failed", it, i)
    BY <1>1, <2>2, <2>3 DEF Allowed, Places, Away, Unset, Kinds, Fits, OnExit, Closing, Starting
  <2> QED BY <2>1, <2>2, <2>4, <2>5, EntriesSame, MoveKeeps
<1>2. CASE call[p].kind # "load"
  <2>1. PICK place \in {"release", "loaded"} : Goto(p, place) /\ UNCHANGED <<inodes, call, own>>
    BY <1>2 DEF NoInode, Kind
  <2> QED BY <2>1, GoesOn
<1> QED BY <1>1, <1>2

\* filesys_open().
LEMMA FsOpenKeeps ==
    ASSUME SyscallsInv, NEW p \in Procs, FsOpen(p)
    PROVE  SyscallsInv'
<1>0. dir \in Nat  BY Known
<1>1. /\ pc[p] = "fs" /\ call[p].kind \in {"open", "load", "start", "failed"} /\ dir' \in Nat
      /\ UNCHANGED <<entry, fd_name_mapping, fd_index>>
  BY <1>0 DEF FsOpen, At, Kind, listVars, Starting
<1>2. NoInode(p) \/ \E allocated \in BOOLEAN : file_open(p, allocated)  BY DEF FsOpen
<1>3. CASE NoInode(p)  BY <1>1, <1>3, NoInodeKeeps
<1>4. ASSUME NEW allocated \in BOOLEAN, file_open(p, allocated) PROVE SyscallsInv'
  <2>1. inodes' = inode_open /\ Set(p, "inode", Opened)  BY <1>4 DEF file_open
  <2>2. \/ Goto(p, "close") /\ UNCHANGED own
        \/ call[p].kind = "open" /\ Goto(p, "push") /\ UNCHANGED own
        \/ /\ call[p].kind \in {"start", "failed"} /\ Goto(p, "loaded")
           /\ own' = [own EXCEPT ![p] = Opened]
    BY <1>4 DEF file_open, Kind
  <2>3. CASE Goto(p, "close") /\ UNCHANGED own  BY <1>1, <2>1, <2>3, CallOpens DEF Starting
  <2>4. CASE call[p].kind = "open" /\ Goto(p, "push") /\ UNCHANGED own  BY <1>1, <2>1, <2>4, CallOpens
  <2>5. CASE /\ call[p].kind \in {"start", "failed"} /\ Goto(p, "loaded")
             /\ own' = [own EXCEPT ![p] = Opened]
    BY <1>1, <2>1, <2>5, OwnOpens
  <2> QED BY <2>2, <2>3, <2>4, <2>5
<1> QED BY <1>2, <1>3, <1>4

-----------------------------------------------------------------------------
(* inode_close().                                                          *)

\* Where the process goes on: to list_remove(), or behind inode_close().
Follows(place, kind, place1, kind1) ==
    \/ place1 = "drop" /\ place = "close" /\ kind1 = kind
    \/ place1 = "free" /\ kind = "exit" /\ kind1 = "exit"
    \/ place1 = "fs_release" /\ kind = "remove" /\ kind1 = "remove"
    \/ place1 = "release" /\ kind = "open" /\ kind1 = "open"
    \/ place1 = "loaded" /\ kind \in {"start", "failed"} /\ kind1 = kind
    \/ place1 = "fs_acquire" /\ kind = "load" /\ kind1 \in {"start", "failed"}

\* What a step of inode_close() keeps, whatever it does with the inode.
LEMMA ClosingKeeps ==
    ASSUME SyscallsInv, NEW p \in Procs, NEW place, NEW kind, NEW it, NEW i,
           pc[p] \in Closing, it = call[p].it, i = call[p].inode,
           Moved(p, place, kind, it, i), Follows(pc[p], call[p].kind, place, kind),
           inodes' \in Seq(Inode), Len(inodes') = Len(inodes),
           UNCHANGED <<entry, fd_name_mapping, fd_index, dir, own>>
    PROVE  /\ TypeInv' /\ BoundInv' /\ PlaceInv' /\ OwnInv' /\ ExitInv' /\ ListInv' /\ FdInv'
<1>1. TypeInv /\ BoundInv /\ OwnInv /\ FdInv  BY DEF SyscallsInv
<1>2. /\ Fits(pc[p], call[p].kind) /\ Exits(p) /\ it \in 0 .. Len(entry) /\ i \in 0 .. Len(inodes)
      /\ Len(entry) \in Nat /\ Len(inodes) \in Nat
  BY Known
<1>3. /\ place \in {"drop", "free", "fs_release", "fs_acquire", "release", "loaded"} /\ place \in Places
      /\ call[p].kind = "exit" <=> kind = "exit"
      /\ Fits(place, kind)
  BY <1>2 DEF Follows, Fits, Places, OnExit, Closing, Starting
<1>4. TypeInv'
  <2>1. pc' \in [Procs -> Places]  BY <1>1, <1>3 DEF TypeInv, Moved
  <2> QED BY <1>1, <2>1 DEF TypeInv, Moved
<1>5. pc'[p] = place /\ call'[p].kind = kind /\ call'[p].it = it /\ call'[p].inode = i
  BY <1>1 DEF TypeInv, Moved
<1>6. Leads(p, place, kind, it, i)
  <2>1. own[p] \in Nat /\ own[p] <= Len(inodes)  BY <1>1, Typed DEF BoundInv
  <2>2. Unset(place, kind) => Unset(pc[p], call[p].kind)  BY <1>3 DEF Follows, Unset, Closing
  <2>3. Unset(place, kind) => own'[p] = 0  BY <1>1, <2>2 DEF OwnInv, Fresh
  <2> QED BY <1>2, <1>3, <2>1, <2>3 DEF Leads
<1>7. Exits(p)'
  <2>1. place = "drop" => i \in 1 .. Len(inodes')  BY <1>2 DEF Exits, Closing
  <2>2. kind = "exit" => /\ it \in 1 .. Len(entry') /\ entry'[it].tid = p /\ entry'[it].live
    BY <1>2, <1>3 DEF Exits, Closing
  <2> QED BY <1>3, <1>5, <2>1, <2>2 DEF Exits
<1>8. KeepOthers(p) /\ Len(inodes) <= Len(inodes')  BY <1>2 DEF KeepOthers
<1>9. PlaceInv' /\ OwnInv' /\ ExitInv' /\ \A q \in Procs : Reaches(q)' /\ own'[q] <= Len(inodes')
  BY <1>4, <1>6, <1>7, <1>8, ProcsStay
<1>10. BoundInv'  BY <1>1, <1>9 DEF BoundInv
<1>11. ListInv'
  <2>1. \A e \in 1 .. Len(entry) : Unlinked(p, e)' <=> Unlinked(p, e)
    <3>1. pc[p] \in {"close", "drop"} /\ (kind = "exit" => place \in {"drop", "free"})
      BY DEF Follows, Closing
    <3> QED BY <1>3, <1>5, <3>1 DEF Unlinked
  <2>2. pc[p] \notin {"unborn", "pushed", "dead"}  BY DEF Closing
  <2> QED BY <1>3, <2>1, <2>2, ListStays
<1>12. FdInv'  BY <1>1 DEF FdInv
<1> QED BY <1>4, <1>9, <1>10, <1>11, <1>12

\* Where the process goes on after inode_close().
LEMMA AfterFollows ==
    ASSUME SyscallsInv, NEW p \in Procs, pc[p] \in Closing, GoOn(p)
    PROVE  \E place, kind : /\ Moved(p, place, kind, call[p].it, call[p].inode)
                            /\ Follows(pc[p], call[p].kind, place, kind)
                            /\ place # "drop"
<1>1. TypeInv /\ Fits(pc[p], call[p].kind)  BY Known
<1>2. call[p].kind \in {"exit", "remove", "open", "load", "start", "failed"}  BY <1>1 DEF Fits, Starting
<1>3. CASE call[p].kind # "load"
  <2>1. PICK place : /\ Goto(p, place) /\ UNCHANGED call /\ place # "drop"
                     /\ \/ place = "free" /\ call[p].kind = "exit"
                        \/ place = "fs_release" /\ call[p].kind = "remove"
                        \/ place = "release" /\ call[p].kind = "open"
                        \/ place = "loaded" /\ call[p].kind \in {"start", "failed"}
    BY <1>2, <1>3 DEF GoOn, AfterClose, Kind
  <2>2. Moved(p, place, call[p].kind, call[p].it, call[p].inode)  BY <1>1, <2>1, GotoOnly
  <2> QED BY <2>1, <2>2 DEF Follows
<1>4. CASE call[p].kind = "load"
  <2>1. PICK kind \in {"start", "failed"} : Goto(p, "fs_acquire") /\ Set(p, "kind", kind)
    BY <1>4 DEF GoOn, Kind
  <2>2. Moved(p, "fs_acquire", kind, call[p].it, call[p].inode)
    BY <1>1, <2>1, GotoSetKind DEF Kinds
  <2> QED BY <1>4, <2>2 DEF Follows
<1> QED BY <1>3, <1>4

\* An entry is closed by its own process only.
LEMMA ClosedByOwn ==
    ASSUME SyscallsInv, NEW e \in 1 .. Len(entry)
    PROVE  \A q \in Procs : InClose(q) /\ call[q].it = e => entry[e].tid = q
<1>1. SUFFICES ASSUME NEW q \in Procs, InClose(q), call[q].it = e PROVE entry[e].tid = q
  OBVIOUS
<1>2. Exits(q)  BY DEF SyscallsInv, ExitInv
<1>3. call[q].kind = "exit" /\ pc[q] \in {"drop", "free"}  BY <1>1 DEF InClose, Kind
<1> QED BY <1>1, <1>2, <1>3 DEF Exits

\* The entries refer to i once less, and to no other inode less.
OneEntryLess(i, j) == /\ j # i => Cardinality(EntryRefs(j)') = Cardinality(EntryRefs(j))
                      /\ j = i => Cardinality(EntryRefs(j)') = Cardinality(EntryRefs(j)) - 1

\* syscall_exit(): when the inode has been counted down, the entry does not count.
LEMMA EntryPassed ==
    ASSUME SyscallsInv, TypeInv', NEW p \in Procs, NEW place, NEW it, NEW i, NEW j,
           pc[p] = "close", call[p].kind = "exit", it = call[p].it, i = call[p].inode,
           Moved(p, place, "exit", it, i), place \in {"drop", "free"}, UNCHANGED entry
    PROVE  OneEntryLess(i, j)
<1>1. TypeInv /\ Exits(p)  BY Known
<1>2. it \in 1 .. Len(entry) /\ entry[it].tid = p /\ entry[it].live /\ i = entry[it].inode
  BY <1>1 DEF Exits
<1>3. DOMAIN entry = 1 .. Len(entry)  BY <1>1, Typed
<1>4. /\ pc'[p] = place /\ call'[p].kind = "exit" /\ call'[p].it = it
      /\ \A q \in Procs \ {p} : pc'[q] = pc[q] /\ call'[q] = call[q]
  BY <1>1 DEF TypeInv, Moved
<1>5. ~ InClose(p) /\ InClose(p)'  BY <1>4 DEF InClose, Kind
<1>6. \A q \in Procs \ {p} : \A e : (InClose(q) /\ call[q].it = e)' <=> InClose(q) /\ call[q].it = e
  BY <1>4 DEF InClose, Kind
<1>7. ~ \E q \in Procs : InClose(q) /\ call[q].it = it
  <2>1. \A q \in Procs : InClose(q) /\ call[q].it = it => entry[it].tid = q  BY <1>2, ClosedByOwn
  <2> QED BY <1>2, <1>5, <2>1
<1>8. \A e \in 1 .. Len(entry) : e # it =>
         ((\E q \in Procs : InClose(q) /\ call[q].it = e)'
              <=> \E q \in Procs : InClose(q) /\ call[q].it = e)
  BY <1>4, <1>5, <1>6
<1>9. (\E q \in Procs : InClose(q) /\ call[q].it = it)'  BY <1>4, <1>5
<1>10. PICK S, T : S = EntryRefs(j) /\ T = EntryRefs(j)'  OBVIOUS
<1>11. \A e \in 1 .. Len(entry) : e # it => (e \in T <=> e \in S)
  BY <1>3, <1>8, <1>10 DEF EntryRefs
<1>12. S \subseteq 1 .. Len(entry) /\ T \subseteq 1 .. Len(entry)  BY <1>3, <1>10 DEF EntryRefs
<1>13. it \notin T  BY <1>9, <1>10 DEF EntryRefs
<1>14. it \in S <=> j = i  BY <1>2, <1>3, <1>7, <1>10 DEF EntryRefs
<1>15. T = S \ {it}  BY <1>11, <1>12, <1>13
<1>16. IsFiniteSet(S)  BY <1>1, <1>10, RefsFinite
<1>17. CASE j # i
  <2>1. T = S  BY <1>14, <1>15, <1>17
  <2> QED BY <1>10, <1>17, <2>1 DEF OneEntryLess
<1>18. CASE j = i
  <2>1. Cardinality(T) = Cardinality(S) - 1  BY <1>14, <1>15, <1>16, <1>18, FS_RemoveElement
  <2> QED BY <1>10, <1>18, <2>1 DEF OneEntryLess
<1> QED BY <1>17, <1>18

\* --inode->open_cnt.
LEMMA CloseKeeps ==
    ASSUME SyscallsInv, NEW p \in Procs, Close(p)
    PROVE  SyscallsInv'
<1>1. CASE \E what : Bad(what)  BY <1>1, BadKeeps
<1>2. CASE ~ \E what : Bad(what)
  <2>1. PICK it, i : it = call[p].it /\ i = call[p].inode  OBVIOUS
  <2>2. TypeInv /\ Exits(p) /\ Fits(pc[p], call[p].kind) /\ CountInv  BY Known DEF SyscallsInv
  <2>3. /\ pc[p] = "close" /\ inodes' = [inodes EXCEPT ![i].open_cnt = @ - 1]
        /\ UNCHANGED <<entry, fd_name_mapping, fd_index, dir, own>>
        /\ IF inodes[i].open_cnt = 1
           THEN Goto(p, "drop") /\ UNCHANGED call
           ELSE GoOn(p)
    BY <1>2, <2>1 DEF Close, At, listVars
  <2>4. i \in 1 .. Len(inodes)  BY <2>1, <2>2, <2>3 DEF Exits
  <2>5. PICK x : x = [inodes[i] EXCEPT !.open_cnt = @ - 1]  OBVIOUS
  <2>6. inodes[i] \in Inode /\ inodes[i].open_cnt \in Int /\ Len(inodes) \in Nat  BY <2>2, <2>4, Typed
  <2>7. x \in Inode /\ x.live = inodes[i].live /\ x.open_cnt = inodes[i].open_cnt - 1
    BY <2>5, <2>6 DEF Inode
  <2>8. inodes' = [inodes EXCEPT ![i] = x]  BY <2>3, <2>5
  <2>9. /\ inodes' \in Seq(Inode) /\ Len(inodes') = Len(inodes) /\ inodes'[i] = x
        /\ \A j \in 1 .. Len(inodes) : j # i => inodes'[j] = inodes[j]
    BY <2>2, <2>4, <2>7, <2>8 DEF TypeInv
  <2>10. pc[p] \in Closing  BY <2>3 DEF Closing
  <2>11. \E place, kind : /\ Moved(p, place, kind, it, i)
                          /\ Follows(pc[p], call[p].kind, place, kind)
    <3>1. CASE inodes[i].open_cnt = 1
      <4>1. Moved(p, "drop", call[p].kind, it, i)  BY <2>1, <2>2, <2>3, <3>1, GotoOnly
      <4> QED BY <2>3, <4>1 DEF Follows
    <3>2. CASE inodes[i].open_cnt # 1  BY <2>1, <2>3, <2>10, <3>2, AfterFollows
    <3> QED BY <3>1, <3>2
  <2>12. PICK place, kind : /\ Moved(p, place, kind, it, i)
                            /\ Follows(pc[p], call[p].kind, place, kind)
    BY <2>11
  <2>13. TypeInv' /\ BoundInv' /\ PlaceInv' /\ OwnInv' /\ ExitInv' /\ ListInv' /\ FdInv'
    BY <2>1, <2>3, <2>9, <2>10, <2>12, ClosingKeeps
  <2>15. ASSUME NEW j \in 1 .. Len(inodes)
         PROVE  (j # i => Refs(j)' = Refs(j)) /\ (j = i => Refs(j)' = Refs(j) - 1)
    <3>1. OwnRefs(j)' = OwnRefs(j)  BY <2>3 DEF OwnRefs
    <3>2. PICK a \in Nat, b \in Nat, c \in Nat :
             /\ a = Cardinality(EntryRefs(j)) /\ b = Cardinality(OwnRefs(j))
             /\ c = Cardinality(CallRefs(j)) /\ Refs(j) = a + b + c
      BY <2>2, RefsFinite DEF Refs
    <3>3. Refs(j)' = Cardinality(EntryRefs(j)') + b + Cardinality(CallRefs(j)')
      BY <3>1, <3>2 DEF Refs
    <3>4. CASE call[p].kind = "exit"
      <4>1. kind = "exit" /\ place \in {"drop", "free"}  BY <2>12, <3>4 DEF Follows
      <4>2. /\ j # i => Cardinality(EntryRefs(j)') = a
            /\ j = i => Cardinality(EntryRefs(j)') = a - 1
        <5>1. Moved(p, place, "exit", it, i) /\ UNCHANGED entry /\ pc[p] = "close"
          BY <2>3, <2>12, <4>1
        <5>2. OneEntryLess(i, j)  BY <2>1, <2>13, <3>4, <4>1, <5>1, EntryPassed
        <5> QED BY <3>2, <5>2 DEF OneEntryLess
      <4>3. ~ Holding(p, j) /\ ~ Holds(place, kind, i, j)  BY <2>3, <3>4, <4>1 DEF Holding, Holds
      <4>4. Cardinality(CallRefs(j)') = c  BY <2>2, <2>12, <2>13, <3>2, <4>3, CallsCounted
      <4>5. Refs(j)' = Cardinality(EntryRefs(j)') + b + c  BY <3>3, <4>4
      <4>6. CASE j # i  BY <3>2, <4>2, <4>5, <4>6
      <4>7. CASE j = i
        <5>1. Cardinality(EntryRefs(j)') = a - 1  BY <4>2, <4>7
        <5>2. Refs(j)' = (a - 1) + b + c  BY <4>5, <5>1
        <5> QED BY <3>2, <4>7, <5>2
      <4> QED BY <4>6, <4>7
    <3>5. CASE call[p].kind # "exit"
      <4>1. kind # "exit" /\ place \notin {"push", "close"}  BY <2>12, <3>5 DEF Follows
      <4>2. EntryRefs(j)' = EntryRefs(j)
        <5>1. \A e \in 1 .. Len(entry) :
                 Passed(place, kind, it, e) <=> Passed(pc[p], call[p].kind, call[p].it, e)
          BY <3>5, <4>1 DEF Passed
        <5> QED BY <2>2, <2>3, <2>12, <2>13, <5>1, EntriesSame, EntriesCounted
      <4>3. (Holding(p, j) <=> j = i) /\ ~ Holds(place, kind, i, j)
        BY <2>1, <2>3, <3>5, <4>1 DEF Holding, Holds
      <4>4. /\ j # i => Cardinality(CallRefs(j)') = c
            /\ j = i => Cardinality(CallRefs(j)') = c - 1
        BY <2>2, <2>12, <2>13, <3>2, <4>3, CallsCounted
      <4> QED BY <3>2, <3>3, <4>2, <4>4
    <3> QED BY <3>4, <3>5
  <2>16. CountInv'
    <3>1. SUFFICES ASSUME NEW j \in 1 .. Len(inodes), inodes'[j].live
                   PROVE  inodes'[j].open_cnt = Refs(j)'
      BY <2>9 DEF CountInv
    <3>2. CASE j # i
      <4>1. inodes'[j] = inodes[j]  BY <2>9, <3>2
      <4> QED BY <2>2, <2>15, <3>1, <3>2, <4>1 DEF CountInv
    <3>3. CASE j = i
      <4>1. inodes[j].open_cnt = Refs(j)  BY <2>2, <2>7, <2>9, <3>1, <3>3 DEF CountInv
      <4> QED BY <2>7, <2>9, <2>15, <3>3, <4>1
    <3> QED BY <3>2, <3>3
  <2> QED BY <2>13, <2>16 DEF SyscallsInv
<1> QED BY <1>1, <1>2

\* list_remove (&inode->elem) and free (inode).
LEMMA DropKeeps ==
    ASSUME SyscallsInv, NEW p \in Procs, Drop(p)
    PROVE  SyscallsInv'
<1>1. CASE \E what : Bad(what)  BY <1>1, BadKeeps
<1>2. CASE ~ \E what : Bad(what)
  <2>1. PICK it, i : it = call[p].it /\ i = call[p].inode  OBVIOUS
  <2>2. TypeInv /\ Exits(p) /\ Fits(pc[p], call[p].kind) /\ CountInv  BY Known DEF SyscallsInv
  <2>3. /\ pc[p] = "drop" /\ inodes' = [inodes EXCEPT ![i].listed = FALSE, ![i].live = FALSE]
        /\ UNCHANGED <<entry, fd_name_mapping, fd_index, dir, own>>
        /\ GoOn(p)
    BY <1>2, <2>1 DEF Drop, At, listVars
  <2>4. i \in 1 .. Len(inodes)  BY <2>1, <2>2, <2>3 DEF Exits
  <2>5. PICK x : x = [inodes[i] EXCEPT !.listed = FALSE, !.live = FALSE]  OBVIOUS
  <2>6. inodes[i] \in Inode /\ Len(inodes) \in Nat  BY <2>2, <2>4, Typed
  <2>7. x \in Inode /\ ~ x.live  BY <2>5, <2>6 DEF Inode
  <2>8. inodes' = [inodes EXCEPT ![i] = x]  BY <2>2, <2>3, <2>4, <2>5, <2>6 DEF Inode, TypeInv
  <2>9. /\ inodes' \in Seq(Inode) /\ Len(inodes') = Len(inodes) /\ inodes'[i] = x
        /\ \A j \in 1 .. Len(inodes) : j # i => inodes'[j] = inodes[j]
    BY <2>2, <2>4, <2>7, <2>8 DEF TypeInv
  <2>10. pc[p] \in Closing  BY <2>3 DEF Closing
  <2>11. PICK place, kind : /\ Moved(p, place, kind, it, i)
                            /\ Follows(pc[p], call[p].kind, place, kind) /\ place # "drop"
    BY <2>1, <2>3, <2>10, AfterFollows
  <2>12. TypeInv' /\ BoundInv' /\ PlaceInv' /\ OwnInv' /\ ExitInv' /\ ListInv' /\ FdInv'
    BY <2>1, <2>3, <2>9, <2>10, <2>11, ClosingKeeps
  <2>13. /\ place \notin {"push", "close"} /\ (kind = "exit" <=> call[p].kind = "exit")
         /\ (kind = "exit" => place = "free")
    BY <2>3, <2>11 DEF Follows
  <2>14. ASSUME NEW j \in 1 .. Len(inodes) PROVE Refs(j)' = Refs(j)
    <3>1. OwnRefs(j)' = OwnRefs(j)  BY <2>3 DEF OwnRefs
    <3>2. EntryRefs(j)' = EntryRefs(j)
      <4>1. \A e \in 1 .. Len(entry) :
               Passed(place, kind, it, e) <=> Passed(pc[p], call[p].kind, call[p].it, e)
        BY <2>1, <2>3, <2>13 DEF Passed
      <4> QED BY <2>2, <2>3, <2>11, <2>12, <4>1, EntriesSame, EntriesCounted
    <3>3. ~ Holding(p, j) /\ ~ Holds(place, kind, i, j)  BY <2>3, <2>13 DEF Holding, Holds
    <3>4. Cardinality(CallRefs(j)') = Cardinality(CallRefs(j))
      BY <2>2, <2>11, <2>12, <3>3, CallsCounted
    <3> QED BY <3>1, <3>2, <3>4 DEF Refs
  <2>15. CountInv'
    <3>1. SUFFICES ASSUME NEW j \in 1 .. Len(inodes), inodes'[j].live
                   PROVE  inodes'[j].open_cnt = Refs(j)'
      BY <2>9 DEF CountInv
    <3>2. j # i /\ inodes'[j] = inodes[j]  BY <2>7, <2>9, <3>1
    <3> QED BY <2>2, <2>14, <3>1, <3>2 DEF CountInv
  <2> QED BY <2>12, <2>15 DEF SyscallsInv
<1> QED BY <1>1, <1>2

-----------------------------------------------------------------------------
(* The steps that make, link, unlink and free an entry.                    *)

\* The entries of the other processes stay on the list, or off it.
OthersStay(p) ==
    \A e \in 1 .. Len(entry) :
        entry[e].tid # p => (OnList(e, fd_name_mapping') <=> OnList(e, fd_name_mapping))
\* What is new is the process's own.
NewOnesOf(p) == \A e \in 1 .. Len(entry') : e \in 1 .. Len(entry) \/ entry'[e].tid = p

\* What is known of the entries of the other processes still is.
LEMMA OthersKept ==
    ASSUME SyscallsInv, TypeInv', NEW p \in Procs, NEW place, NEW kind, NEW it, NEW inode,
           Moved(p, place, kind, it, inode), KeepOthers(p), OthersStay(p), NewOnesOf(p)
    PROVE  /\ \A e \in 1 .. Len(entry) : entry[e].tid # p => Kept(e)'
           /\ \A q \in Procs \ {p} : pc'[q] = "pushed" =>
                 \E e \in 1 .. Len(entry') : entry'[e].tid = q /\ entry'[e].live /\ Newest(q, e)'
<1>1. TypeInv /\ ListInv  BY DEF SyscallsInv
<1>2. \A q \in Procs \ {p} : pc'[q] = pc[q] /\ call'[q] = call[q]  BY <1>1 DEF TypeInv, Moved
<1>3. PICK n \in Nat, n1 \in Nat : n = Len(entry) /\ n1 = Len(entry') /\ n <= n1
  BY <1>1 DEF TypeInv, KeepOthers
<1>4. /\ \A e \in 1 .. n : /\ entry'[e].tid = entry[e].tid
                           /\ entry[e].tid # p => entry'[e].live = entry[e].live
      /\ \A e \in 1 .. n1 : e \in 1 .. n \/ entry'[e].tid = p
      /\ \A e \in 1 .. n : e \in 1 .. n1
  BY <1>3 DEF KeepOthers, NewOnesOf
<1>5. ASSUME NEW q \in Procs \ {p}, NEW e \in 1 .. n PROVE Newest(q, e)' <=> Newest(q, e)
  BY <1>3, <1>4 DEF Newest
<1>6. ASSUME NEW e \in 1 .. n, entry[e].tid # p PROVE Kept(e)'
  <2>1. PICK t \in Procs \ {p} : t = entry[e].tid /\ t = entry'[e].tid  BY <1>1, <1>3, <1>4, <1>6, Typed
  <2>2. Kept(e)  BY <1>1, <1>3 DEF ListInv
  <2>3. /\ OnList(e, fd_name_mapping) <=> entry[e].live /\ ~ Unlinked(t, e)
        /\ Running(t) => entry[e].live
        /\ pc[t] # "unborn"
    BY <2>1, <2>2 DEF Kept
  <2>4. Newest(t, e)' <=> Newest(t, e)  BY <1>5, <2>1
  <2>5. Unlinked(t, e)' <=> Unlinked(t, e)  BY <1>2, <2>1, <2>4 DEF Unlinked
  <2>6. (Running(t)' <=> Running(t)) /\ pc'[t] # "unborn"  BY <1>2, <2>1, <2>3 DEF Running, Kind
  <2>7. OnList(e, fd_name_mapping)' <=> OnList(e, fd_name_mapping)
    BY <1>3, <1>6 DEF OthersStay
  <2>8. entry'[e].live = entry[e].live  BY <1>4, <1>6
  <2>9. (OnList(e, fd_name_mapping) <=> entry[e].live /\ ~ Unlinked(t, e))'
    BY <2>3, <2>5, <2>7, <2>8
  <2> QED BY <2>1, <2>3, <2>6, <2>8, <2>9 DEF Kept
<1>7. ASSUME NEW q \in Procs \ {p}, pc'[q] = "pushed"
      PROVE  \E e \in 1 .. n1 : entry'[e].tid = q /\ entry'[e].live /\ Newest(q, e)'
  <2>1. pc[q] = "pushed"  BY <1>2, <1>7
  <2>2. PICK e \in 1 .. n : entry[e].tid = q /\ entry[e].live /\ Newest(q, e)
    BY <1>1, <1>3, <2>1 DEF ListInv
  <2>3. e \in 1 .. n1 /\ entry'[e].tid = q /\ entry'[e].live  BY <1>4, <1>7, <2>2
  <2>4. Newest(q, e)'  BY <1>5, <1>7, <2>2
  <2> QED BY <2>3, <2>4
<1> QED BY <1>3, <1>6, <1>7

\* The list, from what is said of the entries of the process that moves.
LEMMA ListChanges ==
    ASSUME SyscallsInv, TypeInv', NEW p \in Procs, NEW place, NEW kind, NEW it, NEW inode,
           Moved(p, place, kind, it, inode), KeepOthers(p), OthersStay(p), NewOnesOf(p),
           NoTwice(fd_name_mapping'),
           \A e : OnList(e, fd_name_mapping') => e \in 1 .. Len(entry'),
           \A e \in 1 .. Len(entry') : entry'[e].tid = p => Kept(e)',
           pc'[p] = "pushed" =>
              \E e \in 1 .. Len(entry') : entry'[e].tid = p /\ entry'[e].live /\ Newest(p, e)'
    PROVE  ListInv'
<1>1. /\ \A e \in 1 .. Len(entry) : entry[e].tid # p => Kept(e)'
      /\ \A q \in Procs \ {p} : pc'[q] = "pushed" =>
            \E e \in 1 .. Len(entry') : entry'[e].tid = q /\ entry'[e].live /\ Newest(q, e)'
  BY OthersKept
<1>2. ASSUME NEW e \in 1 .. Len(entry') PROVE Kept(e)'
  <2>1. CASE entry'[e].tid = p  BY <2>1
  <2>2. CASE entry'[e].tid # p
    <3>1. e \in 1 .. Len(entry)  BY <2>2 DEF NewOnesOf
    <3>2. entry[e].tid # p  BY <2>2, <3>1 DEF KeepOthers
    <3> QED BY <1>1, <3>1, <3>2
  <2> QED BY <2>1, <2>2
<1>3. \A q \in Procs : pc'[q] = "pushed" =>
         \E e \in 1 .. Len(entry') : entry'[e].tid = q /\ entry'[e].live /\ Newest(q, e)'
  BY <1>1
<1> QED BY <1>2, <1>3 DEF ListInv

\* The end of list_push_back().
LEMMA PushedKeeps ==
    ASSUME SyscallsInv, NEW p \in Procs, Pushed(p)
    PROVE  SyscallsInv'
<1>1. TypeInv /\ BoundInv /\ OwnInv /\ ListInv /\ FdInv /\ CountInv  BY DEF SyscallsInv
<1>2. /\ call[p].it \in 0 .. Len(entry) /\ call[p].inode \in 0 .. Len(inodes)
      /\ Fits(pc[p], call[p].kind)
      /\ Len(entry) \in Nat /\ Len(inodes) \in Nat /\ DOMAIN entry = 1 .. Len(entry)
  BY <1>1, Known, Typed
<1>3. pc[p] = "pushed" /\ Goto(p, "release") /\ UNCHANGED <<call, entry, fd_index, inodes, dir, own>>
  BY DEF Pushed, At, fsVars
<1>4. PICK it, i : it = call[p].it /\ i = call[p].inode  OBVIOUS
<1>5. call[p].kind = "open"  BY <1>2, <1>3 DEF Fits
<1>6. Moved(p, "release", "open", it, i)  BY <1>1, <1>3, <1>4, <1>5, GotoOnly
<1>7. pc'[p] = "release" /\ call'[p].kind = "open"  BY <1>1, <1>3, <1>5 DEF TypeInv, Goto
<1>8. PICK d \in 1 .. Len(entry) : entry[d].tid = p /\ entry[d].live /\ Newest(p, d)
  BY <1>1, <1>3 DEF ListInv
<1>9. fd_name_mapping' = Append(fd_name_mapping, d)
  <2>1. PICK mine : mine = {e \in DOMAIN entry : entry[e].tid = p}  OBVIOUS
  <2>2. PICK c : c = CHOOSE e \in mine : \A x \in mine : x <= e  OBVIOUS
  <2>3. fd_name_mapping' = Append(fd_name_mapping, c)  BY <2>1, <2>2 DEF Pushed
  <2>4. d \in mine /\ \A x \in mine : x <= d  BY <1>2, <1>8, <2>1 DEF Newest
  <2>5. c \in mine /\ \A x \in mine : x <= c  BY <2>2, <2>4
  <2>6. c = d
    <3>1. c \in 1 .. Len(entry) /\ c <= d /\ d <= c  BY <1>2, <2>1, <2>4, <2>5
    <3> QED BY <1>2, <3>1
  <2> QED BY <2>3, <2>6
<1>10. ~ OnList(d, fd_name_mapping)
  <2>1. Kept(d) /\ Unlinked(p, d)  BY <1>1, <1>3, <1>8 DEF ListInv, Unlinked
  <2> QED BY <1>8, <2>1 DEF Kept
<1>11. /\ fd_name_mapping' \in Seq(Nat) /\ NoTwice(fd_name_mapping')
       /\ \A e : OnList(e, fd_name_mapping') <=> OnList(e, fd_name_mapping) \/ e = d
  <2>1. fd_name_mapping \in Seq(Nat) /\ NoTwice(fd_name_mapping) /\ d \in Nat
    BY <1>1, <1>2 DEF TypeInv, ListInv
  <2> QED BY <1>9, <1>10, <2>1, PushedBack
<1>12. TypeInv'
  <2>1. pc' \in [Procs -> Places]  BY <1>1, <1>3 DEF TypeInv, Goto, Places
  <2> QED BY <1>1, <1>3, <1>11, <2>1 DEF TypeInv
<1>13. KeepOthers(p) /\ NewOnesOf(p) /\ Len(inodes) <= Len(inodes')
  BY <1>2, <1>3 DEF KeepOthers, NewOnesOf
<1>14. OthersStay(p)  BY <1>8, <1>11 DEF OthersStay
<1>15. Leads(p, "release", "open", it, i)
  <2>1. own[p] \in Nat /\ own[p] <= Len(inodes)  BY <1>1, Typed DEF BoundInv
  <2>2. "release" \in Places /\ Fits("release", "open") /\ ~ Unset("release", "open")
    BY DEF Places, Fits, OnExit, Closing, Starting, Unset
  <2> QED BY <1>2, <1>3, <1>4, <2>1, <2>2 DEF Leads
<1>16. Exits(p)'  BY <1>7 DEF Exits
<1>17. PlaceInv' /\ OwnInv' /\ ExitInv' /\ \A q \in Procs : Reaches(q)' /\ own'[q] <= Len(inodes')
  BY <1>6, <1>12, <1>13, <1>15, <1>16, ProcsStay
<1>18. BoundInv'  BY <1>1, <1>3, <1>17 DEF BoundInv
<1>19. ListInv'
  <2>1. \A e : OnList(e, fd_name_mapping') => e \in 1 .. Len(entry')  BY <1>1, <1>3, <1>11 DEF ListInv
  <2>2. ASSUME NEW e \in 1 .. Len(entry'), entry'[e].tid = p PROVE Kept(e)'
    <3>1. e \in 1 .. Len(entry) /\ entry[e].tid = p /\ Kept(e)  BY <1>1, <1>3, <2>2 DEF ListInv
    <3>2. /\ OnList(e, fd_name_mapping) <=> entry[e].live /\ ~ Unlinked(p, e)
          /\ Running(p) => entry[e].live
      BY <3>1 DEF Kept
    <3>3. Running(p)  BY <1>3, <1>5 DEF Running, Kind
    <3>4. ~ Unlinked(p, e)'  BY <1>7 DEF Unlinked
    <3>5. e # d => ~ Unlinked(p, e)
      <4>1. e # d => ~ Newest(p, e)
        <5>1. Newest(p, e) => d <= e  BY <1>8 DEF Newest
        <5>2. e <= d  BY <1>8, <3>1 DEF Newest
        <5> QED BY <1>2, <3>1, <5>1, <5>2
      <4> QED BY <1>3, <1>5, <4>1 DEF Unlinked
    <3>6. OnList(e, fd_name_mapping)' /\ entry'[e].live  BY <1>3, <1>11, <3>2, <3>3, <3>5
    <3>7. pc'[p] # "unborn"  BY <1>7
    <3> QED BY <2>2, <3>4, <3>6, <3>7 DEF Kept
  <2>3. pc'[p] # "pushed"  BY <1>7
  <2> QED BY <1>6, <1>11, <1>12, <1>13, <1>14, <2>1, <2>2, <2>3, ListChanges
<1>20. FdInv'  BY <1>1, <1>3 DEF FdInv
<1>21. ASSUME NEW j PROVE Refs(j)' = Refs(j)
  <2>1. OwnRefs(j)' = OwnRefs(j)  BY <1>3 DEF OwnRefs
  <2>2. EntryRefs(j)' = EntryRefs(j)
    <3>1. \A e \in 1 .. Len(entry) :
             Passed("release", "open", it, e) <=> Passed(pc[p], call[p].kind, call[p].it, e)
      BY <1>3 DEF Passed
    <3> QED BY <1>1, <1>3, <1>6, <1>12, <3>1, EntriesSame, EntriesCounted
  <2>3. ~ Holding(p, j) /\ ~ Holds("release", "open", i, j)  BY <1>3 DEF Holding, Holds
  <2>4. Cardinality(CallRefs(j)') = Cardinality(CallRefs(j))
    BY <1>1, <1>6, <1>12, <2>3, CallsCounted
  <2> QED BY <2>1, <2>2, <2>4 DEF Refs
<1>22. CountInv'  BY <1>1, <1>3, <1>21 DEF CountInv
<1> QED BY <1>12, <1>17, <1>18, <1>19, <1>20, <1>22 DEF SyscallsInv

\* list_remove (&ffn->elem) and the look at the file's inode.
LEMMA RemovedKeeps ==
    ASSUME SyscallsInv, NEW p \in Procs, Removed(p)
    PROVE  SyscallsInv'
<1>1. TypeInv /\ BoundInv /\ OwnInv /\ ListInv /\ FdInv /\ CountInv  BY DEF SyscallsInv
<1>2. /\ Fits(pc[p], call[p].kind) /\ Exits(p)
      /\ Len(entry) \in Nat /\ Len(inodes) \in Nat /\ DOMAIN entry = 1 .. Len(entry)
  BY <1>1, Known, Typed
<1>3. PICK e : e = call[p].it  OBVIOUS
<1>4. PICK i, after : i = entry[e].inode /\ after = ListNext(e)  OBVIOUS
<1>5. /\ pc[p] = "removed" /\ Goto(p, "close") /\ Set(p, "inode", i)
      /\ fd_name_mapping' = Unlink(fd_name_mapping, e)
      /\ entry' = [entry EXCEPT ![e].next = after]
      /\ UNCHANGED <<fd_index, inodes, dir, own>>
  BY <1>3, <1>4 DEF Removed, At, fsVars
<1>6. call[p].kind = "exit"  BY <1>2, <1>5 DEF Fits, OnExit
<1>7. e \in 1 .. Len(entry) /\ entry[e].tid = p /\ entry[e].live  BY <1>2, <1>3, <1>5, <1>6 DEF Exits
<1>8. i \in 1 .. Len(inodes) /\ i \in Nat /\ after \in 0 .. Len(entry) /\ after \in Nat
  BY <1>1, <1>2, <1>4, <1>7, WalkStays DEF BoundInv
<1>9. Moved(p, "close", "exit", e, i)  BY <1>1, <1>3, <1>5, <1>6, <1>8, GotoSetInode
<1>10. pc'[p] = "close" /\ call'[p].kind = "exit" /\ call'[p].it = e /\ call'[p].inode = i
  BY <1>1, <1>9 DEF TypeInv, Moved
<1>11. PICK x : x = [entry[e] EXCEPT !.next = after]  OBVIOUS
<1>12. entry[e] \in Entry  BY <1>1, <1>7, Typed
<1>13. /\ x \in Entry /\ x.tid = entry[e].tid /\ x.fd = entry[e].fd /\ x.inode = entry[e].inode
       /\ x.live = entry[e].live /\ x.next = after
  BY <1>8, <1>11, <1>12 DEF Entry
<1>14. entry' = [entry EXCEPT ![e] = x]  BY <1>5, <1>11
<1>15. /\ entry' \in Seq(Entry) /\ Len(entry') = Len(entry) /\ entry'[e] = x
       /\ \A d \in 1 .. Len(entry) : d # e => entry'[d] = entry[d]
  BY <1>1, <1>7, <1>13, <1>14 DEF TypeInv
<1>16. \A d \in 1 .. Len(entry) :
          /\ entry'[d].tid = entry[d].tid /\ entry'[d].fd = entry[d].fd
          /\ entry'[d].inode = entry[d].inode /\ entry'[d].live = entry[d].live
  BY <1>13, <1>15
<1>17. OnList(e, fd_name_mapping)
  <2>1. Kept(e) /\ ~ Unlinked(p, e)  BY <1>1, <1>5, <1>7 DEF ListInv, Unlinked
  <2> QED BY <1>7, <2>1 DEF Kept
<1>18. /\ fd_name_mapping' \in Seq(Nat) /\ NoTwice(fd_name_mapping')
       /\ \A d : OnList(d, fd_name_mapping') <=> OnList(d, fd_name_mapping) /\ d # e
  <2>1. fd_name_mapping \in Seq(Nat) /\ NoTwice(fd_name_mapping)  BY <1>1 DEF TypeInv, ListInv
  <2> QED BY <1>5, <1>17, <2>1, Unlinks
<1>19. TypeInv'
  <2>1. pc' \in [Procs -> Places]  BY <1>1, <1>5 DEF TypeInv, Goto, Places
  <2> QED BY <1>1, <1>5, <1>9, <1>15, <1>18, <2>1 DEF TypeInv, Moved
<1>20. KeepOthers(p) /\ NewOnesOf(p) /\ SameFiles /\ Len(inodes) <= Len(inodes')
  BY <1>2, <1>5, <1>15, <1>16 DEF KeepOthers, NewOnesOf, SameFiles
<1>21. OthersStay(p)  BY <1>7, <1>18 DEF OthersStay
<1>22. Leads(p, "close", "exit", e, i)
  <2>1. own[p] \in Nat /\ own[p] <= Len(inodes)  BY <1>1, Typed DEF BoundInv
  <2>2. "close" \in Places /\ Fits("close", "exit") /\ ~ Unset("close", "exit")
    BY DEF Places, Fits, OnExit, Closing, Starting, Unset
  <2> QED BY <1>2, <1>5, <1>7, <1>8, <1>15, <2>1, <2>2 DEF Leads
<1>23. Exits(p)'
  <2>1. e \in 1 .. Len(entry') /\ entry'[e].tid = p /\ entry'[e].live /\ entry'[e].inode = i
        /\ i \in 1 .. Len(inodes')
    BY <1>4, <1>5, <1>7, <1>8, <1>15, <1>16
  <2> QED BY <1>10, <2>1 DEF Exits
<1>24. PlaceInv' /\ OwnInv' /\ ExitInv' /\ \A q \in Procs : Reaches(q)' /\ own'[q] <= Len(inodes')
  BY <1>9, <1>19, <1>20, <1>22, <1>23, ProcsStay
<1>25. BoundInv'
  <2>1. \A d \in 1 .. Len(entry) : entry'[d].next <= Len(entry) /\ entry'[d].inode \in 1 .. Len(inodes)
    BY <1>1, <1>2, <1>8, <1>13, <1>15 DEF BoundInv
  <2> QED BY <1>5, <1>15, <1>24, <2>1 DEF BoundInv
<1>26. ListInv'
  <2>1. \A d : OnList(d, fd_name_mapping') => d \in 1 .. Len(entry')
    BY <1>1, <1>15, <1>18 DEF ListInv
  <2>2. ASSUME NEW d \in 1 .. Len(entry'), entry'[d].tid = p PROVE Kept(d)'
    <3>1. d \in 1 .. Len(entry) /\ entry[d].tid = p /\ Kept(d)  BY <1>1, <1>15, <1>16, <2>2 DEF ListInv
    <3>2. OnList(d, fd_name_mapping) <=> entry[d].live /\ ~ Unlinked(p, d)  BY <3>1 DEF Kept
    <3>3. ~ Running(p)' /\ pc'[p] # "unborn"  BY <1>10 DEF Running, Kind
    <3>4. ~ Unlinked(p, d) /\ (Unlinked(p, d)' <=> d = e)  BY <1>5, <1>10 DEF Unlinked
    <3>5. (OnList(d, fd_name_mapping) <=> entry[d].live /\ ~ Unlinked(p, d))'
      BY <1>16, <1>18, <3>1, <3>2, <3>4
    <3> QED BY <2>2, <3>3, <3>5 DEF Kept
  <2>3. pc'[p] # "pushed"  BY <1>10
  <2> QED BY <1>9, <1>18, <1>19, <1>20, <1>21, <2>1, <2>2, <2>3, ListChanges
<1>27. FdInv'  BY <1>1, <1>5, <1>15, <1>16 DEF FdInv
<1>28. ASSUME NEW j PROVE Refs(j)' = Refs(j)
  <2>1. OwnRefs(j)' = OwnRefs(j)  BY <1>5 DEF OwnRefs
  <2>2. EntryRefs(j)' = EntryRefs(j)
    <3>1. \A d \in 1 .. Len(entry) :
             Passed("close", "exit", e, d) <=> Passed(pc[p], call[p].kind, call[p].it, d)
      BY <1>5 DEF Passed
    <3> QED BY <1>1, <1>9, <1>19, <1>20, <3>1, EntriesCounted
  <2>3. ~ Holding(p, j) /\ ~ Holds("close", "exit", i, j)  BY <1>5 DEF Holding, Holds
  <2>4. Cardinality(CallRefs(j)') = Cardinality(CallRefs(j))
    BY <1>1, <1>9, <1>19, <2>3, CallsCounted
  <2> QED BY <2>1, <2>2, <2>4 DEF Refs
<1>29. CountInv'  BY <1>1, <1>5, <1>28 DEF CountInv
<1> QED BY <1>19, <1>24, <1>25, <1>26, <1>27, <1>29 DEF SyscallsInv

\* free (ffn), when the file has been closed.
LEMMA FreeKeeps ==
    ASSUME SyscallsInv, NEW p \in Procs, Free(p)
    PROVE  SyscallsInv'
<1>1. TypeInv /\ BoundInv /\ OwnInv /\ ListInv /\ FdInv /\ CountInv  BY DEF SyscallsInv
<1>2. /\ Fits(pc[p], call[p].kind) /\ Exits(p) /\ call[p].inode \in 0 .. Len(inodes)
      /\ Len(entry) \in Nat /\ Len(inodes) \in Nat /\ DOMAIN entry = 1 .. Len(entry)
  BY <1>1, Known, Typed
<1>3. PICK e, i : e = call[p].it /\ i = call[p].inode  OBVIOUS
<1>4. /\ pc[p] = "free" /\ Goto(p, "exit_find") /\ entry' = [entry EXCEPT ![e].live = FALSE]
      /\ UNCHANGED <<call, fd_name_mapping, fd_index, inodes, dir, own>>
  BY <1>3 DEF Free, At, fsVars
<1>5. call[p].kind = "exit"  BY <1>2, <1>4 DEF Fits, OnExit
<1>6. e \in 1 .. Len(entry) /\ entry[e].tid = p  BY <1>2, <1>3, <1>4, <1>5 DEF Exits
<1>7. Moved(p, "exit_find", "exit", e, i)  BY <1>1, <1>3, <1>4, <1>5, GotoOnly
<1>8. /\ pc'[p] = "exit_find" /\ call'[p].kind = "exit"
      /\ \A q \in Procs \ {p} : pc'[q] = pc[q] /\ call'[q] = call[q]
  BY <1>1, <1>7 DEF TypeInv, Moved
<1>9. PICK x : x = [entry[e] EXCEPT !.live = FALSE]  OBVIOUS
<1>10. entry[e] \in Entry  BY <1>1, <1>6, Typed
<1>11. /\ x \in Entry /\ x.tid = entry[e].tid /\ x.fd = entry[e].fd /\ x.inode = entry[e].inode
       /\ ~ x.live /\ x.next = entry[e].next
  BY <1>9, <1>10 DEF Entry
<1>12. entry' = [entry EXCEPT ![e] = x]  BY <1>4, <1>9
<1>13. /\ entry' \in Seq(Entry) /\ Len(entry') = Len(entry) /\ entry'[e] = x
       /\ \A d \in 1 .. Len(entry) : d # e => entry'[d] = entry[d]
  BY <1>1, <1>6, <1>11, <1>12 DEF TypeInv
<1>14. \A d \in 1 .. Len(entry) :
          /\ entry'[d].tid = entry[d].tid /\ entry'[d].fd = entry[d].fd
          /\ entry'[d].inode = entry[d].inode /\ entry'[d].next = entry[d].next
          /\ d # e => entry'[d].live = entry[d].live
  BY <1>11, <1>13
<1>15. TypeInv'
  <2>1. pc' \in [Procs -> Places]  BY <1>1, <1>4 DEF TypeInv, Goto, Places
  <2> QED BY <1>1, <1>4, <1>13, <2>1 DEF TypeInv
<1>16. KeepOthers(p) /\ NewOnesOf(p) /\ Len(inodes) <= Len(inodes')
  <2>1. \A d \in 1 .. Len(entry) : entry[d].tid # p => entry'[d].live = entry[d].live
    BY <1>6, <1>14
  <2>2. KeepOthers(p)  BY <1>2, <1>13, <1>14, <2>1 DEF KeepOthers
  <2>3. NewOnesOf(p)  BY <1>13 DEF NewOnesOf
  <2> QED BY <1>2, <1>4, <2>2, <2>3
<1>17. OthersStay(p)  BY <1>4 DEF OthersStay
<1>18. Leads(p, "exit_find", "exit", e, i)
  <2>1. own[p] \in Nat /\ own[p] <= Len(inodes)  BY <1>1, Typed DEF BoundInv
  <2>2. "exit_find" \in Places /\ Fits("exit_find", "exit") /\ ~ Unset("exit_find", "exit")
    BY DEF Places, Fits, OnExit, Closing, Starting, Unset
  <2> QED BY <1>2, <1>3, <1>4, <1>6, <1>13, <2>1, <2>2 DEF Leads
<1>19. Exits(p)'  BY <1>8 DEF Exits
<1>20. PlaceInv' /\ OwnInv' /\ ExitInv' /\ \A q \in Procs : Reaches(q)' /\ own'[q] <= Len(inodes')
  BY <1>7, <1>15, <1>16, <1>18, <1>19, ProcsStay
<1>21. BoundInv'
  <2>1. \A d \in 1 .. Len(entry) : entry'[d].next <= Len(entry) /\ entry'[d].inode \in 1 .. Len(inodes)
    BY <1>1, <1>14 DEF BoundInv
  <2> QED BY <1>4, <1>13, <1>20, <2>1 DEF BoundInv
<1>22. ListInv'
  <2>1. NoTwice(fd_name_mapping') /\ \A d : OnList(d, fd_name_mapping') => d \in 1 .. Len(entry')
    BY <1>1, <1>4, <1>13 DEF ListInv
  <2>2. ASSUME NEW d \in 1 .. Len(entry'), entry'[d].tid = p PROVE Kept(d)'
    <3>1. d \in 1 .. Len(entry) /\ entry[d].tid = p /\ Kept(d)  BY <1>1, <1>13, <1>14, <2>2 DEF ListInv
    <3>2. OnList(d, fd_name_mapping) <=> entry[d].live /\ ~ Unlinked(p, d)  BY <3>1 DEF Kept
    <3>3. ~ Running(p)' /\ pc'[p] # "unborn"  BY <1>8 DEF Running, Kind
    <3>4. (Unlinked(p, d) <=> d = e) /\ ~ Unlinked(p, d)'  BY <1>3, <1>4, <1>5, <1>8 DEF Unlinked
    <3>5. (OnList(d, fd_name_mapping) <=> entry[d].live /\ ~ Unlinked(p, d))'
      BY <1>4, <1>11, <1>13, <1>14, <3>1, <3>2, <3>4
    <3> QED BY <2>2, <3>3, <3>5 DEF Kept
  <2>3. pc'[p] # "pushed"  BY <1>8
  <2> QED BY <1>7, <1>15, <1>16, <1>17, <2>1, <2>2, <2>3, ListChanges
<1>23. FdInv'  BY <1>1, <1>4, <1>13, <1>14 DEF FdInv
<1>24. ASSUME NEW j PROVE Refs(j)' = Refs(j)
  <2>1. OwnRefs(j)' = OwnRefs(j)  BY <1>4 DEF OwnRefs
  <2>2. EntryRefs(j)' = EntryRefs(j)
    <3>1. InClose(p) /\ ~ InClose(p)'  BY <1>4, <1>5, <1>8 DEF InClose, Kind
    <3>2. \A q \in Procs \ {p} : \A d : (InClose(q) /\ call[q].it = d)' <=> InClose(q) /\ call[q].it = d
      BY <1>8 DEF InClose, Kind
    <3>3. \A d \in 1 .. Len(entry) : d # e =>
             ((\E q \in Procs : InClose(q) /\ call[q].it = d)'
                  <=> \E q \in Procs : InClose(q) /\ call[q].it = d)
      BY <1>3, <3>1, <3>2
    <3>4. DOMAIN entry' = 1 .. Len(entry)  BY <1>13
    <3>5. e \notin EntryRefs(j) /\ e \notin EntryRefs(j)'
      <4>1. e \notin EntryRefs(j)  BY <1>3, <3>1 DEF EntryRefs
      <4>2. e \notin EntryRefs(j)'  BY <1>11, <1>13 DEF EntryRefs
      <4> QED BY <4>1, <4>2
    <3>6. \A d \in 1 .. Len(entry) : d # e => (d \in EntryRefs(j)' <=> d \in EntryRefs(j))
      BY <1>2, <1>14, <3>3, <3>4 DEF EntryRefs
    <3>7. EntryRefs(j) \subseteq 1 .. Len(entry) /\ EntryRefs(j)' \subseteq 1 .. Len(entry)
      BY <1>2, <3>4 DEF EntryRefs
    <3> QED BY <3>5, <3>6, <3>7
  <2>3. ~ Holding(p, j) /\ ~ Holds("exit_find", "exit", i, j)  BY <1>4 DEF Holding, Holds
  <2>4. Cardinality(CallRefs(j)') = Cardinality(CallRefs(j))
    BY <1>1, <1>7, <1>15, <2>3, CallsCounted
  <2> QED BY <2>1, <2>2, <2>4 DEF Refs
<1>25. CountInv'  BY <1>1, <1>4, <1>24 DEF CountInv
<1> QED BY <1>15, <1>20, <1>21, <1>22, <1>23, <1>25 DEF SyscallsInv

\* The entry is made: the reference of the call becomes the entry's.
LEMMA PushKeeps ==
    ASSUME SyscallsInv, NEW p \in Procs, Push(p)
    PROVE  SyscallsInv'
<1>0. CASE \E what : Bad(what)  BY <1>0, BadKeeps
<1>1. CASE ~ \E what : Bad(what)
  <2>1. TypeInv /\ BoundInv /\ OwnInv /\ ListInv /\ FdInv /\ CountInv  BY DEF SyscallsInv
  <2>2. PICK n \in Nat, m \in Nat :
           /\ n = Len(entry) /\ m = Len(inodes) /\ DOMAIN entry = 1 .. n
           /\ Fits(pc[p], call[p].kind) /\ Exits(p) /\ call[p].it \in 0 .. n
    BY <2>1, Known, Typed
  <2>3. PICK it, i : it = call[p].it /\ i = call[p].inode  OBVIOUS
  <2>4. PICK x : x = [tid |-> p, fd |-> fd_index, inode |-> i,
                      live |-> TRUE, closed |-> FALSE, next |-> END_OF_LIST]
    OBVIOUS
  <2>5. /\ pc[p] = "push" /\ Goto(p, "pushed") /\ entry' = Append(entry, x)
        /\ fd_index' = fd_index + 1 /\ UNCHANGED <<call, fd_name_mapping, inodes, dir, own>>
    BY <1>1, <2>3, <2>4 DEF Push, At, fsVars
  <2>6. call[p].kind = "open" /\ i \in 1 .. m  BY <2>2, <2>3, <2>5 DEF Fits, Exits
  <2>7. Moved(p, "pushed", "open", it, i)  BY <2>1, <2>3, <2>5, <2>6, GotoOnly
  <2>8. /\ pc'[p] = "pushed" /\ call'[p].kind = "open" /\ fd_index \in Nat
        /\ \A q \in Procs \ {p} : pc'[q] = pc[q] /\ call'[q] = call[q]
    BY <2>1, <2>7 DEF TypeInv, Moved
  <2>9. /\ x \in Entry /\ x.tid = p /\ x.fd = fd_index /\ x.inode = i /\ x.live /\ x.next = 0
    BY <2>4, <2>6, <2>8 DEF Entry, END_OF_LIST
  <2>10. /\ entry' \in Seq(Entry) /\ Len(entry') = n + 1 /\ entry'[n + 1] = x
         /\ DOMAIN entry' = 1 .. n + 1
         /\ \A e \in 1 .. n : entry'[e] = entry[e]
    BY <2>1, <2>2, <2>5, <2>9 DEF TypeInv
  <2>11. n + 1 \in 1 .. n + 1 /\ \A e \in 1 .. n + 1 : e \in 1 .. n \/ e = n + 1  OBVIOUS
  <2>12. TypeInv'
    <3>1. pc' \in [Procs -> Places]  BY <2>1, <2>5 DEF TypeInv, Goto, Places
    <3>2. fd_index' \in Nat  BY <2>5, <2>8
    <3> QED BY <2>1, <2>5, <2>10, <3>1, <3>2 DEF TypeInv
  <2>13. KeepOthers(p) /\ NewOnesOf(p) /\ Len(inodes) <= Len(inodes')
    <3>1. KeepOthers(p)  BY <2>2, <2>10 DEF KeepOthers
    <3>2. NewOnesOf(p)  BY <2>2, <2>9, <2>10, <2>11 DEF NewOnesOf
    <3> QED BY <2>2, <2>5, <3>1, <3>2
  <2>14. OthersStay(p)  BY <2>5 DEF OthersStay
  <2>15. Leads(p, "pushed", "open", it, i)
    <3>1. own[p] \in Nat /\ own[p] <= m  BY <2>1, <2>2, Typed DEF BoundInv
    <3>2. "pushed" \in Places /\ Fits("pushed", "open") /\ ~ Unset("pushed", "open")
      BY DEF Places, Fits, OnExit, Closing, Starting, Unset
    <3>3. it \in 0 .. Len(entry') /\ i \in 0 .. Len(inodes') /\ own'[p] \in 0 .. Len(inodes')
      BY <2>2, <2>3, <2>5, <2>6, <2>10, <3>1
    <3> QED BY <2>5, <3>2, <3>3 DEF Leads
  <2>16. Exits(p)'  BY <2>8 DEF Exits
  <2>17. PlaceInv' /\ OwnInv' /\ ExitInv' /\ \A q \in Procs : Reaches(q)' /\ own'[q] <= Len(inodes')
    BY <2>7, <2>12, <2>13, <2>15, <2>16, ProcsStay
  <2>18. BoundInv'
    <3>1. ASSUME NEW e \in 1 .. n + 1
          PROVE  entry'[e].next <= n + 1 /\ entry'[e].inode \in 1 .. m
      <4>1. CASE e \in 1 .. n
        <5>1. entry[e].next <= n /\ entry[e].inode \in 1 .. m /\ entry[e].next \in Nat
          BY <2>1, <2>2, <4>1, Typed DEF BoundInv
        <5> QED BY <2>10, <4>1, <5>1
      <4>2. CASE e = n + 1  BY <2>6, <2>9, <2>10, <4>2
      <4> QED BY <2>11, <4>1, <4>2
    <3> QED BY <2>2, <2>5, <2>10, <2>17, <3>1 DEF BoundInv
  <2>19. ~ OnList(n + 1, fd_name_mapping)
    <3>1. n + 1 \notin 1 .. n  OBVIOUS
    <3> QED BY <2>1, <2>2, <3>1 DEF ListInv
  <2>20. Newest(p, n + 1)'  BY <2>10, <2>11 DEF Newest
  <2>21. ListInv'
    <3>1. NoTwice(fd_name_mapping') /\ \A e : OnList(e, fd_name_mapping') => e \in 1 .. Len(entry')
      <4>1. \A e : OnList(e, fd_name_mapping') => e \in 1 .. n  BY <2>1, <2>2, <2>5 DEF ListInv
      <4>2. \A e : e \in 1 .. n => e \in 1 .. n + 1  OBVIOUS
      <4> QED BY <2>1, <2>5, <2>10, <4>1, <4>2 DEF ListInv
    <3>2. ASSUME NEW e \in 1 .. n + 1, entry'[e].tid = p PROVE Kept(e)'
      <4>1. pc'[p] # "unborn"  BY <2>8
      <4>2. CASE e \in 1 .. n
        <5>1. entry[e].tid = p /\ Kept(e) /\ entry'[e] = entry[e]  BY <2>1, <2>2, <2>10, <3>2, <4>2 DEF ListInv
        <5>2. /\ OnList(e, fd_name_mapping) <=> entry[e].live /\ ~ Unlinked(p, e)
              /\ Running(p) => entry[e].live
          BY <5>1 DEF Kept
        <5>3. Running(p)  BY <2>5, <2>6 DEF Running, Kind
        <5>4. ~ Unlinked(p, e)  BY <2>5, <2>6 DEF Unlinked
        <5>5. ~ Newest(p, e)'
          <6>1. n + 1 \in 1 .. Len(entry') /\ entry'[n + 1].tid = p /\ ~ (n + 1 <= e)
            BY <2>9, <2>10, <2>11, <4>2
          <6> QED BY <6>1 DEF Newest
        <5>6. ~ Unlinked(p, e)'  BY <2>8, <5>5 DEF Unlinked
        <5>7. (OnList(e, fd_name_mapping) <=> entry[e].live /\ ~ Unlinked(p, e))'
          BY <2>5, <5>1, <5>2, <5>4, <5>6
        <5> QED BY <3>2, <4>1, <5>1, <5>2, <5>3, <5>7 DEF Kept
      <4>3. CASE e = n + 1
        <5>1. Unlinked(p, e)'  BY <2>8, <2>20, <4>3 DEF Unlinked
        <5>2. ~ OnList(e, fd_name_mapping)' /\ entry'[e].live  BY <2>5, <2>9, <2>10, <2>19, <4>3
        <5> QED BY <3>2, <4>1, <5>1, <5>2 DEF Kept
      <4> QED BY <2>11, <4>2, <4>3
    <3>3. \E e \in 1 .. Len(entry') : entry'[e].tid = p /\ entry'[e].live /\ Newest(p, e)'
      BY <2>9, <2>10, <2>11, <2>20
    <3> QED BY <2>7, <2>10, <2>12, <2>13, <2>14, <3>1, <3>2, <3>3, ListChanges
  <2>22. FdInv'
    <3>1. \A e \in 1 .. n : entry[e].fd < fd_index /\ entry[e].fd \in Nat
      BY <2>1, <2>2, Typed DEF FdInv
    <3>2. ASSUME NEW e \in 1 .. n + 1 PROVE entry'[e].fd < fd_index'
      <4>1. CASE e \in 1 .. n
        <5>1. entry'[e].fd = entry[e].fd /\ entry[e].fd < fd_index /\ entry[e].fd \in Nat
          BY <2>10, <3>1, <4>1
        <5> QED BY <2>5, <2>8, <5>1
      <4>2. CASE e = n + 1  BY <2>5, <2>8, <2>9, <2>10, <4>2
      <4> QED BY <2>11, <4>1, <4>2
    <3>3. ASSUME NEW d \in 1 .. n + 1, NEW e \in 1 .. n + 1, entry'[d].fd = entry'[e].fd PROVE d = e
      <4>1. \A c \in 1 .. n : entry'[c].fd = entry[c].fd /\ entry[c].fd # fd_index
        BY <2>8, <2>10, <3>1
      <4>2. entry'[n + 1].fd = fd_index  BY <2>9, <2>10
      <4>3. d \in 1 .. n /\ e \in 1 .. n => entry[d].fd = entry[e].fd  BY <3>3, <4>1
      <4>4. d \in 1 .. n /\ e \in 1 .. n => d = e  BY <2>1, <2>2, <4>3 DEF FdInv
      <4> QED BY <2>11, <3>3, <4>1, <4>2, <4>4
    <3> QED BY <2>10, <3>2, <3>3 DEF FdInv
  <2>23. ASSUME NEW j \in 1 .. m PROVE Refs(j)' = Refs(j)
    <3>1. OwnRefs(j)' = OwnRefs(j)  BY <2>5 DEF OwnRefs
    <3>2. PICK a \in Nat, b \in Nat, c \in Nat :
             /\ a = Cardinality(EntryRefs(j)) /\ b = Cardinality(OwnRefs(j))
             /\ c = Cardinality(CallRefs(j)) /\ Refs(j) = a + b + c
      BY <2>1, RefsFinite DEF Refs
    <3>3. Refs(j)' = Cardinality(EntryRefs(j)') + b + Cardinality(CallRefs(j)')
      BY <3>1, <3>2 DEF Refs
    <3>4. \A q \in Procs : \A e : (InClose(q) /\ call[q].it = e)' <=> InClose(q) /\ call[q].it = e
      BY <2>5, <2>8 DEF InClose, Kind
    <3>5. \A q \in Procs : call[q].it # n + 1
      <4>1. \A q \in Procs : call[q].it \in Nat /\ call[q].it <= n
        BY <2>1, <2>2, Typed DEF BoundInv, Reaches
      <4> QED BY <4>1
    <3>6. PICK S, T : S = EntryRefs(j) /\ T = EntryRefs(j)'  OBVIOUS
    <3>7. S \subseteq 1 .. n /\ T \subseteq 1 .. n + 1  BY <2>2, <2>10, <3>6 DEF EntryRefs
    <3>8. \A e \in 1 .. n : e \in T <=> e \in S
      <4>1. \A e \in 1 .. n : (\E q \in Procs : InClose(q) /\ call[q].it = e)'
                                 <=> \E q \in Procs : InClose(q) /\ call[q].it = e
        BY <3>4
      <4>2. \A e \in 1 .. n : e \in 1 .. n + 1  OBVIOUS
      <4> QED BY <2>2, <2>10, <3>6, <4>1, <4>2 DEF EntryRefs
    <3>9. n + 1 \in T <=> j = i
      <4>1. ~ (\E q \in Procs : InClose(q) /\ call[q].it = n + 1)'  BY <2>5, <3>5
      <4> QED BY <2>9, <2>10, <2>11, <3>6, <4>1 DEF EntryRefs
    <3>10. n + 1 \notin S /\ IsFiniteSet(S)
      <4>1. n + 1 \notin 1 .. n  OBVIOUS
      <4> QED BY <2>1, <3>6, <3>7, <4>1, RefsFinite
    <3>11. CASE j = i
      <4>1. T = S \union {n + 1}  BY <2>11, <3>7, <3>8, <3>9, <3>11
      <4>2. Cardinality(T) = Cardinality(S) + 1  BY <3>10, <4>1, FS_AddElement
      <4>3. Holding(p, j) /\ ~ Holds("pushed", "open", i, j)
        BY <2>3, <2>5, <3>11 DEF Holding, Holds
      <4>4. Cardinality(CallRefs(j)') = Cardinality(CallRefs(j)) - 1
        BY <2>1, <2>7, <2>12, <4>3, CallsCounted
      <4>5. Refs(j)' = (a + 1) + b + (c - 1)  BY <3>2, <3>3, <3>6, <4>2, <4>4
      <4> QED BY <3>2, <4>5
    <3>12. CASE j # i
      <4>1. T = S  BY <2>11, <3>7, <3>8, <3>9, <3>12
      <4>2. ~ Holding(p, j) /\ ~ Holds("pushed", "open", i, j)
        BY <2>3, <3>12 DEF Holding, Holds
      <4>3. Cardinality(CallRefs(j)') = Cardinality(CallRefs(j))
        BY <2>1, <2>7, <2>12, <4>2, CallsCounted
      <4> QED BY <3>2, <3>3, <3>6, <4>1, <4>3
    <3> QED BY <3>11, <3>12
  <2>24. CountInv'  BY <2>1, <2>2, <2>5, <2>23 DEF CountInv
  <2> QED BY <2>12, <2>17, <2>18, <2>21, <2>22, <2>24 DEF SyscallsInv
<1> QED BY <1>0, <1>1

-----------------------------------------------------------------------------
(* The theorems.                                                           *)

\* syscall_init().
LEMMA InitKeeps == Init => SyscallsInv
<1>1. SUFFICES ASSUME Init PROVE SyscallsInv  OBVIOUS
<1>2. /\ pc = [p \in Procs |-> IF p \in Started THEN "user" ELSE "unborn"]
      /\ call = [p \in Procs |-> NoCall] /\ own = [p \in Procs |-> 0]
      /\ fd_index = 2 /\ dir = 1 /\ fd_name_mapping = << >> /\ entry = << >> /\ inodes = << >>
  BY <1>1 DEF Init
<1>3. /\ NoCall \in Calls /\ NoCall.kind = "none" /\ NoCall.it = 0 /\ NoCall.inode = 0
  BY DEF NoCall, Calls, Kinds, END_OF_LIST
<1>4. /\ \A p \in Procs : call[p].kind = "none" /\ call[p].it = 0 /\ call[p].inode = 0
      /\ \A p \in Procs : pc[p] \in {"user", "unborn"} /\ own[p] = 0
  BY <1>2, <1>3
<1>5. Len(entry) = 0 /\ Len(inodes) = 0 /\ 1 .. 0 = {} /\ DOMAIN fd_name_mapping = {}  BY <1>2
<1>6. TypeInv  BY <1>2, <1>3 DEF TypeInv, Places
<1>7. BoundInv  BY <1>4, <1>5 DEF BoundInv, Reaches
<1>8. PlaceInv  BY <1>4 DEF PlaceInv, Placed, Fits, OnExit, Closing, Starting
<1>9. OwnInv  BY <1>4 DEF OwnInv
<1>10. ExitInv  BY <1>4 DEF ExitInv, Exits
<1>11. ListInv
  <2>1. NoTwice(fd_name_mapping)  BY <1>2 DEF NoTwice
  <2>2. \A e : ~ OnList(e, fd_name_mapping)  BY <1>5 DEF OnList
  <2> QED BY <1>4, <1>5, <2>1, <2>2 DEF ListInv
<1>12. FdInv /\ CountInv  BY <1>5 DEF FdInv, CountInv
<1> QED BY <1>6, <1>7, <1>8, <1>9, <1>10, <1>11, <1>12 DEF SyscallsInv

\* Every step of the kernel and of a user program.
LEMMA NextKeeps == SyscallsInv /\ [Next]_vars => SyscallsInv'
<1>1. SUFFICES ASSUME SyscallsInv, [Next]_vars PROVE SyscallsInv'  OBVIOUS
<1>2. ASSUME NEW p \in Procs, Kernel(p) PROVE SyscallsInv'
  <2>1. CASE Acquire(p)  BY <1>1, <2>1, AcquireKeeps
  <2>2. CASE Release(p)  BY <1>1, <2>2, ReleaseKeeps
  <2>3. CASE Walk(p)  BY <1>1, <2>3, WalkKeeps
  <2>4. CASE Transfer(p) \/ FsAcquire(p) \/ FsRelease(p) \/ ExecWait(p) \/ ExitRemove(p)
    BY <1>1, <2>4, GoingOnKeeps
  <2>5. CASE FaultInside(p) \/ SeekNegative(p)
    BY <1>1, <2>5, BadKeeps DEF FaultInside, SeekNegative
  <2>6. CASE FaultAbove(p)  BY <1>1, <2>6, ExitKeeps
  <2>7. CASE FsCreate(p)  BY <1>1, <2>7, FsCreateKeeps
  <2>8. CASE FsRemove(p)  BY <1>1, <2>8, FsRemoveKeeps
  <2>9. CASE FsOpen(p)  BY <1>1, <2>9, FsOpenKeeps
  <2>10. CASE Push(p)  BY <1>1, <2>10, PushKeeps
  <2>11. CASE Pushed(p)  BY <1>1, <2>11, PushedKeeps
  <2>12. CASE Close(p)  BY <1>1, <2>12, CloseKeeps
  <2>13. CASE Drop(p)  BY <1>1, <2>13, DropKeeps
  <2>14. CASE ExitFind(p)  BY <1>1, <2>14, ExitFindKeeps
  <2>15. CASE ExitWalk(p)  BY <1>1, <2>15, ExitWalkKeeps
  <2>16. CASE Removed(p)  BY <1>1, <2>16, RemovedKeeps
  <2>17. CASE Free(p)  BY <1>1, <2>17, FreeKeeps
  <2>18. CASE Execute(p)  BY <1>1, <2>18, ExecuteKeeps
  <2>19. CASE Loaded(p)  BY <1>1, <2>19, LoadedKeeps
  <2>20. CASE Use(p)  BY <1>1, <2>20, UseKeeps
  <2> QED BY <1>2, <2>1, <2>2, <2>3, <2>4, <2>5, <2>6, <2>7, <2>8, <2>9, <2>10, <2>11, <2>12,
             <2>13, <2>14, <2>15, <2>16, <2>17, <2>18, <2>19, <2>20
             DEF Kernel
<1>3. ASSUME NEW p \in Procs, User(p) PROVE SyscallsInv'
  <2>1. CASE Exit(p)  BY <1>1, <2>1, ExitKeeps
  <2>2. CASE Kill(p)  BY <1>1, <2>2, KillKeeps
  <2>3. CASE KeyPressed(p)  BY <1>1, <2>3, KeyPressedKeeps
  <2>4. CASE \E kind \in DOMAIN Begins :
                \E fd \in IF kind \in WithFd THEN HandedOut \union {0} ELSE {0} : Enter(p, kind, fd)
    BY <1>1, <2>4, EnterKeeps
  <2> QED BY <1>3, <2>1, <2>2, <2>3, <2>4 DEF User
<1>4. CASE UNCHANGED vars
  <2>1. UNCHANGED <<pc, call, fd_index, fd_name_mapping, entry, inodes, dir, own>>
    BY <1>4 DEF vars, listVars, fsVars
  <2>2. TypeInv'  BY <1>1, <2>1 DEF SyscallsInv, TypeInv
  <2>3. Quiet  BY <2>1 DEF Quiet, SameEntries, Unmoved
  <2> QED BY <1>1, <2>2, <2>3, QuietKeeps
<1> QED BY <1>1, <1>2, <1>3, <1>4 DEF Next, Rest

\* The invariant holds in every state, for any number of processes and of calls.
THEOREM SyscallsInvariant == Spec => []SyscallsInv
BY InitKeeps, NextKeeps, PTL DEF Spec

\* syscall_open() and syscall_exit() of several processes on one list, the latter without
\* a lock: the descriptors of a process that runs are on it, open and no one else's.
THEOREM DescriptorsAreOwn == Spec => []OwnDescriptors
<1>1. SyscallsInv => OwnDescriptors
  <2>1. SUFFICES ASSUME SyscallsInv PROVE OwnDescriptors  OBVIOUS
  <2>2. TypeInv /\ ListInv /\ FdInv /\ PlaceInv  BY <2>1 DEF SyscallsInv
  <2>3. DOMAIN entry = 1 .. Len(entry)  BY <2>2, Typed
  <2>4. ASSUME NEW e \in 1 .. Len(entry), Running(entry[e].tid), pc[entry[e].tid] # "pushed"
        PROVE  OnList(e, fd_name_mapping) /\ entry[e].live
    <3>1. PICK t \in Procs : t = entry[e].tid  BY <2>2, Typed
    <3>2. /\ OnList(e, fd_name_mapping) <=> entry[e].live /\ ~ Unlinked(t, e)
          /\ Running(t) => entry[e].live
      BY <2>2, <3>1 DEF ListInv, Kept
    <3>3. ~ Unlinked(t, e)  BY <2>4, <3>1 DEF Unlinked, Running, Kind
    <3> QED BY <2>4, <3>1, <3>2, <3>3
  <2>5. \A d, e \in 1 .. Len(entry) : entry[d].fd = entry[e].fd => d = e  BY <2>2 DEF FdInv
  <2> QED BY <2>3, <2>4, <2>5 DEF OwnDescriptors
<1> QED BY <1>1, SyscallsInvariant, PTL

\* inode_open() and inode_close(), the latter under no lock when a process exits: an inode
\* counts the struct files that refer to it, neither more nor less.
THEOREM OpenCntIsExact == Spec => []OpenCntExact
<1>1. SyscallsInv => OpenCntExact
  <2>1. SUFFICES ASSUME SyscallsInv PROVE OpenCntExact  OBVIOUS
  <2>2. TypeInv /\ CountInv  BY <2>1 DEF SyscallsInv
  <2>3. DOMAIN inodes = 1 .. Len(inodes)  BY <2>2, Typed
  <2> QED BY <2>2, <2>3 DEF CountInv, OpenCntExact
<1> QED BY <1>1, SyscallsInvariant, PTL

\* find_mapping_by_fd() and its like walk over entries that are in use, each once.
MappingSound == /\ NoTwice(fd_name_mapping)
                /\ \A e : OnList(e, fd_name_mapping) => e \in DOMAIN entry /\ entry[e].live

\* The list of descriptors never leads to a freed entry from its head, and has no entry
\* twice.
THEOREM MappingIsSound == Spec => []MappingSound
<1>1. SyscallsInv => MappingSound
  <2>1. SUFFICES ASSUME SyscallsInv PROVE MappingSound  OBVIOUS
  <2>2. TypeInv /\ ListInv  BY <2>1 DEF SyscallsInv
  <2>3. DOMAIN entry = 1 .. Len(entry)  BY <2>2, Typed
  <2>4. ASSUME NEW e, OnList(e, fd_name_mapping) PROVE e \in DOMAIN entry /\ entry[e].live
    <3>1. e \in 1 .. Len(entry)  BY <2>2, <2>4 DEF ListInv
    <3> QED BY <2>2, <2>3, <2>4, <3>1 DEF ListInv, Kept
  <2> QED BY <2>2, <2>4 DEF ListInv, MappingSound
<1> QED BY <1>1, SyscallsInvariant, PTL

-----------------------------------------------------------------------------
(* The terminal: bytes on their way between threads and the line, and      *)
(* whose line is printed.                                                  *)

\* Bytes, and what an empty place of a queue holds at first.
Chars == {<< >>} \union ((Writers \union {"handler", "panic", "key", "line"}) \X Nat)
Anyone == Threads \union {NoThread}
Spots == 0 .. INTQ_BUFSIZE - 1
Rings == [buf : [Spots -> Chars], head : Spots, tail : Spots, lock : Anyone, not_full : Anyone, not_empty : Anyone]
PcTypes == [Threads -> {"ready", "locking", "waiting", "woken"}]
TermRecords ==
    [mode : {"UNINIT", "POLL", "QUEUE"}, ier : SUBSET {"XMIT", "RECV"}, txq : Rings, buffer : Rings,
     thr : Seq(Chars), rbr : Seq(Chars), line : Seq(Chars), sent : Seq(Chars),
     accepted : Seq(Chars), taken : Seq(Chars), pc : PcTypes, at : [Writers -> Nat],
     console : Anyone, depth : Nat, arrived : Nat, keys : Nat, prints : Nat,
     failed : BOOLEAN, panicked : BOOLEAN]

\* What is on its way out and in.
Out(s) == s.line \o s.thr \o Contents(s.txq)
In(s) == s.taken \o Contents(s.buffer)
OrderInv(s) == Out(s) = s.sent /\ In(s) = s.accepted

\* The receiver holds one byte; before serial_init_queue() and after a panic nothing is
\* queued, and before it nobody waits.  Nobody ever waits for something to send.
Calm(s) == (\A t \in Threads : s.pc[t] = "ready") /\ s.buffer.not_empty = NoThread
IdleInv(s) ==
    /\ Len(s.rbr) <= 1
    /\ s.mode # "QUEUE" \/ s.panicked => intq_empty(s.txq)
    /\ s.mode # "QUEUE" => Calm(s)
    /\ s.txq.not_empty = NoThread

\* A writer has the console exactly where its text says so, and as often.
HeldAt(at, console, depth) ==
    /\ console = NoThread => depth = 0
    /\ \A w \in Writers : /\ at[w] \in 1 .. Len(Script[w]) + 1
                          /\ Nesting(w, at[w]) = IF console = w THEN depth + 1 ELSE 0

\* Whoever has begun and not finished has the console, and no other writer came between.
FollowedBy(w, sent) ==
    \A i, k \in DOMAIN sent : sent[i][1] = w /\ i < k /\ sent[k][1] \in Writers => sent[k][1] = w
Printing(w, sent, at, console) ==
    \/ \A i \in DOMAIN sent : sent[i][1] # w
    \/ at[w] > Len(Script[w])
    \/ console = w /\ FollowedBy(w, sent)
Unmixed(sent) ==
    \A i, j \in DOMAIN sent : sent[i][1] \in Writers /\ i < j /\ sent[i][1] = sent[j][1] =>
        \A k \in i .. j : sent[k][1] \in Writers => sent[k][1] = sent[i][1]
LinesInv(sent, at, console, depth) ==
    HeldAt(at, console, depth) /\ Unmixed(sent) /\ \A w \in Writers : Printing(w, sent, at, console)
TermInv(s) == s \in TermRecords /\ OrderInv(s) /\ IdleInv(s) /\ LinesInv(s.sent, s.at, s.console, s.depth)

-----------------------------------------------------------------------------
(* The ring.                                                               *)

Count(head, tail) == IF tail <= head THEN head - tail ELSE head - tail + INTQ_BUFSIZE
Wrap(k) == IF k < INTQ_BUFSIZE THEN k ELSE k - INTQ_BUFSIZE

LEMMA WrapIs == ASSUME NEW k, NEW n, n = INTQ_BUFSIZE PROVE Wrap(k) = IF k < n THEN k ELSE k - n
BY Zenon DEF Wrap

LEMMA SizeIs == TerminalAssumption => INTQ_BUFSIZE \in Nat /\ INTQ_BUFSIZE > 1
BY DEF TerminalAssumption

LEMMA NextIs ==
    ASSUME TerminalAssumption, NEW pos \in Spots
    PROVE  next(pos) = (IF pos = INTQ_BUFSIZE - 1 THEN 0 ELSE pos + 1) /\ next(pos) \in Spots
<1>1. PICK n : n = INTQ_BUFSIZE
  OBVIOUS
<1>2. n \in Nat /\ n > 1 /\ pos \in 0 .. n - 1
  BY <1>1, SizeIs DEF Spots
<1>3. (pos + 1) % n = IF pos = n - 1 THEN 0 ELSE pos + 1
  BY <1>2
<1>4. (IF pos = n - 1 THEN 0 ELSE pos + 1) \in 0 .. n - 1
  BY <1>2
<1> QED BY <1>1, <1>3, <1>4 DEF next, Spots

\* The function that Contents() is.
Shown(c, buf, head, tail) ==
    /\ c \in Seq(Chars) /\ Len(c) = Count(head, tail)
    /\ \A i \in 1 .. Count(head, tail) : c[i] = buf[Wrap(tail + i - 1)]
LEMMA ContentsIs ==
    ASSUME TerminalAssumption, NEW q \in Rings
    PROVE  Shown(Contents(q), q.buf, q.head, q.tail)
<1>1. PICK n, head, tail, buf : n = INTQ_BUFSIZE /\ head = q.head /\ tail = q.tail /\ buf = q.buf
  OBVIOUS
<1>2. n \in Nat /\ n > 1 /\ head \in 0 .. n - 1 /\ tail \in 0 .. n - 1 /\ buf \in [0 .. n - 1 -> Chars]
  BY <1>1, SizeIs DEF Rings, Spots
<1>3. (head - tail) % n = IF tail <= head THEN head - tail ELSE head - tail + n
  <2>1. CASE tail <= head
    <3>1. head - tail \in Nat /\ head - tail < n
      BY <1>2, <2>1
    <3> QED BY <1>2, <2>1, <3>1
  <2>2. CASE ~ tail <= head
    <3>1. head - tail \in Int /\ -n <= head - tail /\ head - tail < 0
      BY <1>2, <2>2
    <3> QED BY <1>2, <2>2, <3>1
  <2> QED BY <2>1, <2>2
<1>4. PICK m : m = IF tail <= head THEN head - tail ELSE head - tail + n
  OBVIOUS
<1>5. m \in 0 .. n - 1
  BY <1>2, <1>4
<1>6. ASSUME NEW i \in 1 .. m
      PROVE  /\ (tail + i - 1) % n = (IF tail + i - 1 < n THEN tail + i - 1 ELSE (tail + i - 1) - n)
             /\ (tail + i - 1) % n \in 0 .. n - 1
  <2>1. PICK k : k = tail + i - 1
    OBVIOUS
  <2>2. k \in Nat /\ k < n + n
    BY <1>2, <1>5, <2>1
  <2>3. CASE k < n
    <3>1. k % n = k
      BY <1>2, <2>2, <2>3
    <3> QED BY <1>2, <2>1, <2>2, <2>3, <3>1
  <2>4. CASE ~ k < n
    <3>1. k % n = k - n
      BY <1>2, <2>2, <2>4
    <3> QED BY <1>2, <2>1, <2>2, <2>4, <3>1
  <2> QED BY <2>3, <2>4
<1>7. PICK c : c = [i \in 1 .. m |-> buf[(tail + i - 1) % n]]
  OBVIOUS
<1>8. Contents(q) = c
  BY <1>1, <1>3, <1>4, <1>7 DEF Contents
<1>9. \A i \in 1 .. m : buf[(tail + i - 1) % n] \in Chars
  BY <1>2, <1>6
<1>10. c \in [1 .. m -> Chars] /\ m \in Nat
  BY <1>5, <1>7, <1>9
<1>11. c \in Seq(Chars) /\ Len(c) = m
  BY <1>10
<1>12. \A i \in 1 .. m : c[i] = buf[IF tail + i - 1 < n THEN tail + i - 1 ELSE (tail + i - 1) - n]
  BY <1>6, <1>7
<1>13. Count(head, tail) = m
  BY <1>1, <1>4 DEF Count
<1>14. ASSUME NEW i \in 1 .. m PROVE c[i] = buf[Wrap(tail + i - 1)]
  <2>1. Wrap(tail + i - 1) = IF tail + i - 1 < n THEN tail + i - 1 ELSE (tail + i - 1) - n
    BY <1>1, WrapIs, Zenon
  <2> QED BY <1>12, <2>1
<1>15. Shown(c, buf, head, tail)
  BY <1>11, <1>13, <1>14 DEF Shown
<1> QED BY <1>1, <1>8, <1>15

\* Queues with the same ring hold the same.
LEMMA SameContents ==
    ASSUME NEW q, NEW r, r.buf = q.buf, r.head = q.head, r.tail = q.tail
    PROVE  Contents(r) = Contents(q) /\ (intq_empty(r) <=> intq_empty(q)) /\ (intq_full(r) <=> intq_full(q))
BY DEF Contents, intq_empty, intq_full

LEMMA EmptyContents ==
    ASSUME TerminalAssumption, NEW q \in Rings
    PROVE  Contents(q) = << >> <=> intq_empty(q)
<1>1. PICK n, head, tail, c : n = INTQ_BUFSIZE /\ head = q.head /\ tail = q.tail /\ c = Contents(q)
  OBVIOUS
<1>2. n \in Nat /\ n > 1 /\ head \in 0 .. n - 1 /\ tail \in 0 .. n - 1
  BY <1>1, SizeIs DEF Rings, Spots
<1>3. c \in Seq(Chars) /\ Len(c) = IF tail <= head THEN head - tail ELSE head - tail + n
  BY <1>1, ContentsIs DEF Shown, Count
<1>4. Len(c) = 0 <=> head = tail
  BY <1>2, <1>3
<1>5. c = << >> <=> Len(c) = 0
  BY <1>3, EmptySeq
<1> QED BY <1>1, <1>4, <1>5 DEF intq_empty

\* intq_getc() takes the first byte.
LEMMA DequeuedIs ==
    ASSUME TerminalAssumption, NEW q \in Rings, ~ intq_empty(q), NEW r, r = Dequeued(q), NEW x, x = q.buf[q.tail]
    PROVE  /\ r \in Rings /\ x \in Chars /\ <<x>> \in Seq(Chars)
           /\ Contents(q) = <<x>> \o Contents(r)
<1>1. PICK n, head, tail, buf, new : /\ n = INTQ_BUFSIZE /\ head = q.head /\ tail = q.tail /\ buf = q.buf
                                     /\ new = next(tail)
  OBVIOUS
<1>2. n \in Nat /\ n > 1 /\ head \in 0 .. n - 1 /\ tail \in 0 .. n - 1 /\ buf \in [0 .. n - 1 -> Chars] /\ head # tail
  BY <1>1, SizeIs DEF Rings, Spots, intq_empty
<1>3. new \in 0 .. n - 1 /\ new = IF tail = n - 1 THEN 0 ELSE tail + 1
  BY <1>1, <1>2, NextIs DEF Spots
<1>4. r = [q EXCEPT !.tail = new, !.not_full = NoThread]
  BY <1>1 DEF Dequeued
<1>5. r \in Rings /\ r.buf = buf /\ r.head = head /\ r.tail = new
  BY <1>1, <1>3, <1>4 DEF Rings, Spots, Anyone
<1>6. PICK c, d, one : c = Contents(q) /\ d = Contents(r) /\ one = <<x>>
  OBVIOUS
<1>7. Shown(c, buf, head, tail) /\ Shown(d, buf, head, new)
  BY <1>1, <1>5, <1>6, ContentsIs
<1>8. PICK m : m = Count(head, tail)
  OBVIOUS
<1>9. m \in 1 .. n - 1 /\ Count(head, new) = m - 1
  BY <1>1, <1>2, <1>3, <1>8, SMTT(20) DEF Count
<1>10. x \in Chars /\ x = buf[tail] /\ one \in Seq(Chars) /\ Len(one) = 1 /\ one[1] = x
  BY <1>1, <1>2, <1>6
<1>11. c \in Seq(Chars) /\ Len(c) = m /\ d \in Seq(Chars) /\ Len(d) = m - 1
  BY <1>7, <1>8, <1>9 DEF Shown
<1>12. PICK od : od = one \o d
  OBVIOUS
<1>13. od \in Seq(Chars) /\ Len(od) = m /\ \A i \in 1 .. m : od[i] = IF i <= 1 THEN one[i] ELSE d[i - 1]
  <2>1. /\ od \in Seq(Chars) /\ Len(od) = Len(one) + Len(d)
        /\ \A i \in 1 .. Len(one) + Len(d) : od[i] = IF i <= Len(one) THEN one[i] ELSE d[i - Len(one)]
    BY <1>10, <1>11, <1>12, ConcatProperties
  <2>2. Len(one) + Len(d) = m
    BY <1>9, <1>10, <1>11
  <2> QED BY <1>10, <2>1, <2>2
<1>14. ASSUME NEW i \in 1 .. m PROVE c[i] = od[i]
  <2>1. c[i] = buf[Wrap(tail + i - 1)]
    BY <1>7, <1>8 DEF Shown
  <2>2. CASE i = 1
    <3>1. Wrap(tail + i - 1) = tail
      BY <1>1, <1>2, <2>2 DEF Wrap
    <3>2. od[i] = one[1]
      BY <1>13, <2>2
    <3> QED BY <1>10, <2>1, <3>1, <3>2
  <2>3. CASE i # 1
    <3>1. i - 1 \in 1 .. Count(head, new) /\ ~ i <= 1
      BY <1>9, <2>3
    <3>2. d[i - 1] = buf[Wrap(new + (i - 1) - 1)]
      BY <1>7, <3>1 DEF Shown
    <3>3. Wrap(new + (i - 1) - 1) = Wrap(tail + i - 1)
      <4>1. Wrap(new + (i - 1) - 1) = IF new + (i - 1) - 1 < n THEN new + (i - 1) - 1 ELSE (new + (i - 1) - 1) - n
        BY <1>1, WrapIs, Zenon
      <4>2. Wrap(tail + i - 1) = IF tail + i - 1 < n THEN tail + i - 1 ELSE (tail + i - 1) - n
        BY <1>1, WrapIs, Zenon
      <4>3. i \in Int /\ 1 < i /\ i < n
        BY <1>2, <1>9, <2>3
      <4> QED BY <1>2, <1>3, <4>1, <4>2, <4>3
    <3>4. od[i] = d[i - 1]
      BY <1>13, <3>1
    <3> QED BY <2>1, <3>2, <3>3, <3>4
  <2> QED BY <2>2, <2>3
<1>15. c = od
  BY <1>11, <1>13, <1>14, SeqEqual
<1> QED BY <1>5, <1>6, <1>10, <1>12, <1>15

\* intq_putc() adds a byte at the end.
LEMMA EnqueuedIs ==
    ASSUME TerminalAssumption, NEW q \in Rings, ~ intq_full(q), NEW x \in Chars, NEW r, r = Enqueued(q, x)
    PROVE  /\ r \in Rings
           /\ Contents(r) = Append(Contents(q), x)
<1>1. PICK n, head, tail, old, buf, new : /\ n = INTQ_BUFSIZE /\ head = q.head /\ tail = q.tail /\ old = q.buf
                                          /\ new = next(head) /\ buf = [old EXCEPT ![head] = x]
  OBVIOUS
<1>2. n \in Nat /\ n > 1 /\ head \in 0 .. n - 1 /\ tail \in 0 .. n - 1 /\ old \in [0 .. n - 1 -> Chars] /\ new # tail
  BY <1>1, SizeIs DEF Rings, Spots, intq_full
<1>3. new \in 0 .. n - 1 /\ new = IF head = n - 1 THEN 0 ELSE head + 1
  BY <1>1, <1>2, NextIs DEF Spots
<1>4. buf \in [0 .. n - 1 -> Chars] /\ buf[head] = x /\ \A i \in 0 .. n - 1 : i # head => buf[i] = old[i]
  BY <1>1, <1>2
<1>5. r = [q EXCEPT !.buf = buf, !.head = new, !.not_empty = NoThread]
  BY <1>1, Zenon DEF Enqueued
<1>6. r \in Rings /\ r.buf = buf /\ r.head = new /\ r.tail = tail
  BY <1>1, <1>3, <1>4, <1>5 DEF Rings, Spots, Anyone
<1>7. PICK c, d : c = Contents(q) /\ d = Contents(r)
  OBVIOUS
<1>8. Shown(c, old, head, tail) /\ Shown(d, buf, new, tail)
  BY <1>1, <1>6, <1>7, ContentsIs
<1>9. PICK m : m = Count(head, tail)
  OBVIOUS
<1>10. m \in 0 .. n - 2 /\ Count(new, tail) = m + 1
  BY <1>1, <1>2, <1>3, <1>9, SMTT(20) DEF Count
<1>11. c \in Seq(Chars) /\ Len(c) = m /\ d \in Seq(Chars) /\ Len(d) = m + 1
  BY <1>8, <1>9, <1>10 DEF Shown
<1>12. PICK cx : cx = Append(c, x)
  OBVIOUS
<1>13. cx \in Seq(Chars) /\ Len(cx) = m + 1 /\ cx[m + 1] = x /\ \A i \in 1 .. m : cx[i] = c[i]
  BY <1>11, <1>12, AppendProperties
<1>14. ASSUME NEW i \in 1 .. m + 1 PROVE d[i] = cx[i]
  <2>1. d[i] = buf[Wrap(tail + i - 1)]
    BY <1>8, <1>10 DEF Shown
  <2>2. CASE i = m + 1
    <3>1. Wrap(tail + i - 1) = head
      <4>1. Wrap(tail + i - 1) = IF tail + i - 1 < n THEN tail + i - 1 ELSE (tail + i - 1) - n
        BY <1>1, WrapIs, Zenon
      <4>2. m = IF tail <= head THEN head - tail ELSE head - tail + n
        BY <1>1, <1>9 DEF Count
      <4> QED BY <1>2, <2>2, <4>1, <4>2
    <3> QED BY <1>4, <1>13, <2>1, <2>2, <3>1
  <2>3. CASE i # m + 1
    <3>1. i \in 1 .. m
      BY <1>10, <2>3
    <3>2. c[i] = old[Wrap(tail + i - 1)]
      BY <1>8, <1>9, <3>1 DEF Shown
    <3>3. Wrap(tail + i - 1) \in 0 .. n - 1 /\ Wrap(tail + i - 1) # head
      <4>1. Wrap(tail + i - 1) = IF tail + i - 1 < n THEN tail + i - 1 ELSE (tail + i - 1) - n
        BY <1>1, WrapIs, Zenon
      <4>2. m = IF tail <= head THEN head - tail ELSE head - tail + n
        BY <1>1, <1>9 DEF Count
      <4>3. i \in Int /\ 1 <= i /\ i <= m
        BY <1>10, <3>1
      <4> QED BY <1>2, <1>10, <4>1, <4>2, <4>3
    <3> QED BY <1>4, <1>13, <2>1, <3>1, <3>2, <3>3
  <2> QED BY <2>2, <2>3
<1>15. d = cx
  BY <1>11, <1>13, <1>14, SeqEqual
<1> QED BY <1>6, <1>7, <1>12, <1>15

-----------------------------------------------------------------------------
(* Concatenations of bytes.                                                *)

LEMMA Regrouped == \A a, b, c \in Seq(Chars) : (a \o b) \o c = a \o (b \o c)
BY ConcatAssociative
LEMMA BytesJoined == \A a, b \in Seq(Chars) : a \o b \in Seq(Chars)
BY ConcatProperties
LEMMA AddedIs == \A a \in Seq(Chars), x \in Chars : Append(a, x) = a \o <<x>> /\ <<x>> \in Seq(Chars) /\ Append(a, x) \in Seq(Chars)
BY AppendIsConcat, AppendProperties
LEMMA NothingAdded == \A a \in Seq(Chars) : a \o << >> = a /\ << >> \o a = a
BY ConcatEmptySeq

-----------------------------------------------------------------------------
(* The record.                                                             *)

\* What the operations on queues and on the line leave alone.
Books(s, t) ==
    /\ t.panicked = s.panicked /\ t.rbr = s.rbr /\ t.sent = s.sent
    /\ t.accepted = s.accepted /\ t.taken = s.taken /\ t.at = s.at /\ t.console = s.console /\ t.depth = s.depth
Rests(s, t) == t.mode = s.mode /\ Books(s, t)

LEMMA Fields ==
    ASSUME NEW s \in TermRecords
    PROVE  /\ s.mode \in {"UNINIT", "POLL", "QUEUE"} /\ s.txq \in Rings /\ s.buffer \in Rings
           /\ s.thr \in Seq(Chars) /\ s.rbr \in Seq(Chars) /\ s.line \in Seq(Chars) /\ s.sent \in Seq(Chars)
           /\ s.accepted \in Seq(Chars) /\ s.taken \in Seq(Chars) /\ s.pc \in PcTypes /\ s.at \in [Writers -> Nat]
           /\ s.console \in Anyone /\ s.depth \in Nat /\ s.failed \in BOOLEAN /\ s.panicked \in BOOLEAN
BY DEF TermRecords
LEMMA RingFields ==
    ASSUME NEW q \in Rings
    PROVE  /\ q.buf \in [Spots -> Chars] /\ q.head \in Spots /\ q.tail \in Spots
           /\ q.lock \in Anyone /\ q.not_full \in Anyone /\ q.not_empty \in Anyone
BY DEF Rings

LEMMA PcUpdate ==
    ASSUME NEW s \in TermRecords, NEW p \in PcTypes, NEW t, t = [s EXCEPT !.pc = p]
    PROVE  /\ t \in TermRecords /\ t.pc = p /\ t.txq = s.txq /\ t.buffer = s.buffer
           /\ t.line = s.line /\ t.thr = s.thr /\ Rests(s, t)
BY DEF TermRecords, Rests, Books
LEMMA TxUpdate ==
    ASSUME NEW s \in TermRecords, NEW q \in Rings, NEW t, t = [s EXCEPT !.txq = q]
    PROVE  /\ t \in TermRecords /\ t.pc = s.pc /\ t.txq = q /\ t.buffer = s.buffer
           /\ t.line = s.line /\ t.thr = s.thr /\ Rests(s, t)
BY DEF TermRecords, Rests, Books
LEMMA BufferUpdate ==
    ASSUME NEW s \in TermRecords, NEW q \in Rings, NEW t, t = [s EXCEPT !.buffer = q]
    PROVE  /\ t \in TermRecords /\ t.pc = s.pc /\ t.txq = s.txq /\ t.buffer = q
           /\ t.line = s.line /\ t.thr = s.thr /\ Rests(s, t)
BY DEF TermRecords, Rests, Books
LEMMA IerUpdate ==
    ASSUME NEW s \in TermRecords, NEW e \in SUBSET {"XMIT", "RECV"}, NEW t, t = [s EXCEPT !.ier = e]
    PROVE  /\ t \in TermRecords /\ t.pc = s.pc /\ t.txq = s.txq /\ t.buffer = s.buffer
           /\ t.line = s.line /\ t.thr = s.thr /\ Rests(s, t)
BY DEF TermRecords, Rests, Books
LEMMA LineUpdate ==
    ASSUME NEW s \in TermRecords, NEW a \in Seq(Chars), NEW b \in Seq(Chars), NEW t, t = [s EXCEPT !.line = a, !.thr = b]
    PROVE  /\ t \in TermRecords /\ t.pc = s.pc /\ t.txq = s.txq /\ t.buffer = s.buffer
           /\ t.line = a /\ t.thr = b /\ Rests(s, t)
BY DEF TermRecords, Rests, Books
LEMMA RestsOn == \A s, t, u : Rests(s, t) /\ Rests(t, u) => Rests(s, u)
BY DEF Rests, Books

\* Steps that touch neither the bytes nor what Rests() names.
Still(s, t) ==
    /\ t \in TermRecords /\ t.txq = s.txq /\ t.buffer = s.buffer
    /\ t.line = s.line /\ t.thr = s.thr /\ Rests(s, t)
LEMMA SignalIs ==
    ASSUME NEW s \in TermRecords, NEW w \in Anyone, NEW t, t = signal(s, w)
    PROVE  Still(s, t) /\ (w = NoThread => t = s)
<1>1. CASE w = NoThread
  <2>1. t = s
    BY <1>1 DEF signal
  <2> QED BY <2>1 DEF Still, Rests, Books
<1>2. CASE w # NoThread
  <2>1. PICK p : p = [s.pc EXCEPT ![w] = "woken"]
    OBVIOUS
  <2>2. p \in PcTypes
    BY <2>1, Fields DEF PcTypes
  <2>3. t = [s EXCEPT !.pc = p]
    BY <1>2, <2>1, Zenon DEF signal
  <2> QED BY <1>2, <2>2, <2>3, PcUpdate DEF Still
<1> QED BY <1>1, <1>2

LEMMA IerIs ==
    ASSUME NEW s \in TermRecords, NEW t, t = write_ier(s)
    PROVE  Still(s, t) /\ t.pc = s.pc
<1>1. PICK e : e = (IF intq_empty(s.txq) THEN {} ELSE {"XMIT"}) \union (IF intq_full(s.buffer) THEN {} ELSE {"RECV"})
  OBVIOUS
<1>2. e \in SUBSET {"XMIT", "RECV"}
  BY <1>1
<1>3. t = [s EXCEPT !.ier = e]
  BY <1>1, Zenon DEF write_ier
<1> QED BY <1>2, <1>3, IerUpdate DEF Still

LEMMA NotifyIs ==
    ASSUME NEW s \in TermRecords, NEW t, t = serial_notify(s)
    PROVE  Still(s, t) /\ t.pc = s.pc
<1>1. CASE s.mode = "QUEUE"
  BY <1>1, IerIs DEF serial_notify
<1>2. CASE s.mode # "QUEUE"
  <2>1. t = s
    BY <1>2 DEF serial_notify
  <2> QED BY <2>1 DEF Still, Rests, Books
<1> QED BY <1>1, <1>2

-----------------------------------------------------------------------------
(* The queues of the terminal.                                             *)

LEMMA TxGet ==
    ASSUME TerminalAssumption, NEW s \in TermRecords, ~ intq_empty(s.txq),
           NEW t, t = intq_getc(s, "txq"), NEW x, x = Oldest(s, "txq")
    PROVE  /\ t \in TermRecords /\ x \in Chars /\ <<x>> \in Seq(Chars)
           /\ Contents(s.txq) = <<x>> \o Contents(t.txq)
           /\ t.buffer = s.buffer /\ t.line = s.line /\ t.thr = s.thr /\ Rests(s, t)
           /\ t.txq.not_empty = s.txq.not_empty
<1>1. PICK q, r, w : q = s.txq /\ r = Dequeued(q) /\ w = q.not_full
  OBVIOUS
<1>2. q \in Rings /\ w \in Anyone /\ x = q.buf[q.tail]
  BY <1>1, Fields, RingFields DEF Oldest
<1>3. /\ r \in Rings /\ x \in Chars /\ <<x>> \in Seq(Chars)
      /\ Contents(q) = <<x>> \o Contents(r)
  BY <1>1, <1>2, DequeuedIs
<1>4. PICK u : u = [s EXCEPT !.txq = r]
  OBVIOUS
<1>5. /\ u \in TermRecords /\ u.txq = r /\ u.buffer = s.buffer
      /\ u.line = s.line /\ u.thr = s.thr /\ Rests(s, u)
  BY <1>3, <1>4, TxUpdate
<1>6. t = signal(u, w)
  BY <1>1, <1>4, Zenon DEF intq_getc
<1>7. Still(u, t)
  BY <1>2, <1>5, <1>6, SignalIs
<1>8. r.not_empty = q.not_empty
  BY <1>1, <1>2 DEF Dequeued, Rings
<1> QED BY <1>1, <1>3, <1>5, <1>7, <1>8, RestsOn DEF Still

LEMMA TxPut ==
    ASSUME TerminalAssumption, NEW s \in TermRecords, ~ intq_full(s.txq), NEW x \in Chars,
           NEW t, t = intq_putc(s, "txq", x)
    PROVE  /\ t \in TermRecords /\ Contents(t.txq) = Append(Contents(s.txq), x)
           /\ t.buffer = s.buffer /\ t.line = s.line /\ t.thr = s.thr /\ Rests(s, t)
           /\ t.txq.not_empty = NoThread /\ (s.txq.not_empty = NoThread => t.pc = s.pc)
<1>1. PICK q, r, w : q = s.txq /\ r = Enqueued(q, x) /\ w = q.not_empty
  OBVIOUS
<1>2. q \in Rings /\ w \in Anyone
  BY <1>1, Fields, RingFields
<1>3. r \in Rings /\ Contents(r) = Append(Contents(q), x)
  BY <1>1, <1>2, EnqueuedIs
<1>4. PICK u : u = [s EXCEPT !.txq = r]
  OBVIOUS
<1>5. /\ u \in TermRecords /\ u.txq = r /\ u.buffer = s.buffer /\ u.pc = s.pc
      /\ u.line = s.line /\ u.thr = s.thr /\ Rests(s, u)
  BY <1>3, <1>4, TxUpdate
<1>6. t = signal(u, w)
  BY <1>1, <1>4, Zenon DEF intq_putc
<1>7. Still(u, t) /\ (w = NoThread => t = u)
  BY <1>2, <1>5, <1>6, SignalIs
<1>8. r.not_empty = NoThread
  BY <1>1, <1>2 DEF Enqueued, Rings
<1> QED BY <1>1, <1>3, <1>5, <1>7, <1>8, RestsOn DEF Still

LEMMA BufferGet ==
    ASSUME TerminalAssumption, NEW s \in TermRecords, ~ intq_empty(s.buffer),
           NEW t, t = intq_getc(s, "buffer"), NEW x, x = Oldest(s, "buffer")
    PROVE  /\ t \in TermRecords /\ x \in Chars /\ <<x>> \in Seq(Chars)
           /\ Contents(s.buffer) = <<x>> \o Contents(t.buffer)
           /\ t.txq = s.txq /\ t.line = s.line /\ t.thr = s.thr /\ Rests(s, t)
<1>1. PICK q, r, w : q = s.buffer /\ r = Dequeued(q) /\ w = q.not_full
  OBVIOUS
<1>2. q \in Rings /\ w \in Anyone /\ x = q.buf[q.tail]
  BY <1>1, Fields, RingFields DEF Oldest
<1>3. /\ r \in Rings /\ x \in Chars /\ <<x>> \in Seq(Chars)
      /\ Contents(q) = <<x>> \o Contents(r)
  BY <1>1, <1>2, DequeuedIs
<1>4. PICK u : u = [s EXCEPT !.buffer = r]
  OBVIOUS
<1>5. /\ u \in TermRecords /\ u.txq = s.txq /\ u.buffer = r
      /\ u.line = s.line /\ u.thr = s.thr /\ Rests(s, u)
  BY <1>3, <1>4, BufferUpdate
<1>6. t = signal(u, w)
  BY <1>1, <1>4, Zenon DEF intq_getc
<1>7. Still(u, t)
  BY <1>2, <1>5, <1>6, SignalIs
<1> QED BY <1>1, <1>3, <1>5, <1>7, RestsOn DEF Still

LEMMA BufferPut ==
    ASSUME TerminalAssumption, NEW s \in TermRecords, ~ intq_full(s.buffer), NEW x \in Chars,
           NEW t, t = intq_putc(s, "buffer", x)
    PROVE  /\ t \in TermRecords /\ Contents(t.buffer) = Append(Contents(s.buffer), x)
           /\ t.txq = s.txq /\ t.line = s.line /\ t.thr = s.thr /\ Rests(s, t)
           /\ Calm(s) => Calm(t)
<1>1. PICK q, r, w : q = s.buffer /\ r = Enqueued(q, x) /\ w = q.not_empty
  OBVIOUS
<1>2. q \in Rings /\ w \in Anyone
  BY <1>1, Fields, RingFields
<1>3. r \in Rings /\ Contents(r) = Append(Contents(q), x)
  BY <1>1, <1>2, EnqueuedIs
<1>4. PICK u : u = [s EXCEPT !.buffer = r]
  OBVIOUS
<1>5. /\ u \in TermRecords /\ u.txq = s.txq /\ u.buffer = r /\ u.pc = s.pc
      /\ u.line = s.line /\ u.thr = s.thr /\ Rests(s, u)
  BY <1>3, <1>4, BufferUpdate
<1>6. t = signal(u, w)
  BY <1>1, <1>4, Zenon DEF intq_putc
<1>7. Still(u, t) /\ (w = NoThread => t = u)
  BY <1>2, <1>5, <1>6, SignalIs
<1>8. r.not_empty = NoThread
  BY <1>1, <1>2 DEF Enqueued, Rings
<1>9. Calm(s) => Calm(t)
  BY <1>1, <1>5, <1>7, <1>8 DEF Calm
<1> QED BY <1>1, <1>3, <1>5, <1>7, <1>9, RestsOn DEF Still

\* putc_poll() and the loop of serial_flush().
LEMMA PollIs ==
    ASSUME NEW s \in TermRecords, NEW x \in Chars, NEW t, t = putc_poll(s, x)
    PROVE  /\ t \in TermRecords /\ t.txq = s.txq /\ t.buffer = s.buffer /\ t.pc = s.pc
           /\ t.line = s.line \o s.thr /\ t.thr = <<x>> /\ Rests(s, t)
<1>1. PICK a, b : a = s.line \o s.thr /\ b = <<x>>
  OBVIOUS
<1>2. a \in Seq(Chars) /\ b \in Seq(Chars)
  BY <1>1, Fields, BytesJoined, AddedIs
<1>3. t = [s EXCEPT !.line = a, !.thr = b]
  BY <1>1, Zenon DEF putc_poll
<1>4. /\ t \in TermRecords /\ t.pc = s.pc /\ t.txq = s.txq /\ t.buffer = s.buffer
      /\ t.line = a /\ t.thr = b /\ Rests(s, t)
  BY <1>2, <1>3, LineUpdate, ZenonT(60)
<1> QED BY <1>1, <1>4

LEMMA PollOldestIs ==
    ASSUME TerminalAssumption, NEW s \in TermRecords, ~ intq_empty(s.txq), NEW t, t = PollOldest(s)
    PROVE  /\ t \in TermRecords /\ t.buffer = s.buffer /\ Rests(s, t) /\ Out(t) = Out(s)
           /\ t.txq.not_empty = s.txq.not_empty
           /\ \E x \in Chars : Contents(s.txq) = <<x>> \o Contents(t.txq)
<1>1. PICK u, x : u = intq_getc(s, "txq") /\ x = Oldest(s, "txq")
  OBVIOUS
<1>2. /\ u \in TermRecords /\ x \in Chars /\ <<x>> \in Seq(Chars)
      /\ Contents(s.txq) = <<x>> \o Contents(u.txq)
      /\ u.buffer = s.buffer /\ u.line = s.line /\ u.thr = s.thr /\ Rests(s, u) /\ u.txq.not_empty = s.txq.not_empty
  BY <1>1, TxGet
<1>3. t = putc_poll(u, x)
  BY <1>1 DEF PollOldest
<1>4. /\ t \in TermRecords /\ t.txq = u.txq /\ t.buffer = u.buffer
      /\ t.line = u.line \o u.thr /\ t.thr = <<x>> /\ Rests(u, t)
  BY <1>2, <1>3, PollIs
<1>5. PICK a, b, c, d : a = s.line \o s.thr /\ b = <<x>> /\ c = Contents(u.txq) /\ d = Contents(s.txq)
  OBVIOUS
<1>6. a \in Seq(Chars) /\ b \in Seq(Chars) /\ c \in Seq(Chars)
  BY <1>2, <1>5, Fields, BytesJoined, ContentsIs DEF Shown
<1>7. (a \o b) \o c = a \o (b \o c)
  BY <1>6, Regrouped
<1>8. Out(t) = (a \o b) \o c
  BY <1>2, <1>4, <1>5 DEF Out
<1>9. Out(s) = a \o (b \o c)
  BY <1>2, <1>5 DEF Out
<1> QED BY <1>2, <1>4, <1>7, <1>8, <1>9, RestsOn

LEMMA LengthOf ==
    ASSUME TerminalAssumption, NEW q \in Rings, NEW m, m = Len(Contents(q))
    PROVE  /\ m \in Nat /\ m < INTQ_BUFSIZE /\ (intq_full(q) <=> m = INTQ_BUFSIZE - 1)
           /\ (intq_empty(q) <=> m = 0) /\ Contents(q) \in Seq(Chars)
<1>1. PICK n, head, tail, new : n = INTQ_BUFSIZE /\ head = q.head /\ tail = q.tail /\ new = next(head)
  OBVIOUS
<1>2. n \in Nat /\ n > 1 /\ head \in 0 .. n - 1 /\ tail \in 0 .. n - 1
  BY <1>1, SizeIs DEF Rings, Spots
<1>3. new = IF head = n - 1 THEN 0 ELSE head + 1
  BY <1>1, <1>2, NextIs DEF Spots
<1>4. m = (IF tail <= head THEN head - tail ELSE head - tail + n) /\ Contents(q) \in Seq(Chars)
  BY <1>1, ContentsIs DEF Shown, Count
<1>5. m \in Nat /\ m < n /\ (new = tail <=> m = n - 1) /\ (head = tail <=> m = 0)
  BY <1>2, <1>3, <1>4
<1> QED BY <1>1, <1>4, <1>5 DEF intq_full, intq_empty

\* init_poll(), before the queues are in use.
LEMMA InitPollIs ==
    ASSUME TerminalAssumption, NEW s \in TermRecords, s.mode # "QUEUE", intq_empty(s.txq), s.txq.not_empty = NoThread,
           NEW t, t = init_poll(s)
    PROVE  /\ t \in TermRecords /\ t.mode # "QUEUE" /\ intq_empty(t.txq) /\ t.txq.not_empty = NoThread
           /\ t.buffer = s.buffer /\ t.pc = s.pc /\ t.line = s.line /\ t.thr = s.thr /\ Books(s, t)
<1>1. CASE s.mode # "UNINIT"
  <2>1. t = s
    BY <1>1 DEF init_poll
  <2> QED BY <2>1 DEF Books
<1>2. CASE s.mode = "UNINIT"
  <2>1. PICK q : q = intq_init
    OBVIOUS
  <2>2. q \in Rings /\ intq_empty(q) /\ q.not_empty = NoThread
    <3>1. [i \in 0 .. INTQ_BUFSIZE - 1 |-> << >>] \in [Spots -> Chars]
      BY DEF Spots, Chars
    <3>2. 0 \in Spots
      BY SizeIs DEF Spots
    <3> QED BY <2>1, <3>1, <3>2 DEF intq_init, Rings, Anyone, intq_empty
  <2>3. t = [s EXCEPT !.txq = q, !.ier = {}, !.mode = "POLL"]
    BY <1>2, <2>1 DEF init_poll
  <2>4. /\ t \in TermRecords /\ t.mode = "POLL" /\ t.txq = q
        /\ t.buffer = s.buffer /\ t.pc = s.pc /\ t.line = s.line /\ t.thr = s.thr /\ Books(s, t)
    BY <2>2, <2>3, ZenonT(60) DEF TermRecords, Books
  <2> QED BY <2>2, <2>4
<1> QED BY <1>1, <1>2

\* A byte sent with putc_poll() before the queues are in use.
LEMMA PolledOut ==
    ASSUME TerminalAssumption, NEW s \in TermRecords, s.mode # "QUEUE", intq_empty(s.txq), s.txq.not_empty = NoThread,
           NEW x \in Chars, NEW t, t = putc_poll(init_poll(s), x)
    PROVE  /\ t \in TermRecords /\ t.mode # "QUEUE" /\ intq_empty(t.txq) /\ t.txq.not_empty = NoThread
           /\ t.buffer = s.buffer /\ t.pc = s.pc /\ Books(s, t) /\ Out(t) = Append(Out(s), x)
<1>1. PICK u : u = init_poll(s)
  OBVIOUS
<1>2. /\ u \in TermRecords /\ u.mode # "QUEUE" /\ intq_empty(u.txq) /\ u.txq.not_empty = NoThread
      /\ u.buffer = s.buffer /\ u.pc = s.pc /\ u.line = s.line /\ u.thr = s.thr /\ Books(s, u)
  BY <1>1, InitPollIs
<1>3. /\ t \in TermRecords /\ t.txq = u.txq /\ t.buffer = u.buffer /\ t.pc = u.pc
      /\ t.line = u.line \o u.thr /\ t.thr = <<x>> /\ Rests(u, t)
  BY <1>1, <1>2, PollIs
<1>4. PICK a, b : a = s.line \o s.thr /\ b = <<x>>
  OBVIOUS
<1>5. a \in Seq(Chars) /\ b \in Seq(Chars) /\ a \o b \in Seq(Chars) /\ Append(a, x) = a \o b
  BY <1>4, Fields, BytesJoined, AddedIs
<1>6. Contents(t.txq) = << >> /\ Contents(s.txq) = << >>
  BY <1>2, <1>3, Fields, EmptyContents
<1>7. Out(t) = (a \o b) \o << >>
  BY <1>2, <1>3, <1>4, <1>6 DEF Out
<1>8. Out(s) = a \o << >>
  BY <1>4, <1>6 DEF Out
<1>9. Out(t) = Append(Out(s), x)
  BY <1>5, <1>7, <1>8, NothingAdded
<1>10. Books(s, t) /\ t.mode # "QUEUE"
  BY <1>2, <1>3 DEF Rests, Books
<1> QED BY <1>2, <1>3, <1>9, <1>10

\* A byte put into the queue.
LEMMA QueuedOut ==
    ASSUME TerminalAssumption, NEW s \in TermRecords, ~ intq_full(s.txq), NEW x \in Chars,
           NEW t, t = write_ier(intq_putc(s, "txq", x))
    PROVE  /\ t \in TermRecords /\ t.buffer = s.buffer /\ Rests(s, t) /\ Out(t) = Append(Out(s), x)
           /\ t.txq.not_empty = NoThread /\ (s.txq.not_empty = NoThread => t.pc = s.pc)
<1>1. PICK u : u = intq_putc(s, "txq", x)
  OBVIOUS
<1>2. /\ u \in TermRecords /\ Contents(u.txq) = Append(Contents(s.txq), x)
      /\ u.buffer = s.buffer /\ u.line = s.line /\ u.thr = s.thr /\ Rests(s, u)
      /\ u.txq.not_empty = NoThread /\ (s.txq.not_empty = NoThread => u.pc = s.pc)
  BY <1>1, TxPut
<1>3. Still(u, t) /\ t.pc = u.pc
  BY <1>1, <1>2, IerIs
<1>4. PICK a, b, c, d : a = s.line \o s.thr /\ b = <<x>> /\ c = Contents(s.txq) /\ d = Contents(u.txq)
  OBVIOUS
<1>5. a \in Seq(Chars) /\ c \in Seq(Chars)
  BY <1>4, Fields, BytesJoined, LengthOf
<1>6. d = c \o b /\ b \in Seq(Chars)
  BY <1>2, <1>4, <1>5, AddedIs
<1>7. Out(t) = a \o d
  BY <1>2, <1>3, <1>4 DEF Out, Still
<1>8. Out(s) = a \o c /\ a \o c \in Seq(Chars)
  BY <1>4, <1>5, BytesJoined DEF Out
<1>9. Append(a \o c, x) = (a \o c) \o b
  BY <1>4, <1>8, AddedIs
<1>10. (a \o c) \o b = a \o (c \o b)
  BY <1>5, <1>6, Regrouped
<1>11. Out(t) = Append(Out(s), x)
  BY <1>6, <1>7, <1>8, <1>9, <1>10
<1> QED BY <1>2, <1>3, <1>11, RestsOn DEF Still

\* serial_putc() with interrupts off.
LEMMA PutcOffIs ==
    ASSUME TerminalAssumption, NEW s \in TermRecords, IdleInv(s), NEW x \in Chars, NEW t, t = PutcOff(s, x)
    PROVE  /\ t \in TermRecords /\ t.buffer = s.buffer /\ Books(s, t) /\ Out(t) = Append(Out(s), x)
           /\ t.txq.not_empty = NoThread
           /\ s.mode # "QUEUE" => t.mode # "QUEUE" /\ intq_empty(t.txq) /\ t.pc = s.pc
           /\ s.mode = "QUEUE" => t.mode = "QUEUE"
<1>1. CASE s.mode # "QUEUE"
  <2>1. t = putc_poll(init_poll(s), x)
    BY <1>1 DEF PutcOff
  <2> QED BY <1>1, <2>1, PolledOut DEF IdleInv
<1>2. CASE s.mode = "QUEUE"
  <2>1. PICK r : r = IF intq_full(s.txq) THEN PollOldest(s) ELSE s
    OBVIOUS
  <2>2. t = write_ier(intq_putc(r, "txq", x))
    BY <1>2, <2>1, Zenon DEF PutcOff
  <2>3. /\ r \in TermRecords /\ r.buffer = s.buffer /\ Rests(s, r) /\ Out(r) = Out(s)
        /\ r.txq.not_empty = NoThread /\ ~ intq_full(r.txq)
    <3>1. CASE ~ intq_full(s.txq)
      <4>1. r = s
        BY <2>1, <3>1
      <4> QED BY <3>1, <4>1 DEF Rests, Books, IdleInv
    <3>2. CASE intq_full(s.txq)
      <4>1. PICK m, n : m = Len(Contents(s.txq)) /\ n = INTQ_BUFSIZE
        OBVIOUS
      <4>2. m = n - 1 /\ n \in Nat /\ n > 1 /\ ~ intq_empty(s.txq)
        BY <3>2, <4>1, Fields, LengthOf, SizeIs
      <4>3. r = PollOldest(s)
        BY <2>1, <3>2
      <4>4. /\ r \in TermRecords /\ r.buffer = s.buffer /\ Rests(s, r) /\ Out(r) = Out(s)
            /\ r.txq.not_empty = s.txq.not_empty
            /\ \E y \in Chars : Contents(s.txq) = <<y>> \o Contents(r.txq)
        BY <4>2, <4>3, PollOldestIs
      <4>5. PICK y \in Chars : Contents(s.txq) = <<y>> \o Contents(r.txq)
        BY <4>4
      <4>6. PICK k : k = Len(Contents(r.txq))
        OBVIOUS
      <4>7. k \in Nat /\ (intq_full(r.txq) <=> k = n - 1) /\ Contents(r.txq) \in Seq(Chars)
        BY <4>1, <4>4, <4>6, Fields, LengthOf
      <4>8. m = k + 1
        <5>1. PICK one, c : one = <<y>> /\ c = Contents(r.txq)
          OBVIOUS
        <5>2. one \in Seq(Chars) /\ Len(one) = 1 /\ c \in Seq(Chars)
          BY <4>7, <5>1
        <5>3. Len(one \o c) = Len(one) + Len(c)
          BY <5>2, ConcatProperties
        <5> QED BY <4>1, <4>5, <4>6, <4>7, <5>1, <5>2, <5>3
      <4>9. ~ intq_full(r.txq)
        BY <4>2, <4>7, <4>8
      <4> QED BY <4>4, <4>9 DEF IdleInv
    <3> QED BY <3>1, <3>2
  <2>4. /\ t \in TermRecords /\ t.buffer = r.buffer /\ Rests(r, t) /\ Out(t) = Append(Out(r), x)
        /\ t.txq.not_empty = NoThread
    BY <2>2, <2>3, QueuedOut
  <2>5. Rests(s, t)
    BY <2>3, <2>4, RestsOn
  <2> QED BY <1>2, <2>3, <2>4, <2>5 DEF Rests
<1> QED BY <1>1, <1>2

-----------------------------------------------------------------------------
(* serial_flush().  What its loop computes exists because no turn is the   *)
(* first one it fails at.                                                  *)

\* Every set of numbers has a least element.
LEMMA LeastElement ==
    ASSUME NEW S \in SUBSET Nat, S # {}
    PROVE  \E m \in S : \A k \in S : m <= k
<1> DEFINE R == StrictSubsetOrdering(Nat)
<1> DEFINE F == FiniteSubsetsOf(Nat)
<1> DEFINE T == {0 .. m : m \in S}
<1>1. IsWellFoundedOn(R, F)
  BY FS_StrictSubsetOrderingWellFounded
<1>2. \A m \in S : 0 .. m \in F
  BY FS_Interval DEF FiniteSubsetsOf
<1>3. T \subseteq F /\ T # {}
  BY <1>2
<1>4. \E x \in T : \A y \in T : ~ (<<y, x>> \in R)
  <2> HIDE DEF R, F, T
  <2> QED BY <1>1, <1>3, WFMin
<1>5. PICK m \in S : \A y \in T : ~ (<<y, 0 .. m>> \in R)
  BY <1>4
<1>6. ASSUME NEW k \in S, k < m PROVE FALSE
  <2>1. <<0 .. k, 0 .. m>> \in R
    BY <1>6 DEF StrictSubsetOrdering
  <2> QED BY <2>1, <1>5
<1> QED BY <1>5, <1>6

FlushStep(s, f, n) == IF n = 0 THEN s ELSE FlushTurn(f[n - 1])
LEMMA FlushDefined ==
    ASSUME NEW s, NEW N \in Nat
    PROVE  \E f : f = [i \in 0 .. N |-> FlushStep(s, f, i)]
<1> DEFINE Ok(n) == \E f : f = [i \in 0 .. n |-> FlushStep(s, f, i)]
<1> DEFINE Fails == {n \in Nat : ~ Ok(n)}
<1>1. Ok(0)
  <2> DEFINE f == [i \in 0 .. 0 |-> s]
  <2>1. f = [i \in 0 .. 0 |-> FlushStep(s, f, i)]  BY DEF FlushStep
  <2> QED BY <2>1
<1>2. ASSUME NEW n \in Nat, Ok(n) PROVE Ok(n + 1)
  <2>1. PICK f : f = [i \in 0 .. n |-> FlushStep(s, f, i)]  BY <1>2
  <2> DEFINE g == [i \in 0 .. n + 1 |-> IF i <= n THEN f[i] ELSE FlushStep(s, f, n + 1)]
  <2>2. \A i \in 0 .. n + 1 : g[i] = FlushStep(s, g, i)
     <3> TAKE i \in 0 .. n + 1
     <3>1. CASE i <= n
        <4>1. i \in 0 .. n /\ (i # 0 => i - 1 \in 0 .. n)  BY <3>1
        <4>2. f[i] = FlushStep(s, f, i)  BY <4>1, <2>1
        <4>3. FlushStep(s, g, i) = FlushStep(s, f, i)  BY <4>1 DEF FlushStep
        <4> QED BY <4>1, <4>2, <4>3
     <3>2. CASE i = n + 1  BY <3>2, <2>1 DEF FlushStep
     <3> QED BY <3>1, <3>2
  <2>3. g = [i \in 0 .. n + 1 |-> FlushStep(s, g, i)]
     <3> DEFINE gg == [i \in 0 .. n + 1 |-> FlushStep(s, g, i)]
     <3>1. \A i \in 0 .. n + 1 : gg[i] = FlushStep(s, g, i) OBVIOUS
     <3>2. g = [i \in 0 .. n + 1 |-> g[i]] OBVIOUS
     <3>3. gg = [i \in 0 .. n + 1 |-> gg[i]] OBVIOUS
     <3> HIDE DEF g, gg
     <3>4. g = gg BY <3>1, <3>2, <3>3, <2>2
     <3> QED BY <3>4 DEF gg
  <2> QED BY <2>3
<1>3. ASSUME Fails # {} PROVE FALSE
  <2>1. PICK m \in Fails : \A k \in Fails : m <= k
     <3> HIDE DEF Fails
     <3>1. Fails \subseteq Nat BY DEF Fails
     <3> QED BY <3>1, <1>3, LeastElement
  <2>2. m # 0 /\ m \in Nat  BY <1>1
  <2>3. m - 1 \in Nat /\ m - 1 \notin Fails  BY <2>1, <2>2
  <2>4. Ok(m - 1) BY <2>3
  <2> HIDE DEF Ok
  <2>5. Ok((m - 1) + 1) BY <2>3, <2>4, <1>2
  <2>6. (m - 1) + 1 = m BY <2>2
  <2> QED BY <2>5, <2>6, <2>1
<1> QED BY <1>3

\* The result is that of the last turn.
LEMMA FlushSteps ==
    ASSUME TerminalAssumption, NEW s
    PROVE  \E f : /\ serial_flush(s) = f[INTQ_BUFSIZE]
                 /\ \A i \in 0 .. INTQ_BUFSIZE : f[i] = FlushStep(s, f, i)
<1> DEFINE F(f) == [i \in 0 .. INTQ_BUFSIZE |-> FlushStep(s, f, i)]
<1> DEFINE turn == CHOOSE f : f = F(f)
<1>1. turn = F(turn)
  <2>1. \E f : f = F(f)  BY FlushDefined, SizeIs
  <2> HIDE DEF F
  <2> QED BY <2>1
<1>2. serial_flush(s) = turn[INTQ_BUFSIZE]  BY Zenon DEF serial_flush, FlushStep
<1>3. \A i \in 0 .. INTQ_BUFSIZE : turn[i] = FlushStep(s, turn, i)
  <2> DEFINE k2 == turn
  <2>1. k2 = F(k2) BY <1>1
  <2> HIDE DEF k2
  <2>2. \A i \in 0 .. INTQ_BUFSIZE : k2[i] = FlushStep(s, k2, i) BY <2>1
  <2> QED BY <2>2 DEF k2
<1> QED BY <1>2, <1>3

\* A turn sends a byte or finds nothing to send; so does the loop, until nothing is left.
Drained(s, t, n) ==
    /\ t \in TermRecords /\ t.buffer = s.buffer /\ Rests(s, t) /\ Out(t) = Out(s)
    /\ t.txq.not_empty = s.txq.not_empty
    /\ intq_empty(t.txq) \/ Len(Contents(t.txq)) + n <= INTQ_BUFSIZE
    /\ intq_empty(s.txq) => t = s
LEMMA TurnDrains ==
    ASSUME TerminalAssumption, NEW s, NEW r, NEW n \in Nat, Drained(s, r, n), NEW t, t = FlushTurn(r)
    PROVE  Drained(s, t, n + 1)
<1>1. r \in TermRecords /\ (intq_empty(s.txq) => r = s)
  BY DEF Drained
<1>2. CASE intq_empty(r.txq)
  <2>1. t = r
    BY <1>2 DEF FlushTurn
  <2> QED BY <1>2, <2>1 DEF Drained
<1>3. CASE ~ intq_empty(r.txq)
  <2>1. t = PollOldest(r)
    BY <1>3 DEF FlushTurn
  <2>2. /\ t \in TermRecords /\ t.buffer = r.buffer /\ Rests(r, t) /\ Out(t) = Out(r)
        /\ t.txq.not_empty = r.txq.not_empty
        /\ \E x \in Chars : Contents(r.txq) = <<x>> \o Contents(t.txq)
    BY <1>1, <1>3, <2>1, PollOldestIs
  <2>3. PICK x \in Chars : Contents(r.txq) = <<x>> \o Contents(t.txq)
    BY <2>2
  <2>4. PICK one, c, k, m : one = <<x>> /\ c = Contents(t.txq) /\ k = Len(c) /\ m = Len(Contents(r.txq))
    OBVIOUS
  <2>5. one \in Seq(Chars) /\ Len(one) = 1 /\ c \in Seq(Chars) /\ k \in Nat
    BY <2>2, <2>4, Fields, LengthOf
  <2>6. Len(one \o c) = Len(one) + Len(c)
    BY <2>5, ConcatProperties
  <2>7. m = 1 + k
    BY <2>3, <2>4, <2>5, <2>6
  <2>8. m + n <= INTQ_BUFSIZE
    BY <1>3, <2>4 DEF Drained
  <2>9. k + (n + 1) <= INTQ_BUFSIZE
    BY <2>5, <2>7, <2>8, SizeIs
  <2> QED BY <1>1, <1>3, <2>2, <2>4, <2>9, RestsOn DEF Drained
<1> QED BY <1>2, <1>3

LEMMA FlushIs ==
    ASSUME TerminalAssumption, NEW s \in TermRecords, NEW t, t = serial_flush(s)
    PROVE  /\ t \in TermRecords /\ t.buffer = s.buffer /\ Rests(s, t) /\ Out(t) = Out(s)
           /\ t.txq.not_empty = s.txq.not_empty /\ intq_empty(t.txq) /\ (intq_empty(s.txq) => t = s)
<1>1. PICK f : /\ t = f[INTQ_BUFSIZE]
               /\ \A i \in 0 .. INTQ_BUFSIZE : f[i] = FlushStep(s, f, i)
  BY FlushSteps
<1>2. PICK N : N = INTQ_BUFSIZE
  OBVIOUS
<1>3. N \in Nat /\ N > 1
  BY <1>2, SizeIs
<1> DEFINE Fails == {n \in 0 .. N : ~ Drained(s, f[n], n)}
<1>4. Drained(s, f[0], 0)
  <2>1. f[0] = s
    BY <1>1, <1>2, <1>3 DEF FlushStep
  <2>2. PICK m : m = Len(Contents(s.txq))
    OBVIOUS
  <2>3. m \in Nat /\ m < N
    BY <1>2, <2>2, Fields, LengthOf
  <2>4. m + 0 <= N
    BY <1>3, <2>3
  <2> QED BY <1>2, <2>1, <2>2, <2>4 DEF Drained, Rests, Books
<1>5. ASSUME Fails # {} PROVE FALSE
  <2>1. Fails \in SUBSET Nat
    BY <1>3
  <2>2. PICK m \in Fails : \A k \in Fails : m <= k
    <3> HIDE DEF Fails
    <3> QED BY <1>5, <2>1, LeastElement
  <2>3. m \in 0 .. N /\ m # 0 /\ ~ Drained(s, f[m], m)
    BY <1>4, <2>2
  <2>4. m - 1 \in 0 .. N /\ m - 1 \in Nat /\ (m - 1) + 1 = m
    BY <1>3, <2>3
  <2>5. Drained(s, f[m - 1], m - 1)
    BY <2>2, <2>3, <2>4
  <2>6. f[m] = FlushTurn(f[m - 1])
    BY <1>1, <1>2, <2>3 DEF FlushStep
  <2>7. Drained(s, f[m], (m - 1) + 1)
    BY <2>4, <2>5, <2>6, TurnDrains
  <2> QED BY <2>3, <2>4, <2>7
<1>6. Drained(s, f[N], N)
  BY <1>3, <1>5
<1>7. PICK m : m = Len(Contents(t.txq))
  OBVIOUS
<1>8. Drained(s, t, N)
  BY <1>1, <1>2, <1>6
<1>9. m \in Nat /\ (intq_empty(t.txq) <=> m = 0)
  BY <1>7, <1>8, Fields, LengthOf DEF Drained
<1>10. intq_empty(t.txq) \/ m + N <= N
  BY <1>2, <1>7, <1>8 DEF Drained
<1>11. intq_empty(t.txq)
  BY <1>3, <1>9, <1>10
<1> QED BY <1>8, <1>11 DEF Drained

-----------------------------------------------------------------------------
(* Waiting for a queue moves no byte.                                      *)

SameRing(q, r) == r.buf = q.buf /\ r.head = q.head /\ r.tail = q.tail
NoByte(s, t) ==
    /\ t \in TermRecords /\ t.line = s.line /\ t.thr = s.thr /\ Rests(s, t)
    /\ SameRing(s.txq, t.txq) /\ SameRing(s.buffer, t.buffer) /\ t.txq.not_empty = s.txq.not_empty

LEMMA QuietSame ==
    ASSUME NEW s, NEW t, NoByte(s, t)
    PROVE  /\ Out(t) = Out(s) /\ In(t) = In(s)
           /\ (intq_empty(t.txq) <=> intq_empty(s.txq)) /\ (intq_empty(t.buffer) <=> intq_empty(s.buffer))
           /\ (intq_full(t.txq) <=> intq_full(s.txq)) /\ (intq_full(t.buffer) <=> intq_full(s.buffer))
<1>1. /\ Contents(t.txq) = Contents(s.txq)
      /\ (intq_empty(t.txq) <=> intq_empty(s.txq)) /\ (intq_full(t.txq) <=> intq_full(s.txq))
  BY SameContents DEF NoByte, SameRing
<1>2. /\ Contents(t.buffer) = Contents(s.buffer)
      /\ (intq_empty(t.buffer) <=> intq_empty(s.buffer)) /\ (intq_full(t.buffer) <=> intq_full(s.buffer))
  BY SameContents DEF NoByte, SameRing
<1>3. t.line = s.line /\ t.thr = s.thr /\ t.taken = s.taken
  BY DEF NoByte, Rests, Books
<1> QED BY <1>1, <1>2, <1>3 DEF Out, In
LEMMA QuietOn == \A s, t, u : NoByte(s, t) /\ NoByte(t, u) => NoByte(s, u)
BY RestsOn DEF NoByte, SameRing

\* The fields that a thread changes on its way into wait() and out of it.
SameTx(q, r) == SameRing(q, r) /\ r.not_empty = q.not_empty
LEMMA TxQuiet ==
    ASSUME NEW s \in TermRecords, NEW q \in Rings, SameTx(s.txq, q),
           NEW p \in PcTypes, NEW t, t = [s EXCEPT !.txq = q, !.pc = p]
    PROVE  NoByte(s, t) /\ t.pc = p
BY DEF TermRecords, Rests, Books, NoByte, SameRing, SameTx
LEMMA BufferQuiet ==
    ASSUME NEW s \in TermRecords, NEW q \in Rings, SameRing(s.buffer, q),
           NEW p \in PcTypes, NEW t, t = [s EXCEPT !.buffer = q, !.pc = p]
    PROVE  NoByte(s, t) /\ t.pc = p
BY DEF TermRecords, Rests, Books, NoByte, SameRing
LEMMA PcQuiet ==
    ASSUME NEW s \in TermRecords, NEW p \in PcTypes, NEW t, t = [s EXCEPT !.pc = p]
    PROVE  NoByte(s, t) /\ t.pc = p
BY DEF TermRecords, Rests, Books, NoByte, SameRing
LEMMA FailQuiet ==
    ASSUME NEW s \in TermRecords, NEW t, t = [s EXCEPT !.failed = TRUE]
    PROVE  NoByte(s, t)
BY DEF TermRecords, Rests, Books, NoByte, SameRing
LEMMA SameQuiet == ASSUME NEW s \in TermRecords PROVE NoByte(s, s)
BY DEF Rests, Books, NoByte, SameRing
LEMMA PcPut ==
    ASSUME NEW p \in PcTypes, NEW t \in Threads, NEW place \in {"ready", "locking", "waiting", "woken"},
           NEW r, r = [p EXCEPT ![t] = place]
    PROVE  r \in PcTypes /\ r[t] = place
BY DEF PcTypes

LEMMA WaitTx ==
    ASSUME NEW s \in TermRecords, NEW t \in Threads, NEW u, u = wait(s, "txq", "not_full", t)
    PROVE  NoByte(s, u) /\ (intq_full(s.txq) => u.pc[t] = "waiting")
<1>1. CASE intq_full(s.txq)
  <2>1. PICK p, q : p = [s.pc EXCEPT ![t] = "waiting"] /\ q = [s.txq EXCEPT !.lock = t, !.not_full = t]
    OBVIOUS
  <2>2. ("not_full" = "not_empty") = FALSE
    OBVIOUS
  <2>3. u = [s EXCEPT !.txq = q, !.pc = p]
    BY <1>1, <2>1, <2>2, Zenon DEF wait
  <2>4. p \in PcTypes /\ p[t] = "waiting"
    BY <2>1, Fields, PcPut
  <2>5. q \in Rings /\ SameTx(s.txq, q)
    BY <2>1, Fields DEF Rings, SameRing, SameTx, Anyone
  <2>6. NoByte(s, u)
    BY <2>3, <2>4, <2>5, TxQuiet
  <2>7. u.pc = p
    BY <2>3 DEF TermRecords
  <2> QED BY <2>4, <2>6, <2>7
<1>2. CASE ~ intq_full(s.txq)
  <2>1. ("not_full" = "not_empty") = FALSE
    OBVIOUS
  <2>2. u = [s EXCEPT !.failed = TRUE]
    BY <1>2, <2>1, Zenon DEF wait
  <2> QED BY <1>2, <2>2, FailQuiet
<1> QED BY <1>1, <1>2

LEMMA WaitBuffer ==
    ASSUME NEW s \in TermRecords, NEW t \in Threads, NEW u, u = wait(s, "buffer", "not_empty", t)
    PROVE  NoByte(s, u)
<1>1. CASE intq_empty(s.buffer)
  <2>1. PICK p, q : p = [s.pc EXCEPT ![t] = "waiting"] /\ q = [s.buffer EXCEPT !.lock = t, !.not_empty = t]
    OBVIOUS
  <2>3. u = [s EXCEPT !.buffer = q, !.pc = p]
    BY <1>1, <2>1, Zenon DEF wait
  <2>4. p \in PcTypes /\ p[t] = "waiting"
    BY <2>1, Fields, PcPut
  <2>5. q \in Rings /\ SameRing(s.buffer, q)
    BY <2>1, Fields DEF Rings, SameRing, Anyone
  <2> QED BY <2>3, <2>4, <2>5, BufferQuiet
<1>2. CASE ~ intq_empty(s.buffer)
  <2>2. u = [s EXCEPT !.failed = TRUE]
    BY <1>2, Zenon DEF wait
  <2> QED BY <2>2, FailQuiet
<1> QED BY <1>1, <1>2

LEMMA AwaitTx ==
    ASSUME NEW s \in TermRecords, intq_full(s.txq), NEW t \in Threads, NEW u, u = Await(s, "txq", "not_full", t)
    PROVE  NoByte(s, u) /\ u.pc[t] # "ready"
<1>1. CASE s.txq.lock = NoThread
  <2>1. u = wait(s, "txq", "not_full", t)
    BY <1>1 DEF Await
  <2>2. NoByte(s, u) /\ u.pc[t] = "waiting"
    BY <2>1, WaitTx
  <2> QED BY <2>2
<1>2. CASE s.txq.lock # NoThread
  <2>1. PICK p : p = [s.pc EXCEPT ![t] = "locking"]
    OBVIOUS
  <2>2. u = [s EXCEPT !.pc = p]
    BY <1>2, <2>1, Zenon DEF Await
  <2>3. p \in PcTypes /\ p[t] = "locking"
    BY <2>1, Fields, PcPut
  <2>4. NoByte(s, u) /\ u.pc = p
    BY <2>2, <2>3, PcQuiet
  <2> QED BY <2>3, <2>4
<1> QED BY <1>1, <1>2

LEMMA AwaitBuffer ==
    ASSUME NEW s \in TermRecords, NEW t \in Threads, NEW u, u = Await(s, "buffer", "not_empty", t)
    PROVE  NoByte(s, u)
<1>1. CASE s.buffer.lock = NoThread
  <2>1. u = wait(s, "buffer", "not_empty", t)
    BY <1>1 DEF Await
  <2> QED BY <2>1, WaitBuffer
<1>2. CASE s.buffer.lock # NoThread
  <2>1. PICK p : p = [s.pc EXCEPT ![t] = "locking"]
    OBVIOUS
  <2>2. u = [s EXCEPT !.pc = p]
    BY <1>2, <2>1, Zenon DEF Await
  <2>3. p \in PcTypes
    BY <2>1, Fields, PcPut
  <2> QED BY <2>2, <2>3, PcQuiet
<1> QED BY <1>1, <1>2

LEMMA ResumeTx ==
    ASSUME NEW s \in TermRecords, NEW t \in Threads, s.pc[t] \in {"ready", "woken"}, NEW u, u = Resume(s, "txq", t)
    PROVE  NoByte(s, u) /\ u.pc[t] = "ready"
<1>1. CASE s.pc[t] = "woken"
  <2>1. PICK p, q : p = [s.pc EXCEPT ![t] = "ready"] /\ q = [s.txq EXCEPT !.lock = NoThread]
    OBVIOUS
  <2>2. u = [s EXCEPT !.txq = q, !.pc = p]
    BY <1>1, <2>1, Zenon DEF Resume
  <2>3. p \in PcTypes /\ p[t] = "ready"
    BY <2>1, Fields, PcPut
  <2>4. q \in Rings /\ SameTx(s.txq, q)
    BY <2>1, Fields DEF Rings, SameRing, SameTx, Anyone
  <2>5. NoByte(s, u)
    BY <2>2, <2>3, <2>4, TxQuiet
  <2>6. u.pc = p
    BY <2>2 DEF TermRecords
  <2> QED BY <2>3, <2>5, <2>6
<1>2. CASE s.pc[t] # "woken"
  <2>1. u = s /\ s.pc[t] = "ready"
    BY <1>2 DEF Resume
  <2> QED BY <2>1, SameQuiet
<1> QED BY <1>1, <1>2

LEMMA ResumeBuffer ==
    ASSUME NEW s \in TermRecords, NEW t \in Threads, NEW u, u = Resume(s, "buffer", t)
    PROVE  NoByte(s, u)
<1>1. CASE s.pc[t] = "woken"
  <2>1. PICK p, q : p = [s.pc EXCEPT ![t] = "ready"] /\ q = [s.buffer EXCEPT !.lock = NoThread]
    OBVIOUS
  <2>2. u = [s EXCEPT !.buffer = q, !.pc = p]
    BY <1>1, <2>1, Zenon DEF Resume
  <2>3. p \in PcTypes /\ p[t] = "ready"
    BY <2>1, Fields, PcPut
  <2>4. q \in Rings /\ SameRing(s.buffer, q)
    BY <2>1, Fields DEF Rings, SameRing, Anyone
  <2> QED BY <2>2, <2>3, <2>4, BufferQuiet
<1>2. CASE s.pc[t] # "woken"
  <2>1. u = s
    BY <1>2 DEF Resume
  <2> QED BY <2>1, SameQuiet
<1> QED BY <1>1, <1>2

-----------------------------------------------------------------------------
(* The console's lock and the lines.                                       *)

Upto(w, i, what) == {j \in 1 .. i - 1 : Script[w][j] = what}
LEMMA UptoStep ==
    ASSUME NEW w, NEW what, NEW i \in Nat, i >= 1
    PROVE  /\ Cardinality(Upto(w, i, what)) \in Nat
           /\ Cardinality(Upto(w, i + 1, what)) = Cardinality(Upto(w, i, what)) + (IF Script[w][i] = what THEN 1 ELSE 0)
           /\ Cardinality(Upto(w, 1, what)) = 0
<1>1. PICK A, B : A = Upto(w, i, what) /\ B = Upto(w, i + 1, what)
  OBVIOUS
<1>2. IsFiniteSet(A) /\ Cardinality(A) \in Nat
  <2>1. IsFiniteSet(1 .. i - 1) /\ A \subseteq 1 .. i - 1
    BY <1>1, FS_Interval DEF Upto
  <2>2. IsFiniteSet(A)
    BY <2>1, FS_Subset
  <2> QED BY <2>2, FS_CardinalityType
<1>3. i \notin A /\ B = IF Script[w][i] = what THEN A \union {i} ELSE A
  <2>1. (i + 1) - 1 = i /\ 1 .. i = (1 .. i - 1) \union {i} /\ i \notin 1 .. i - 1
    OBVIOUS
  <2>2. B = {j \in (1 .. i - 1) \union {i} : Script[w][j] = what}
    BY <1>1, <2>1 DEF Upto
  <2> QED BY <1>1, <2>1, <2>2 DEF Upto
<1>4. Cardinality(A \union {i}) = Cardinality(A) + 1
  BY <1>2, <1>3, FS_AddElement
<1>5. Upto(w, 1, what) = {}
  BY DEF Upto
<1>6. Cardinality({}) = 0
  BY FS_EmptySet
<1>7. CASE Script[w][i] = what
  BY <1>1, <1>2, <1>3, <1>4, <1>5, <1>6, <1>7
<1>8. CASE Script[w][i] # what
  BY <1>1, <1>2, <1>3, <1>5, <1>6, <1>8
<1> QED BY <1>7, <1>8

LEMMA NestingStep ==
    ASSUME NEW w, NEW i \in Nat, i >= 1
    PROVE  /\ Nesting(w, i) \in Int /\ Nesting(w, 1) = 0
           /\ Script[w][i] = "acquire" => Nesting(w, i + 1) = Nesting(w, i) + 1
           /\ Script[w][i] = "release" => Nesting(w, i + 1) = Nesting(w, i) - 1
           /\ Script[w][i] \notin {"acquire", "release"} => Nesting(w, i + 1) = Nesting(w, i)
<1>1. PICK a, b, c, d : /\ a = Cardinality(Upto(w, i, "acquire")) /\ b = Cardinality(Upto(w, i, "release"))
                        /\ c = Cardinality(Upto(w, i + 1, "acquire")) /\ d = Cardinality(Upto(w, i + 1, "release"))
  OBVIOUS
<1>2. a \in Nat /\ c = a + (IF Script[w][i] = "acquire" THEN 1 ELSE 0) /\ Cardinality(Upto(w, 1, "acquire")) = 0
  BY <1>1, UptoStep
<1>3. b \in Nat /\ d = b + (IF Script[w][i] = "release" THEN 1 ELSE 0) /\ Cardinality(Upto(w, 1, "release")) = 0
  BY <1>1, UptoStep
<1>4. \A k : Nesting(w, k) = Cardinality(Upto(w, k, "acquire")) - Cardinality(Upto(w, k, "release"))
  BY Zenon DEF Nesting, Upto
<1>5. Nesting(w, i) = a - b /\ Nesting(w, i + 1) = c - d
  BY <1>1, <1>4
<1>6. Nesting(w, 1) = 0
  BY <1>2, <1>3, <1>4
<1> QED BY <1>2, <1>3, <1>5, <1>6

LEMMA TextIs ==
    ASSUME TerminalAssumption, NEW w \in Writers
    PROVE  /\ Len(Script[w]) \in Nat
           /\ \A i \in 1 .. Len(Script[w]) : IF i = 1 THEN Script[w][i] = "acquire" ELSE Nesting(w, i) > 0
BY DEF TerminalAssumption

\* A byte that is no writer's comes between without mixing lines.
LEMMA ForeignByte ==
    ASSUME NEW sent \in Seq(Chars), NEW x \in Chars, x[1] \notin Writers, NEW at, NEW console, NEW depth,
           LinesInv(sent, at, console, depth), NEW new, new = Append(sent, x)
    PROVE  LinesInv(new, at, console, depth)
<1>1. PICK n : n = Len(sent)
  OBVIOUS
<1>2. /\ n \in Nat /\ DOMAIN sent = 1 .. n /\ DOMAIN new = 1 .. n + 1
      /\ new[n + 1] = x /\ \A i \in 1 .. n : new[i] = sent[i]
  BY <1>1, AppendProperties
<1>3. \A i \in DOMAIN new : new[i][1] \in Writers => i \in DOMAIN sent /\ new[i] = sent[i]
  BY <1>2
<1>4. \A i \in DOMAIN new, j \in DOMAIN new : \A k \in i .. j : k \in DOMAIN new
  BY <1>2
<1>5. Unmixed(new)
  BY <1>3, <1>4 DEF Unmixed, LinesInv
<1>6. ASSUME NEW w \in Writers PROVE Printing(w, new, at, console)
  BY <1>3, <1>6 DEF Printing, FollowedBy, LinesInv
<1> QED BY <1>5, <1>6 DEF LinesInv

LEMMA HeldBy ==
    ASSUME TerminalAssumption, NEW w \in Writers, NEW at \in [Writers -> Nat], NEW console, NEW depth \in Nat,
           HeldAt(at, console, depth), at[w] <= Len(Script[w]), Script[w][at[w]] # "acquire"
    PROVE  console = w /\ at[w] \in 1 .. Len(Script[w]) /\ Nesting(w, at[w]) = depth + 1
<1>1. PICK i, n : i = at[w] /\ n = Len(Script[w])
  OBVIOUS
<1>2. n \in Nat /\ i \in 1 .. n + 1 /\ i <= n
  BY <1>1, TextIs DEF HeldAt
<1>3. i \in 1 .. n
  BY <1>2
<1>4. Nesting(w, i) > 0
  BY <1>1, <1>3, TextIs
<1>5. Nesting(w, i) = IF console = w THEN depth + 1 ELSE 0
  BY <1>1 DEF HeldAt
<1>6. console = w
  BY <1>4, <1>5
<1> QED BY <1>1, <1>3, <1>5, <1>6

\* The next place of a writer; the others stay where they are.
LEMMA NextPlace ==
    ASSUME TerminalAssumption, NEW w \in Writers, NEW at \in [Writers -> Nat], NEW console, NEW depth,
           HeldAt(at, console, depth), at[w] <= Len(Script[w]), NEW a, a = [at EXCEPT ![w] = @ + 1]
    PROVE  /\ a \in [Writers -> Nat] /\ a[w] = at[w] + 1 /\ a[w] \in 1 .. Len(Script[w]) + 1
           /\ \A v \in Writers : v # w => a[v] = at[v]
           /\ at[w] \in Nat /\ at[w] >= 1
<1>1. PICK i, n : i = at[w] /\ n = Len(Script[w])
  OBVIOUS
<1>2. n \in Nat /\ i \in 1 .. n + 1 /\ i <= n
  BY <1>1, TextIs DEF HeldAt
<1>3. i \in Nat /\ i >= 1 /\ i + 1 \in 1 .. n + 1 /\ i + 1 \in Nat
  BY <1>2
<1> QED BY <1>1, <1>3

\* A byte of a writer's own text.
LEMMA OwnByte ==
    ASSUME TerminalAssumption, NEW w \in Writers, NEW at \in [Writers -> Nat], NEW console, NEW depth \in Nat,
           NEW sent \in Seq(Chars), LinesInv(sent, at, console, depth), at[w] <= Len(Script[w]),
           Script[w][at[w]] # "acquire", Script[w][at[w]] # "release",
           NEW x \in Chars, x[1] = w, NEW new, new = Append(sent, x), NEW a, a = [at EXCEPT ![w] = @ + 1]
    PROVE  LinesInv(new, a, console, depth)
<1>0. HeldAt(at, console, depth) /\ Unmixed(sent) /\ \A v \in Writers : Printing(v, sent, at, console)
  BY DEF LinesInv
<1>1. console = w /\ Nesting(w, at[w]) = depth + 1
  BY <1>0, HeldBy
<1>2. /\ a \in [Writers -> Nat] /\ a[w] = at[w] + 1 /\ a[w] \in 1 .. Len(Script[w]) + 1
      /\ \A v \in Writers : v # w => a[v] = at[v]
      /\ at[w] \in Nat /\ at[w] >= 1
  BY <1>0, NextPlace
<1>3. Nesting(w, a[w]) = depth + 1
  BY <1>1, <1>2, NestingStep
<1>4. HeldAt(a, console, depth)
  BY <1>0, <1>1, <1>2, <1>3 DEF HeldAt
<1>5. PICK n : n = Len(sent)
  OBVIOUS
<1>6. /\ n \in Nat /\ DOMAIN sent = 1 .. n /\ DOMAIN new = 1 .. n + 1
      /\ new[n + 1] = x /\ \A i \in 1 .. n : new[i] = sent[i]
  BY <1>5, AppendProperties
<1>7. (\A i \in DOMAIN sent : sent[i][1] # w) \/ FollowedBy(w, sent)
  <2>1. Printing(w, sent, at, console)
    BY <1>0
  <2>2. ~ (at[w] > Len(Script[w]))
    BY <1>2, TextIs
  <2> QED BY <2>1, <2>2 DEF Printing
<1>8. FollowedBy(w, new)
  <2>1. SUFFICES ASSUME NEW i \in 1 .. n + 1, NEW k \in 1 .. n + 1, new[i][1] = w, i < k, new[k][1] \in Writers
                 PROVE  new[k][1] = w
    BY <1>6 DEF FollowedBy
  <2>2. CASE k = n + 1
    BY <1>6, <2>2
  <2>3. CASE k # n + 1
    <3>1. i \in 1 .. n /\ k \in 1 .. n
      BY <1>6, <2>1, <2>3
    <3> QED BY <1>6, <1>7, <2>1, <3>1 DEF FollowedBy
  <2> QED BY <2>2, <2>3
<1>9. Unmixed(new)
  <2>1. SUFFICES ASSUME NEW i \in 1 .. n + 1, NEW j \in 1 .. n + 1, new[i][1] \in Writers, i < j, new[i][1] = new[j][1],
                        NEW k \in i .. j, new[k][1] \in Writers
                 PROVE  new[k][1] = new[i][1]
    BY <1>6 DEF Unmixed
  <2>2. CASE j = n + 1
    <3>1. new[i][1] = w
      BY <1>6, <2>1, <2>2
    <3>2. k \in 1 .. n + 1 /\ (k = i \/ i < k)
      BY <1>6, <2>1
    <3> QED BY <1>6, <1>8, <2>1, <3>1, <3>2 DEF FollowedBy
  <2>3. CASE j # n + 1
    <3>1. i \in 1 .. n /\ j \in 1 .. n /\ k \in 1 .. n
      BY <1>6, <2>1, <2>3
    <3>2. new[i] = sent[i] /\ new[j] = sent[j] /\ new[k] = sent[k]
      BY <1>6, <3>1
    <3>3. sent[i][1] \in Writers /\ sent[i][1] = sent[j][1] /\ sent[k][1] \in Writers /\ i < j /\ k \in i .. j
      BY <2>1, <3>2
    <3>4. \A ii, jj \in 1 .. n : sent[ii][1] \in Writers /\ ii < jj /\ sent[ii][1] = sent[jj][1] =>
             \A kk \in ii .. jj : sent[kk][1] \in Writers => sent[kk][1] = sent[ii][1]
      BY <1>0, <1>6, Zenon DEF Unmixed
    <3>5. sent[k][1] = sent[i][1]
      BY <3>1, <3>3, <3>4
    <3> QED BY <3>2, <3>5
  <2> QED BY <2>2, <2>3
<1>10. ASSUME NEW v \in Writers PROVE Printing(v, new, a, console)
  <2>1. CASE v = w
    BY <1>1, <1>8, <2>1 DEF Printing
  <2>2. CASE v # w
    <3>1. Printing(v, sent, at, console) /\ console # v
      BY <1>0, <1>1, <2>2
    <3>2. CASE \A i \in DOMAIN sent : sent[i][1] # v
      <4>1. \A i \in DOMAIN new : new[i][1] # v
        BY <1>6, <2>2, <3>2
      <4> QED BY <4>1 DEF Printing
    <3>3. CASE at[v] > Len(Script[v])
      BY <1>2, <2>2, <3>3 DEF Printing
    <3> QED BY <3>1, <3>2, <3>3 DEF Printing
  <2> QED BY <2>1, <2>2
<1> QED BY <1>4, <1>9, <1>10 DEF LinesInv

\* acquire_console() and release_console().
LEMMA Acquired ==
    ASSUME TerminalAssumption, NEW w \in Writers, NEW at \in [Writers -> Nat], NEW console \in {NoThread, w}, NEW depth \in Nat,
           NEW sent, LinesInv(sent, at, console, depth), at[w] <= Len(Script[w]), Script[w][at[w]] = "acquire",
           NEW a, a = [at EXCEPT ![w] = @ + 1], NEW d, d = IF console = w THEN depth + 1 ELSE depth
    PROVE  LinesInv(sent, a, w, d)
<1>0. HeldAt(at, console, depth) /\ Unmixed(sent) /\ \A v \in Writers : Printing(v, sent, at, console)
  BY DEF LinesInv
<1>1. \A v \in Writers : v # NoThread
  BY DEF TerminalAssumption
<1>2. /\ a \in [Writers -> Nat] /\ a[w] = at[w] + 1 /\ a[w] \in 1 .. Len(Script[w]) + 1
      /\ \A v \in Writers : v # w => a[v] = at[v]
      /\ at[w] \in Nat /\ at[w] >= 1
  BY <1>0, NextPlace
<1>3. Nesting(w, at[w]) = (IF console = w THEN depth + 1 ELSE 0) /\ (console = NoThread => depth = 0)
  BY <1>0 DEF HeldAt
<1>4. Nesting(w, a[w]) = d + 1
  <2>1. Nesting(w, at[w] + 1) = Nesting(w, at[w]) + 1
    BY <1>2, NestingStep
  <2> QED BY <1>1, <1>2, <1>3, <2>1
<1>5. ASSUME NEW v \in Writers, v # w PROVE a[v] = at[v] /\ at[v] \in 1 .. Len(Script[v]) + 1 /\ Nesting(v, at[v]) = 0 /\ console # v
  BY <1>0, <1>1, <1>2, <1>5 DEF HeldAt
<1>6. HeldAt(a, w, d)
  BY <1>1, <1>2, <1>4, <1>5 DEF HeldAt
<1>7. ASSUME NEW v \in Writers PROVE Printing(v, sent, a, w)
  <2>1. Printing(v, sent, at, console)
    BY <1>0
  <2>2. CASE v # w
    BY <1>5, <2>1, <2>2 DEF Printing
  <2>3. CASE v = w
    <3>1. ~ (at[w] > Len(Script[w]))
      BY <1>2, TextIs
    <3> QED BY <2>1, <2>3, <3>1 DEF Printing
  <2> QED BY <2>2, <2>3
<1> QED BY <1>0, <1>6, <1>7 DEF LinesInv

LEMMA Released ==
    ASSUME TerminalAssumption, NEW w \in Writers, NEW at \in [Writers -> Nat], NEW console, NEW depth \in Nat,
           NEW sent, LinesInv(sent, at, console, depth), at[w] <= Len(Script[w]), Script[w][at[w]] = "release",
           NEW a, a = [at EXCEPT ![w] = @ + 1],
           NEW c, NEW d, IF depth > 0 THEN c = console /\ d = depth - 1 ELSE c = NoThread /\ d = depth
    PROVE  LinesInv(sent, a, c, d)
<1>0. HeldAt(at, console, depth) /\ Unmixed(sent) /\ \A v \in Writers : Printing(v, sent, at, console)
  BY DEF LinesInv
<1>1. \A v \in Writers : v # NoThread
  BY DEF TerminalAssumption
<1>2. /\ a \in [Writers -> Nat] /\ a[w] = at[w] + 1 /\ a[w] \in 1 .. Len(Script[w]) + 1
      /\ \A v \in Writers : v # w => a[v] = at[v]
      /\ at[w] \in Nat /\ at[w] >= 1
  BY <1>0, NextPlace
<1>3. console = w /\ Nesting(w, at[w]) = depth + 1
  BY <1>0, HeldBy
<1>4. Nesting(w, a[w]) = depth
  <2>1. Nesting(w, at[w] + 1) = Nesting(w, at[w]) - 1
    BY <1>2, NestingStep
  <2> QED BY <1>2, <1>3, <2>1
<1>5. ASSUME NEW v \in Writers, v # w
      PROVE  a[v] = at[v] /\ at[v] \in 1 .. Len(Script[v]) + 1 /\ Nesting(v, at[v]) = 0 /\ console # v /\ c # v
  BY <1>0, <1>1, <1>2, <1>3, <1>5 DEF HeldAt
<1>6. HeldAt(a, c, d)
  <2>1. Nesting(w, a[w]) = (IF c = w THEN d + 1 ELSE 0) /\ (c = NoThread => d = 0)
    BY <1>1, <1>3, <1>4
  <2>2. ASSUME NEW v \in Writers PROVE a[v] \in 1 .. Len(Script[v]) + 1 /\ Nesting(v, a[v]) = IF c = v THEN d + 1 ELSE 0
    BY <1>2, <1>5, <2>1
  <2> QED BY <2>1, <2>2 DEF HeldAt
<1>7. ASSUME NEW v \in Writers PROVE Printing(v, sent, a, c)
  <2>1. Printing(v, sent, at, console)
    BY <1>0
  <2>2. CASE v # w
    BY <1>5, <2>1, <2>2 DEF Printing
  <2>3. CASE v = w /\ depth > 0
    <3>1. ~ (at[w] > Len(Script[w]))
      BY <1>2, TextIs
    <3> QED BY <2>1, <2>3, <3>1 DEF Printing
  <2>4. CASE v = w /\ ~ depth > 0
    <3>1. a[w] > Len(Script[w])
      <4>1. PICK i, n : i = a[w] /\ n = Len(Script[w])
        OBVIOUS
      <4>2. n \in Nat /\ i \in 1 .. n + 1 /\ i >= 2
        BY <1>2, <4>1, TextIs
      <4>3. ASSUME i <= n PROVE FALSE
        <5>1. i \in 1 .. n /\ i # 1
          BY <4>2, <4>3
        <5>2. Nesting(w, i) > 0
          BY <4>1, <5>1, TextIs
        <5> QED BY <1>4, <2>4, <4>1, <5>2
      <4> QED BY <4>1, <4>2, <4>3
    <3> QED BY <2>4, <3>1 DEF Printing
  <2> QED BY <2>2, <2>3, <2>4
<1> QED BY <1>0, <1>6, <1>7 DEF LinesInv

-----------------------------------------------------------------------------
(* The steps.                                                              *)

LEMMA LinesOn ==
    ASSUME NEW s, TermInv(s), NEW t, Books(s, t)
    PROVE  LinesInv(t.sent, t.at, t.console, t.depth)
BY DEF TermInv, Books

\* A thread waits, or goes on.
LEMMA QuietStep ==
    ASSUME NEW s, TermInv(s), s.mode = "QUEUE", NEW t, NoByte(s, t)
    PROVE  TermInv(t)
<1>1. /\ Out(t) = Out(s) /\ In(t) = In(s) /\ (intq_empty(t.txq) <=> intq_empty(s.txq))
  BY QuietSame
<1>2. t \in TermRecords /\ t.mode = "QUEUE" /\ Books(s, t) /\ t.txq.not_empty = s.txq.not_empty
  BY DEF NoByte, Rests
<1>3. OrderInv(t)
  BY <1>1, <1>2 DEF OrderInv, TermInv, Books
<1>4. IdleInv(t)
  BY <1>1, <1>2 DEF IdleInv, TermInv, Books
<1> QED BY <1>2, <1>3, <1>4, LinesOn DEF TermInv

\* A byte has gone into the queue or out on the line.
Added(s, t, x) ==
    /\ t \in TermRecords /\ In(t) = In(s) /\ Books(s, t) /\ Out(t) = Append(Out(s), x)
    /\ t.txq.not_empty = NoThread
    /\ s.mode # "QUEUE" => t.mode # "QUEUE" /\ intq_empty(t.txq) /\ Calm(t)
    /\ s.mode = "QUEUE" => t.mode = "QUEUE"
SameTerm(t, u) ==
    /\ u.mode = t.mode /\ u.txq = t.txq /\ u.buffer = t.buffer /\ u.line = t.line /\ u.thr = t.thr
    /\ u.rbr = t.rbr /\ u.accepted = t.accepted /\ u.taken = t.taken /\ u.pc = t.pc
LEMMA SameTermIs ==
    ASSUME NEW t, NEW u, SameTerm(t, u)
    PROVE  Out(u) = Out(t) /\ In(u) = In(t) /\ (Calm(t) => Calm(u)) /\ (intq_empty(u.txq) <=> intq_empty(t.txq))
BY DEF SameTerm, Out, In, Calm
LEMMA SentStep ==
    ASSUME NEW s, TermInv(s), ~ s.panicked, NEW x \in Chars, NEW t, Added(s, t, x),
           NEW u \in TermRecords, SameTerm(t, u), u.sent = Append(s.sent, x), ~ u.panicked,
           LinesInv(u.sent, u.at, u.console, u.depth)
    PROVE  TermInv(u)
<1>1. Out(u) = Out(t) /\ In(u) = In(t) /\ (Calm(t) => Calm(u)) /\ (intq_empty(u.txq) <=> intq_empty(t.txq))
  BY SameTermIs
<1>2. Out(s) = s.sent /\ In(s) = s.accepted
  BY DEF TermInv, OrderInv
<1>3. t.accepted = s.accepted /\ t.rbr = s.rbr
  BY DEF Added, Books
<1>4. OrderInv(u)
  BY <1>1, <1>2, <1>3 DEF OrderInv, Added, SameTerm
<1>5. IdleInv(u)
  <2>1. Len(u.rbr) <= 1
    BY <1>3 DEF SameTerm, TermInv, IdleInv
  <2>2. u.txq.not_empty = NoThread
    BY DEF SameTerm, Added
  <2>3. u.mode # "QUEUE" => intq_empty(u.txq) /\ Calm(u)
    BY <1>1 DEF SameTerm, Added
  <2> QED BY <2>1, <2>2, <2>3 DEF IdleInv
<1> QED BY <1>4, <1>5 DEF TermInv

LEMMA PutcOffAdds ==
    ASSUME TerminalAssumption, NEW s, TermInv(s), NEW x \in Chars, NEW t, t = PutcOff(s, x)
    PROVE  Added(s, t, x) /\ t.buffer = s.buffer
<1>1. s \in TermRecords /\ IdleInv(s)
  BY DEF TermInv
<1>2. /\ t \in TermRecords /\ t.buffer = s.buffer /\ Books(s, t) /\ Out(t) = Append(Out(s), x)
      /\ t.txq.not_empty = NoThread
      /\ s.mode # "QUEUE" => t.mode # "QUEUE" /\ intq_empty(t.txq) /\ t.pc = s.pc
      /\ s.mode = "QUEUE" => t.mode = "QUEUE"
  BY <1>1, PutcOffIs
<1>3. In(t) = In(s)
  BY <1>2 DEF In, Books
<1>4. s.mode # "QUEUE" => Calm(t)
  BY <1>1, <1>2 DEF IdleInv, Calm
<1> QED BY <1>2, <1>3, <1>4 DEF Added

\* serial_putc() by a thread: it waits, or the byte is on its way.
LEMMA PutcAdds ==
    ASSUME TerminalAssumption, NEW s, TermInv(s), NEW w \in Writers, s.pc[w] \in {"ready", "woken"},
           NEW x \in Chars, NEW t, t = serial_putc(s, w, x)
    PROVE  IF t.pc[w] = "ready" THEN Added(s, t, x) ELSE s.mode = "QUEUE" /\ NoByte(s, t)
<1>1. s \in TermRecords /\ IdleInv(s) /\ w \in Threads
  BY DEF TermInv, Threads
<1>2. CASE s.mode # "QUEUE"
  <2>1. t = putc_poll(init_poll(s), x)
    BY <1>2, Zenon DEF serial_putc
  <2>2. intq_empty(s.txq) /\ s.txq.not_empty = NoThread /\ Calm(s)
    BY <1>1, <1>2 DEF IdleInv
  <2>3. /\ t \in TermRecords /\ t.mode # "QUEUE" /\ intq_empty(t.txq) /\ t.txq.not_empty = NoThread
        /\ t.buffer = s.buffer /\ t.pc = s.pc /\ Books(s, t) /\ Out(t) = Append(Out(s), x)
    BY <1>1, <1>2, <2>1, <2>2, PolledOut
  <2>4. In(t) = In(s) /\ Calm(t) /\ t.pc[w] = "ready"
    BY <1>1, <2>2, <2>3 DEF In, Books, Calm
  <2> QED BY <1>2, <2>3, <2>4 DEF Added
<1>3. CASE s.mode = "QUEUE"
  <2>1. PICK r : r = Resume(s, "txq", w)
    OBVIOUS
  <2>2. NoByte(s, r) /\ r.pc[w] = "ready"
    BY <1>1, <2>1, ResumeTx
  <2>3. r \in TermRecords /\ Rests(s, r) /\ r.txq.not_empty = NoThread
    BY <1>1, <2>2 DEF NoByte, IdleInv
  <2>4. Out(r) = Out(s) /\ In(r) = In(s)
    BY <2>2, QuietSame
  <2>5. CASE intq_full(r.txq)
    <3>1. t = Await(r, "txq", "not_full", w)
      BY <1>3, <2>1, <2>5, Zenon DEF serial_putc
    <3>2. NoByte(r, t) /\ t.pc[w] # "ready"
      BY <1>1, <2>3, <2>5, <3>1, AwaitTx
    <3> QED BY <1>3, <2>2, <3>2, QuietOn
  <2>6. CASE ~ intq_full(r.txq)
    <3>1. t = write_ier(intq_putc(r, "txq", x))
      BY <1>3, <2>1, <2>6, Zenon DEF serial_putc
    <3>2. /\ t \in TermRecords /\ t.buffer = r.buffer /\ Rests(r, t) /\ Out(t) = Append(Out(r), x)
          /\ t.txq.not_empty = NoThread /\ t.pc = r.pc
      BY <2>3, <2>6, <3>1, QueuedOut
    <3>3. Rests(s, t)
      BY <2>3, <3>2, RestsOn
    <3>4. In(t) = In(r)
      BY <3>2 DEF In, Rests, Books
    <3>5. Added(s, t, x) /\ t.pc[w] = "ready"
      BY <1>3, <2>2, <2>4, <3>2, <3>3, <3>4 DEF Added, Rests
    <3> QED BY <3>5
  <2> QED BY <2>5, <2>6
<1> QED BY <1>2, <1>3

LEMMA ByteIs ==
    /\ \A w \in Writers, n \in Nat : <<w, n>> \in Chars /\ <<w, n>>[1] = w
    /\ \A n \in Nat : <<"handler", n>> \in Chars /\ <<"panic", n>> \in Chars /\ <<"key", n>> \in Chars /\ <<"line", n>> \in Chars
    /\ TerminalAssumption => \A n \in Nat : <<"handler", n>>[1] \notin Writers /\ <<"panic", n>>[1] \notin Writers
BY DEF Chars, TerminalAssumption

LEMMA HandlerStep ==
    ASSUME TerminalAssumption, TermInv(term), HandlerPrints
    PROVE  TermInv(term')
<1>1. PICK s, t, byte, n : s = term /\ n = s.prints /\ byte = <<"handler", n + 1>> /\ t = PutcOff(s, byte)
  OBVIOUS
<1>2. TermInv(s) /\ s \in TermRecords /\ n \in Nat /\ ~ s.panicked
  <2>1. TermInv(s) /\ s \in TermRecords /\ ~ s.panicked
    BY <1>1 DEF TermInv, HandlerPrints, Interruptible
  <2> QED BY <1>1, <2>1 DEF TermRecords
<1>3. n + 1 \in Nat /\ byte \in Chars /\ byte[1] \notin Writers
  <2>1. n + 1 \in Nat
    BY <1>2
  <2> QED BY <1>1, <2>1, ByteIs
<1>4. Added(s, t, byte) /\ t \in TermRecords
  <2>1. Added(s, t, byte)
    BY <1>1, <1>2, <1>3, PutcOffAdds
  <2> QED BY <2>1 DEF Added
<1>5. t.sent = s.sent /\ t.at = s.at /\ t.console = s.console /\ t.depth = s.depth /\ t.panicked = s.panicked
  BY <1>4 DEF Added, Books
<1>6. PICK u, new, k : u = term' /\ new = Append(s.sent, byte) /\ k = t.prints + 1
  OBVIOUS
<1>7. u = [t EXCEPT !.sent = new, !.prints = k]
  BY <1>1, <1>5, <1>6 DEF HandlerPrints
<1>8. new \in Seq(Chars) /\ k \in Nat
  <2>1. new \in Seq(Chars)
    BY <1>2, <1>3, <1>6, Fields, AddedIs
  <2>2. t.prints \in Nat
    BY <1>4 DEF TermRecords
  <2> QED BY <1>6, <2>1, <2>2
<1>9. /\ u \in TermRecords /\ SameTerm(t, u) /\ u.sent = new /\ u.panicked = t.panicked
      /\ u.at = t.at /\ u.console = t.console /\ u.depth = t.depth
  BY <1>4, <1>7, <1>8 DEF TermRecords, SameTerm
<1>10. LinesInv(new, s.at, s.console, s.depth)
  BY <1>2, <1>3, <1>6, Fields, ForeignByte DEF TermInv
<1>11. TermInv(u)
  BY <1>2, <1>3, <1>4, <1>5, <1>6, <1>9, <1>10, SentStep
<1> QED BY <1>6, <1>11

LEMMA PanicStep ==
    ASSUME TerminalAssumption, TermInv(term), debug_panic
    PROVE  TermInv(term')
<1>1. PICK s, t, byte : s = term /\ byte = <<"panic", 1>> /\ t = PutcOff(s, byte)
  OBVIOUS
<1>2. TermInv(s) /\ s \in TermRecords
  BY <1>1 DEF TermInv
<1>3. byte \in Chars /\ byte[1] \notin Writers
  BY <1>1, ByteIs
<1>4. Added(s, t, byte) /\ t \in TermRecords
  <2>1. Added(s, t, byte)
    BY <1>1, <1>2, <1>3, PutcOffAdds
  <2> QED BY <2>1 DEF Added
<1>5. t.sent = s.sent /\ t.at = s.at /\ t.console = s.console /\ t.depth = s.depth /\ t.rbr = s.rbr /\ t.accepted = s.accepted
  BY <1>4 DEF Added, Books
<1>6. PICK u, v, new : v = term' /\ new = Append(s.sent, byte) /\ u = [t EXCEPT !.sent = new, !.panicked = TRUE]
  OBVIOUS
<1>7. v = serial_flush(u)
  BY <1>1, <1>5, <1>6 DEF debug_panic
<1>8. new \in Seq(Chars)
  BY <1>2, <1>3, <1>6, Fields, AddedIs
<1>9. /\ u \in TermRecords /\ SameTerm(t, u) /\ u.sent = new
      /\ u.at = t.at /\ u.console = t.console /\ u.depth = t.depth
  BY <1>4, <1>6, <1>8 DEF TermRecords, SameTerm
<1>10. LinesInv(new, s.at, s.console, s.depth)
  BY <1>2, <1>3, <1>6, Fields, ForeignByte DEF TermInv
<1>11. /\ v \in TermRecords /\ v.buffer = u.buffer /\ Rests(u, v) /\ Out(v) = Out(u)
       /\ v.txq.not_empty = u.txq.not_empty /\ intq_empty(v.txq) /\ (intq_empty(u.txq) => v = u)
  BY <1>7, <1>9, FlushIs
<1>12. Out(u) = Out(t) /\ In(u) = In(t) /\ (Calm(t) => Calm(u)) /\ (intq_empty(u.txq) <=> intq_empty(t.txq))
  BY <1>9, SameTermIs
<1>13. In(v) = In(u)
  BY <1>11 DEF In, Rests, Books
<1>14. OrderInv(v)
  <2>1. Out(s) = s.sent /\ In(s) = s.accepted
    BY <1>2 DEF TermInv, OrderInv
  <2>2. Out(t) = new /\ In(t) = s.accepted
    BY <1>4, <1>6, <2>1 DEF Added
  <2>3. v.sent = new /\ v.accepted = s.accepted
    BY <1>5, <1>9, <1>11 DEF Rests, Books, SameTerm
  <2> QED BY <1>11, <1>12, <1>13, <2>2, <2>3 DEF OrderInv
<1>15. IdleInv(v)
  <2>1. Len(v.rbr) <= 1
    BY <1>2, <1>5, <1>9, <1>11 DEF Rests, Books, SameTerm, TermInv, IdleInv
  <2>2. v.txq.not_empty = NoThread
    BY <1>4, <1>9, <1>11 DEF Added, SameTerm
  <2>3. v.mode # "QUEUE" => Calm(v)
    <3>1. v.mode = t.mode
      BY <1>9, <1>11 DEF Rests, SameTerm
    <3> QED BY <1>4, <1>11, <1>12, <3>1 DEF Added
  <2> QED BY <1>11, <2>1, <2>2, <2>3 DEF IdleInv
<1>16. LinesInv(v.sent, v.at, v.console, v.depth)
  BY <1>5, <1>9, <1>10, <1>11 DEF Rests, Books
<1>17. TermInv(v)
  BY <1>11, <1>14, <1>15, <1>16 DEF TermInv
<1> QED BY <1>6, <1>17

LEMMA WritesStep ==
    ASSUME TerminalAssumption, TermInv(term), NEW w \in Writers, Writes(w)
    PROVE  TermInv(term')
<1>1. PICK s, u, at, n, a : s = term /\ u = term' /\ at = s.at /\ n = at[w] /\ a = [at EXCEPT ![w] = @ + 1]
  OBVIOUS
<1>2. /\ TermInv(s) /\ s \in TermRecords /\ at \in [Writers -> Nat] /\ n \in Nat /\ ~ s.panicked
      /\ s.pc[w] \in {"ready", "woken"}
      /\ LinesInv(s.sent, at, s.console, s.depth) /\ s.sent \in Seq(Chars) /\ s.depth \in Nat /\ s.console \in Anyone
      /\ OrderInv(s) /\ IdleInv(s)
  BY <1>1, Fields DEF TermInv, Writes, Runnable
<1>3. n <= Len(Script[w])
  BY <1>1, <1>2, TextIs DEF Writes, Done
<1>4. a \in [Writers -> Nat]
  BY <1>1, <1>2, <1>3, NextPlace DEF LinesInv
<1>5. ASSUME NEW c \in Anyone, NEW d \in Nat, LinesInv(s.sent, a, c, d),
             u = [s EXCEPT !.console = c, !.depth = d, !.at = a]
      PROVE  TermInv(u)
  <2>1. /\ u \in TermRecords /\ SameTerm(s, u) /\ u.sent = s.sent /\ u.at = a /\ u.console = c /\ u.depth = d
        /\ u.panicked = s.panicked
    BY <1>2, <1>4, <1>5 DEF TermRecords, SameTerm
  <2>2. Out(u) = Out(s) /\ In(u) = In(s) /\ (Calm(s) => Calm(u)) /\ (intq_empty(u.txq) <=> intq_empty(s.txq))
    BY <2>1, SameTermIs
  <2>3. OrderInv(u)
    BY <1>2, <2>1, <2>2 DEF OrderInv, SameTerm
  <2>4. IdleInv(u)
    BY <1>2, <2>1, <2>2 DEF IdleInv, SameTerm
  <2> QED BY <1>5, <2>1, <2>3, <2>4 DEF TermInv
<1>6. CASE Script[w][n] = "acquire"
  <2>1. PICK d : d = IF s.console = w THEN s.depth + 1 ELSE s.depth
    OBVIOUS
  <2>2. acquire_console(w)
    BY <1>1, <1>6 DEF Writes
  <2>3. s.console \in {NoThread, w}
    BY <1>1, <2>2 DEF acquire_console
  <2>4. LinesInv(s.sent, a, w, d)
    BY <1>1, <1>2, <1>3, <1>6, <2>1, <2>3, Acquired
  <2>5. d \in Nat /\ w \in Anyone
    BY <1>2, <2>1 DEF Anyone, Threads
  <2>6. u = [s EXCEPT !.console = w, !.depth = d, !.at = a]
    <3>1. CASE s.console = w
      <4>1. u = [s EXCEPT !.depth = d, !.at = a]
        BY <1>1, <2>1, <2>2, <3>1 DEF acquire_console
      <4> QED BY <1>2, <3>1, <4>1 DEF TermRecords
    <3>2. CASE s.console # w
      <4>1. u = [s EXCEPT !.console = w, !.at = a]
        BY <1>1, <2>2, <3>2 DEF acquire_console
      <4> QED BY <1>2, <2>1, <3>2, <4>1 DEF TermRecords
    <3> QED BY <3>1, <3>2
  <2>7. TermInv(u)
    BY <1>5, <2>4, <2>5, <2>6
  <2> QED BY <1>1, <2>7
<1>7. CASE Script[w][n] = "release"
  <2>1. PICK c, d : c = (IF s.depth > 0 THEN s.console ELSE NoThread) /\ d = IF s.depth > 0 THEN s.depth - 1 ELSE s.depth
    OBVIOUS
  <2>2. release_console(w)
    BY <1>1, <1>7 DEF Writes
  <2>3. IF s.depth > 0 THEN c = s.console /\ d = s.depth - 1 ELSE c = NoThread /\ d = s.depth
    BY <2>1
  <2>4. LinesInv(s.sent, a, c, d)
    BY <1>1, <1>2, <1>3, <1>7, <2>3, Released
  <2>5. d \in Nat /\ c \in Anyone
    BY <1>2, <2>1 DEF Anyone
  <2>6. u = [s EXCEPT !.console = c, !.depth = d, !.at = a]
    <3>1. CASE s.depth > 0
      <4>1. u = [s EXCEPT !.depth = d, !.at = a]
        BY <1>1, <2>1, <2>2, <3>1 DEF release_console
      <4> QED BY <1>2, <2>1, <3>1, <4>1 DEF TermRecords
    <3>2. CASE ~ s.depth > 0
      <4>1. u = [s EXCEPT !.console = c, !.at = a]
        BY <1>1, <2>1, <2>2, <3>2 DEF release_console
      <4> QED BY <1>2, <2>1, <3>2, <4>1 DEF TermRecords
    <3> QED BY <3>1, <3>2
  <2>7. TermInv(u)
    BY <1>5, <2>4, <2>5, <2>6
  <2> QED BY <1>1, <2>7
<1>8. CASE Script[w][n] # "acquire" /\ Script[w][n] # "release"
  <2>1. PICK byte, t : byte = <<w, n>> /\ t = serial_putc(s, w, byte)
    OBVIOUS
  <2>2. Putc(w)
    BY <1>1, <1>8 DEF Writes
  <2>3. byte \in Chars /\ byte[1] = w
    BY <1>2, <2>1, ByteIs
  <2>4. IF t.pc[w] = "ready" THEN Added(s, t, byte) ELSE s.mode = "QUEUE" /\ NoByte(s, t)
    BY <1>2, <2>1, <2>3, PutcAdds
  <2>5. CASE t.pc[w] # "ready"
    <3>1. u = t
      BY <1>1, <2>1, <2>2, <2>5 DEF Putc
    <3> QED BY <1>1, <1>2, <2>4, <2>5, <3>1, QuietStep
  <2>6. CASE t.pc[w] = "ready"
    <3>1. Added(s, t, byte) /\ t \in TermRecords
      BY <2>4, <2>6 DEF Added
    <3>2. t.sent = s.sent /\ t.at = s.at /\ t.console = s.console /\ t.depth = s.depth /\ t.panicked = s.panicked
      BY <3>1 DEF Added, Books
    <3>3. PICK new : new = Append(s.sent, byte)
      OBVIOUS
    <3>4. u = [t EXCEPT !.sent = new, !.at = a]
      BY <1>1, <2>1, <2>2, <2>6, <3>2, <3>3 DEF Putc
    <3>5. new \in Seq(Chars)
      BY <1>2, <2>3, <3>3, AddedIs
    <3>6. /\ u \in TermRecords /\ SameTerm(t, u) /\ u.sent = new /\ u.panicked = t.panicked
          /\ u.at = a /\ u.console = t.console /\ u.depth = t.depth
      BY <1>4, <3>1, <3>4, <3>5 DEF TermRecords, SameTerm
    <3>7. LinesInv(new, a, s.console, s.depth)
      BY <1>1, <1>2, <1>3, <1>8, <2>3, <3>3, OwnByte
    <3>8. TermInv(u)
      BY <1>2, <2>3, <3>1, <3>2, <3>3, <3>6, <3>7, SentStep
    <3> QED BY <1>1, <3>8
  <2> QED BY <2>5, <2>6
<1> QED BY <1>6, <1>7, <1>8

\* A byte or a key put into the input buffer.
LEMMA InputIs ==
    ASSUME TerminalAssumption, NEW s \in TermRecords, ~ intq_full(s.buffer), NEW x \in Chars, NEW t, t = input_putc(s, x)
    PROVE  /\ t \in TermRecords /\ In(t) = Append(In(s), x) /\ Out(t) = Out(s)
           /\ t.txq = s.txq /\ t.thr = s.thr /\ Rests(s, t) /\ (Calm(s) => Calm(t))
<1>1. PICK u : u = intq_putc(s, "buffer", x)
  OBVIOUS
<1>2. /\ u \in TermRecords /\ Contents(u.buffer) = Append(Contents(s.buffer), x)
      /\ u.txq = s.txq /\ u.line = s.line /\ u.thr = s.thr /\ Rests(s, u)
      /\ Calm(s) => Calm(u)
  BY <1>1, BufferPut
<1>3. t = serial_notify(u)
  BY <1>1 DEF input_putc
<1>4. Still(u, t) /\ t.pc = u.pc
  BY <1>2, <1>3, NotifyIs
<1>5. Rests(s, t) /\ t.taken = s.taken
  BY <1>2, <1>4, RestsOn DEF Still, Rests, Books
<1>6. Calm(s) => Calm(t)
  BY <1>2, <1>4 DEF Still, Calm
<1>7. PICK a, b, c : a = s.taken /\ b = <<x>> /\ c = Contents(s.buffer)
  OBVIOUS
<1>8. a \in Seq(Chars) /\ b \in Seq(Chars) /\ c \in Seq(Chars) /\ a \o c \in Seq(Chars)
  BY <1>7, Fields, BytesJoined, AddedIs, LengthOf
<1>9. Contents(t.buffer) = c \o b
  BY <1>2, <1>4, <1>7, <1>8, AddedIs DEF Still
<1>10. In(t) = a \o (c \o b)
  BY <1>5, <1>7, <1>9 DEF In
<1>11. Append(In(s), x) = (a \o c) \o b
  BY <1>7, <1>8, AddedIs DEF In
<1>12. In(t) = Append(In(s), x)
  BY <1>8, <1>10, <1>11, Regrouped
<1>13. Out(t) = Out(s)
  BY <1>2, <1>4 DEF Out, Still
<1> QED BY <1>2, <1>4, <1>5, <1>6, <1>12, <1>13 DEF Still

\* The receiver's part of serial_interrupt().
LEMMA ReceiveStep ==
    ASSUME TerminalAssumption, NEW s, TermInv(s), s.mode = "QUEUE", NEW t, t = ReceiveByte(s)
    PROVE  TermInv(t) /\ t.mode = "QUEUE" /\ t.panicked = s.panicked
<1>1. s \in TermRecords /\ OrderInv(s) /\ IdleInv(s)
  BY DEF TermInv
<1>2. CASE ~ (~ intq_full(s.buffer) /\ s.rbr # << >>)
  <2>1. t = s
    BY <1>2 DEF ReceiveByte
  <2> QED BY <2>1
<1>3. CASE ~ intq_full(s.buffer) /\ s.rbr # << >>
  <2>1. PICK x, acc, u : x = s.rbr[1] /\ acc = s.accepted \o s.rbr /\ u = [s EXCEPT !.rbr = << >>, !.accepted = acc]
    OBVIOUS
  <2>2. t = input_putc(u, x)
    BY <1>3, <2>1, Zenon DEF ReceiveByte
  <2>3. x \in Chars /\ s.rbr = <<x>>
    <3>1. s.rbr \in Seq(Chars) /\ Len(s.rbr) <= 1
      BY <1>1, Fields DEF IdleInv
    <3>2. PICK r : r = s.rbr
      OBVIOUS
    <3>3. Len(r) = 1 /\ r \in Seq(Chars)
      <4>1. r \in Seq(Chars) /\ r # << >> /\ Len(r) <= 1
        BY <1>3, <3>1, <3>2
      <4>2. Len(r) \in Nat
        BY <4>1
      <4>3. r = << >> <=> Len(r) = 0
        <5>1. r \in Seq(Chars)
          BY <4>1
        <5> QED BY <5>1, EmptySeq
      <4>4. PICK m : m = Len(r)
        OBVIOUS
      <4>5. m # 0
        BY <4>1, <4>3, <4>4, Zenon
      <4>6. m \in Nat /\ m <= 1
        BY <4>1, <4>2, <4>4
      <4>7. m = 1
        BY <4>5, <4>6
      <4> QED BY <4>1, <4>4, <4>7
    <3>4. r[1] \in Chars /\ r = <<r[1]>>
      BY <3>3
    <3> QED BY <2>1, <3>2, <3>4
  <2>4. acc \in Seq(Chars) /\ acc = Append(s.accepted, x)
    BY <1>1, <2>1, <2>3, Fields, AddedIs
  <2>5. /\ u \in TermRecords /\ u.mode = s.mode /\ u.txq = s.txq /\ u.buffer = s.buffer /\ u.line = s.line /\ u.thr = s.thr
        /\ u.taken = s.taken /\ u.accepted = acc /\ u.rbr = << >> /\ u.sent = s.sent /\ u.panicked = s.panicked
        /\ u.at = s.at /\ u.console = s.console /\ u.depth = s.depth
    <3>1. << >> \in Seq(Chars)
      OBVIOUS
    <3> QED BY <1>1, <2>1, <2>4, <3>1 DEF TermRecords
  <2>6. /\ t \in TermRecords /\ In(t) = Append(In(u), x) /\ Out(t) = Out(u)
        /\ t.txq = u.txq /\ Rests(u, t)
    BY <1>3, <2>2, <2>3, <2>5, InputIs
  <2>7. Out(u) = Out(s) /\ In(u) = In(s)
    BY <2>5 DEF Out, In
  <2>8. /\ t.mode = "QUEUE" /\ t.sent = s.sent /\ t.accepted = acc /\ t.rbr = << >> /\ t.panicked = s.panicked
        /\ t.at = s.at /\ t.console = s.console /\ t.depth = s.depth
    BY <2>5, <2>6 DEF Rests, Books
  <2>9. OrderInv(t)
    BY <1>1, <2>4, <2>6, <2>7, <2>8 DEF OrderInv
  <2>10. IdleInv(t)
    <3>1. Len(t.rbr) <= 1
      BY <2>8
    <3>2. t.txq = s.txq
      BY <2>5, <2>6
    <3> QED BY <1>1, <2>8, <3>1, <3>2 DEF IdleInv
  <2>11. LinesInv(t.sent, t.at, t.console, t.depth)
    BY <2>8 DEF TermInv
  <2> QED BY <2>6, <2>8, <2>9, <2>10, <2>11 DEF TermInv
<1> QED BY <1>2, <1>3

\* The transmitter's part.
LEMMA SendStep ==
    ASSUME TerminalAssumption, NEW s, TermInv(s), s.mode = "QUEUE", ~ s.panicked, NEW t, t = SendByte(s)
    PROVE  TermInv(t) /\ t.mode = "QUEUE"
<1>1. s \in TermRecords /\ OrderInv(s) /\ IdleInv(s)
  BY DEF TermInv
<1>2. CASE ~ (~ intq_empty(s.txq) /\ s.thr = << >>)
  <2>1. t = s
    BY <1>2 DEF SendByte
  <2> QED BY <2>1
<1>3. CASE ~ intq_empty(s.txq) /\ s.thr = << >>
  <2>1. PICK x, one, u : x = Oldest(s, "txq") /\ one = <<x>> /\ u = intq_getc(s, "txq")
    OBVIOUS
  <2>2. t = [u EXCEPT !.thr = one]
    BY <1>3, <2>1 DEF SendByte
  <2>3. /\ u \in TermRecords /\ x \in Chars /\ one \in Seq(Chars)
        /\ Contents(s.txq) = one \o Contents(u.txq)
        /\ u.buffer = s.buffer /\ u.line = s.line /\ u.thr = s.thr /\ Rests(s, u)
        /\ u.txq.not_empty = s.txq.not_empty
    BY <1>1, <1>3, <2>1, TxGet
  <2>4. /\ t \in TermRecords /\ t.line = s.line /\ t.thr = one /\ t.txq = u.txq /\ t.buffer = s.buffer /\ Rests(s, t)
    BY <2>2, <2>3, ZenonT(60) DEF TermRecords, Rests, Books
  <2>5. PICK a, c : a = s.line /\ c = Contents(u.txq)
    OBVIOUS
  <2>6. a \in Seq(Chars) /\ c \in Seq(Chars)
    BY <1>1, <2>3, <2>5, Fields, LengthOf
  <2>7. Out(t) = (a \o one) \o c
    BY <2>4, <2>5 DEF Out
  <2>8. Out(s) = (a \o << >>) \o (one \o c)
    BY <1>3, <2>3, <2>5 DEF Out
  <2>9. Out(t) = Out(s)
    BY <2>3, <2>6, <2>7, <2>8, Regrouped, NothingAdded
  <2>10. In(t) = In(s)
    BY <2>4 DEF In, Rests, Books
  <2>11. OrderInv(t)
    BY <1>1, <2>4, <2>9, <2>10 DEF OrderInv, Rests, Books
  <2>12. IdleInv(t)
    BY <1>1, <2>3, <2>4 DEF IdleInv, Rests, Books
  <2>13. Books(s, t) /\ t.mode = "QUEUE"
    BY <2>4 DEF Rests
  <2> QED BY <2>4, <2>11, <2>12, <2>13, LinesOn DEF TermInv
<1> QED BY <1>2, <1>3

LEMMA StillStep ==
    ASSUME NEW s, TermInv(s), NEW t, Still(s, t), t.pc = s.pc
    PROVE  TermInv(t)
<1>1. Out(t) = Out(s) /\ In(t) = In(s)
  BY DEF Still, Out, In, Rests, Books
<1>2. OrderInv(t)
  BY <1>1 DEF OrderInv, Still, Rests, Books, TermInv
<1>3. IdleInv(t)
  BY DEF IdleInv, Still, Rests, Books, TermInv, Calm
<1>4. Books(s, t) /\ t \in TermRecords
  BY DEF Still, Rests
<1> QED BY <1>2, <1>3, <1>4, LinesOn DEF TermInv

LEMMA InterruptStep ==
    ASSUME TerminalAssumption, TermInv(term), serial_interrupt
    PROVE  TermInv(term')
<1>1. PICK s, r, t, u : s = term /\ r = ReceiveByte(s) /\ t = SendByte(r) /\ u = term'
  OBVIOUS
<1>2. TermInv(s) /\ s.mode = "QUEUE" /\ ~ s.panicked /\ u = write_ier(t)
  BY <1>1 DEF serial_interrupt, Interruptible
<1>3. TermInv(r) /\ r.mode = "QUEUE" /\ r.panicked = s.panicked
  BY <1>1, <1>2, ReceiveStep
<1>4. TermInv(t)
  BY <1>1, <1>2, <1>3, SendStep
<1>5. Still(t, u) /\ u.pc = t.pc
  BY <1>2, <1>4, IerIs DEF TermInv
<1>6. TermInv(u)
  BY <1>4, <1>5, StillStep
<1> QED BY <1>1, <1>6

LEMMA KeyboardStep ==
    ASSUME TerminalAssumption, TermInv(term), keyboard_interrupt
    PROVE  TermInv(term')
<1>1. PICK s, n, key, r, v : /\ s = term /\ n = s.keys /\ key = <<"key", n + 1>> /\ v = term'
                             /\ r = [s EXCEPT !.keys = n + 1]
  OBVIOUS
<1>2. TermInv(s) /\ s \in TermRecords /\ OrderInv(s) /\ IdleInv(s)
  BY <1>1 DEF TermInv
<1>3. n \in Nat
  BY <1>1, <1>2 DEF TermRecords
<1>4. n + 1 \in Nat /\ key \in Chars
  <2>1. n + 1 \in Nat
    BY <1>3
  <2> QED BY <1>1, <2>1, ByteIs
<1>5. Still(s, r) /\ r.pc = s.pc
  BY <1>1, <1>2, <1>4 DEF TermRecords, Still, Rests, Books
<1>6. TermInv(r) /\ r \in TermRecords
  BY <1>2, <1>5, StillStep DEF Still
<1>7. CASE intq_full(r.buffer)
  <2>1. v = r
    BY <1>1, <1>7 DEF keyboard_interrupt
  <2> QED BY <1>1, <1>6, <2>1
<1>8. CASE ~ intq_full(r.buffer)
  <2>1. PICK acc, u : acc = Append(r.accepted, key) /\ u = [r EXCEPT !.accepted = acc]
    OBVIOUS
  <2>2. v = input_putc(u, key)
    BY <1>1, <1>8, <2>1 DEF keyboard_interrupt
  <2>3. acc \in Seq(Chars)
    BY <1>4, <1>6, <2>1, Fields, AddedIs
  <2>4. /\ u \in TermRecords /\ u.mode = r.mode /\ u.txq = r.txq /\ u.buffer = r.buffer /\ u.line = r.line /\ u.thr = r.thr
        /\ u.taken = r.taken /\ u.accepted = acc /\ u.rbr = r.rbr /\ u.sent = r.sent /\ u.panicked = r.panicked
        /\ u.at = r.at /\ u.console = r.console /\ u.depth = r.depth /\ u.pc = r.pc
    BY <1>6, <2>1, <2>3 DEF TermRecords
  <2>5. /\ v \in TermRecords /\ In(v) = Append(In(u), key) /\ Out(v) = Out(u)
        /\ v.txq = u.txq /\ Rests(u, v) /\ (Calm(u) => Calm(v))
    BY <1>4, <1>8, <2>2, <2>4, InputIs
  <2>6. Out(u) = Out(r) /\ In(u) = In(r) /\ (Calm(r) => Calm(u))
    BY <2>4 DEF Out, In, Calm
  <2>7. /\ v.mode = r.mode /\ v.sent = r.sent /\ v.accepted = acc /\ v.rbr = r.rbr /\ v.panicked = r.panicked
        /\ v.at = r.at /\ v.console = r.console /\ v.depth = r.depth
    BY <2>4, <2>5 DEF Rests, Books
  <2>8. OrderInv(v)
    BY <1>6, <2>1, <2>5, <2>6, <2>7 DEF OrderInv, TermInv
  <2>9. IdleInv(v)
    <3>1. v.txq = r.txq
      BY <2>4, <2>5
    <3> QED BY <1>6, <2>5, <2>6, <2>7, <3>1 DEF IdleInv, TermInv
  <2>10. LinesInv(v.sent, v.at, v.console, v.depth)
    BY <1>6, <2>7 DEF TermInv
  <2>11. TermInv(v)
    BY <2>5, <2>8, <2>9, <2>10 DEF TermInv
  <2> QED BY <1>1, <2>11
<1> QED BY <1>7, <1>8

LEMMA ReadsStep ==
    ASSUME TerminalAssumption, TermInv(term), NEW w \in Readers, Reads(w)
    PROVE  TermInv(term')
<1>1. PICK s, r, v : s = term /\ r = Resume(s, "buffer", w) /\ v = term'
  OBVIOUS
<1>2. TermInv(s) /\ s \in TermRecords /\ s.mode = "QUEUE" /\ ~ s.panicked /\ w \in Threads
  BY <1>1 DEF TermInv, Reads, MayRun, Runnable, TerminalAssumption, Threads
<1>3. NoByte(s, r)
  BY <1>1, <1>2, ResumeBuffer
<1>4. TermInv(r) /\ r \in TermRecords /\ r.mode = "QUEUE" /\ ~ r.panicked /\ OrderInv(r) /\ IdleInv(r)
  BY <1>2, <1>3, QuietStep DEF TermInv, NoByte, Rests, Books
<1>5. CASE intq_empty(r.buffer)
  <2>1. v = Await(r, "buffer", "not_empty", w)
    BY <1>1, <1>5, Zenon DEF Reads, input_getc
  <2>2. TermInv(v)
    BY <1>2, <1>4, <2>1, AwaitBuffer, QuietStep
  <2> QED BY <1>1, <2>2
<1>6. CASE ~ intq_empty(r.buffer)
  <2>1. PICK x, u, new, q : x = Oldest(r, "buffer") /\ u = intq_getc(r, "buffer") /\ new = Append(u.taken, x)
                            /\ q = [u EXCEPT !.taken = new]
    OBVIOUS
  <2>2. v = serial_notify(q)
    BY <1>1, <1>6, <2>1, Zenon DEF Reads, input_getc
  <2>3. /\ u \in TermRecords /\ x \in Chars /\ <<x>> \in Seq(Chars)
        /\ Contents(r.buffer) = <<x>> \o Contents(u.buffer)
        /\ u.txq = r.txq /\ u.line = r.line /\ u.thr = r.thr /\ Rests(r, u)
    BY <1>4, <1>6, <2>1, BufferGet
  <2>4. new \in Seq(Chars) /\ new = r.taken \o <<x>> /\ r.taken \in Seq(Chars)
    <3>1. u.taken = r.taken
      BY <2>3 DEF Rests, Books
    <3> QED BY <1>4, <2>1, <2>3, <3>1, Fields, AddedIs
  <2>5. /\ q \in TermRecords /\ q.mode = u.mode /\ q.txq = u.txq /\ q.buffer = u.buffer /\ q.line = u.line /\ q.thr = u.thr
        /\ q.taken = new /\ q.accepted = u.accepted /\ q.rbr = u.rbr /\ q.sent = u.sent /\ q.panicked = u.panicked
        /\ q.at = u.at /\ q.console = u.console /\ q.depth = u.depth
    BY <2>1, <2>3, <2>4 DEF TermRecords
  <2>6. /\ q.mode = "QUEUE" /\ q.accepted = r.accepted /\ q.rbr = r.rbr /\ q.sent = r.sent /\ q.panicked = r.panicked
        /\ q.at = r.at /\ q.console = r.console /\ q.depth = r.depth
    BY <1>4, <2>3, <2>5 DEF Rests, Books
  <2>7. Out(q) = Out(r)
    BY <2>3, <2>5 DEF Out
  <2>8. In(q) = In(r)
    <3>1. PICK a, b, c : a = r.taken /\ b = <<x>> /\ c = Contents(u.buffer)
      OBVIOUS
    <3>2. a \in Seq(Chars) /\ b \in Seq(Chars) /\ c \in Seq(Chars)
      BY <2>3, <2>4, <3>1, Fields, LengthOf
    <3>3. In(q) = (a \o b) \o c
      BY <2>4, <2>5, <3>1 DEF In
    <3>4. In(r) = a \o (b \o c)
      BY <2>3, <3>1 DEF In
    <3> QED BY <3>2, <3>3, <3>4, Regrouped
  <2>9. OrderInv(q)
    BY <1>4, <2>6, <2>7, <2>8 DEF OrderInv
  <2>10. IdleInv(q)
    <3>1. q.txq = r.txq
      BY <2>3, <2>5
    <3> QED BY <1>4, <2>6, <3>1 DEF IdleInv
  <2>11. TermInv(q)
    BY <1>4, <2>5, <2>6, <2>9, <2>10 DEF TermInv
  <2>12. TermInv(v)
    BY <2>2, <2>5, <2>11, NotifyIs, StillStep
  <2> QED BY <1>1, <2>12
<1> QED BY <1>5, <1>6

LEMMA LockedStep ==
    ASSUME TerminalAssumption, TermInv(term), NEW t \in Threads, Locked(t)
    PROVE  TermInv(term')
<1>1. PICK s, u : s = term /\ u = term'
  OBVIOUS
<1>2. TermInv(s) /\ s \in TermRecords /\ s.pc[t] = "locking"
  BY <1>1 DEF TermInv, Locked
<1>3. s.mode = "QUEUE"
  BY <1>2 DEF TermInv, IdleInv, Calm
<1>4. CASE t \in Readers
  <2>1. u = wait(s, "buffer", "not_empty", t)
    BY <1>1, <1>4, Zenon DEF Locked
  <2>2. TermInv(u)
    BY <1>2, <1>3, <2>1, WaitBuffer, QuietStep
  <2> QED BY <1>1, <2>2
<1>5. CASE t \notin Readers
  <2>1. u = wait(s, "txq", "not_full", t)
    BY <1>1, <1>5, Zenon DEF Locked
  <2>2. TermInv(u)
    BY <1>2, <1>3, <2>1, WaitTx, QuietStep
  <2> QED BY <1>1, <2>2
<1> QED BY <1>4, <1>5

LEMMA InitQueueStep ==
    ASSUME TerminalAssumption, TermInv(term), serial_init_queue
    PROVE  TermInv(term')
<1>1. PICK s, t, u, v : s = term /\ t = init_poll(s) /\ u = [t EXCEPT !.mode = "QUEUE"] /\ v = term'
  OBVIOUS
<1>2. TermInv(s) /\ s \in TermRecords /\ OrderInv(s) /\ IdleInv(s) /\ s.mode # "QUEUE" /\ ~ s.panicked
  BY <1>1 DEF TermInv, serial_init_queue
<1>3. v = write_ier(u)
  BY <1>1 DEF serial_init_queue
<1>4. intq_empty(s.txq) /\ s.txq.not_empty = NoThread
  BY <1>2 DEF IdleInv
<1>5. /\ t \in TermRecords /\ intq_empty(t.txq) /\ t.txq.not_empty = NoThread
      /\ t.buffer = s.buffer /\ t.line = s.line /\ t.thr = s.thr /\ Books(s, t)
  BY <1>1, <1>2, <1>4, InitPollIs
<1>6. /\ u \in TermRecords /\ u.mode = "QUEUE" /\ u.txq = t.txq /\ u.buffer = s.buffer /\ u.line = s.line /\ u.thr = s.thr
      /\ Books(s, u)
  BY <1>1, <1>5, ZenonT(60) DEF TermRecords, Books
<1>7. Contents(u.txq) = Contents(s.txq)
  <2>1. Contents(u.txq) = << >>
    BY <1>5, <1>6, Fields, EmptyContents
  <2>2. Contents(s.txq) = << >>
    BY <1>2, <1>4, Fields, EmptyContents
  <2> QED BY <2>1, <2>2
<1>8. OrderInv(u)
  BY <1>2, <1>6, <1>7 DEF OrderInv, Out, In, Books
<1>9. IdleInv(u)
  BY <1>2, <1>5, <1>6 DEF IdleInv, Books
<1>10. TermInv(u)
  BY <1>2, <1>6, <1>8, <1>9, LinesOn DEF TermInv
<1>11. TermInv(v)
  BY <1>3, <1>6, <1>10, IerIs, StillStep
<1> QED BY <1>1, <1>11

LEMMA ArriveStep ==
    ASSUME TermInv(term), Arrive
    PROVE  TermInv(term')
<1>1. PICK s, n, b, new, v : s = term /\ n = s.arrived /\ b = <<"line", n + 1>> /\ new = <<b>> /\ v = term'
  OBVIOUS
<1>2. TermInv(s) /\ s \in TermRecords /\ OrderInv(s) /\ IdleInv(s)
  BY <1>1 DEF TermInv
<1>3. n \in Nat
  BY <1>1, <1>2 DEF TermRecords
<1>4. n + 1 \in Nat /\ b \in Chars
  <2>1. n + 1 \in Nat
    BY <1>3
  <2> QED BY <1>1, <2>1, ByteIs
<1>5. new \in Seq(Chars) /\ Len(new) <= 1
  BY <1>1, <1>4
<1>6. v = [s EXCEPT !.rbr = new, !.arrived = n + 1]
  BY <1>1 DEF Arrive
<1>7. /\ v \in TermRecords /\ v.mode = s.mode /\ v.txq = s.txq /\ v.buffer = s.buffer /\ v.line = s.line /\ v.thr = s.thr
      /\ v.taken = s.taken /\ v.accepted = s.accepted /\ v.rbr = new /\ v.sent = s.sent /\ v.panicked = s.panicked
      /\ v.at = s.at /\ v.console = s.console /\ v.depth = s.depth /\ v.pc = s.pc
  BY <1>2, <1>4, <1>5, <1>6 DEF TermRecords
<1>8. OrderInv(v)
  BY <1>2, <1>7 DEF OrderInv, Out, In
<1>9. IdleInv(v)
  BY <1>2, <1>5, <1>7 DEF IdleInv, Calm
<1>10. TermInv(v)
  BY <1>2, <1>7, <1>8, <1>9 DEF TermInv
<1> QED BY <1>1, <1>10

LEMMA DepartStep ==
    ASSUME TerminalAssumption, TermInv(term), Depart
    PROVE  TermInv(term')
<1>1. PICK s, a, b, v : s = term /\ a = s.line \o s.thr /\ b = << >> /\ v = term'
  OBVIOUS
<1>2. TermInv(s) /\ s \in TermRecords /\ OrderInv(s) /\ IdleInv(s)
  BY <1>1 DEF TermInv
<1>3. v = [s EXCEPT !.line = a, !.thr = b]
  BY <1>1 DEF Depart
<1>4. a \in Seq(Chars) /\ b \in Seq(Chars)
  BY <1>1, <1>2, Fields, BytesJoined
<1>5. /\ v \in TermRecords /\ v.pc = s.pc /\ v.txq = s.txq /\ v.buffer = s.buffer
      /\ v.line = a /\ v.thr = b /\ Rests(s, v)
  BY <1>2, <1>3, <1>4 DEF TermRecords, Rests, Books
<1>6. Out(v) = Out(s)
  <2>1. a \o b = a
    BY <1>1, <1>4, NothingAdded
  <2> QED BY <1>1, <1>5, <2>1 DEF Out
<1>7. In(v) = In(s)
  BY <1>5 DEF In, Rests, Books
<1>8. OrderInv(v)
  BY <1>2, <1>5, <1>6, <1>7 DEF OrderInv, Rests, Books
<1>9. IdleInv(v)
  BY <1>2, <1>5 DEF IdleInv, Calm, Rests, Books
<1>10. TermInv(v)
  BY <1>2, <1>5, <1>8, <1>9, LinesOn DEF TermInv, Rests
<1> QED BY <1>1, <1>10

LEMMA StartIs == TerminalAssumption => TermInv(TerminalStart)
<1> SUFFICES ASSUME TerminalAssumption PROVE TermInv(TerminalStart)
  OBVIOUS
<1>1. PICK s, q, p, at : /\ s = TerminalStart /\ q = intq_init /\ p = [t \in Threads |-> "ready"]
                         /\ at = [w \in Writers |-> 1]
  OBVIOUS
<1>2. q \in Rings /\ intq_empty(q) /\ q.not_empty = NoThread
  <2>1. [i \in 0 .. INTQ_BUFSIZE - 1 |-> << >>] \in [Spots -> Chars]
    BY DEF Spots, Chars
  <2>2. 0 \in Spots
    BY SizeIs DEF Spots
  <2> QED BY <1>1, <2>1, <2>2 DEF intq_init, Rings, Anyone, intq_empty
<1>3. p \in PcTypes /\ at \in [Writers -> Nat] /\ << >> \in Seq(Chars) /\ NoThread \in Anyone
  BY <1>1 DEF PcTypes, Anyone
<1>4. s = [mode |-> "UNINIT", ier |-> {}, txq |-> q, buffer |-> q,
           thr |-> << >>, rbr |-> << >>, line |-> << >>, sent |-> << >>,
           accepted |-> << >>, taken |-> << >>, pc |-> p, at |-> at,
           console |-> NoThread, depth |-> 0, arrived |-> 0, keys |-> 0, prints |-> 0,
           failed |-> FALSE, panicked |-> FALSE]
  BY <1>1, Zenon DEF TerminalStart
<1>5. s \in TermRecords
  BY <1>2, <1>3, <1>4 DEF TermRecords
<1>6. Contents(q) = << >>
  BY <1>2, EmptyContents
<1>7. OrderInv(s)
  <2>1. << >> \o << >> = << >>
    BY <1>3, NothingAdded
  <2> QED BY <1>4, <1>6, <2>1 DEF OrderInv, Out, In
<1>8. IdleInv(s)
  BY <1>1, <1>2, <1>4 DEF IdleInv, Calm
<1>9. HeldAt(at, NoThread, 0)
  <2>1. ASSUME NEW w \in Writers PROVE at[w] = 1 /\ at[w] \in 1 .. Len(Script[w]) + 1 /\ Nesting(w, at[w]) = 0 /\ NoThread # w
    <3>1. at[w] = 1 /\ Len(Script[w]) \in Nat /\ NoThread # w
      BY <1>1, TextIs DEF TerminalAssumption
    <3>2. Nesting(w, 1) = 0
      BY NestingStep
    <3> QED BY <3>1, <3>2
  <2> QED BY <2>1 DEF HeldAt
<1>10. LinesInv(<< >>, at, NoThread, 0)
  BY <1>9 DEF LinesInv, Unmixed, Printing
<1>11. LinesInv(s.sent, s.at, s.console, s.depth)
  BY <1>4, <1>10
<1>12. TermInv(s)
  BY <1>5, <1>7, <1>8, <1>11 DEF TermInv
<1> QED BY <1>1, <1>12

\* The inductive invariant of the console and the serial line: what is on the line, in the
\* transmitter and in the queue is what was sent, the queue is unused before
\* serial_init_queue() and empty after a panic, and whoever has begun a line and not
\* finished it has the console.
THEOREM TerminalInvariant == TerminalAssumption => (TerminalSpec => []TermInv(term))
<1> SUFFICES ASSUME TerminalAssumption PROVE TerminalSpec => []TermInv(term)
  OBVIOUS
<1>1. TerminalInit => TermInv(term)
  BY StartIs DEF TerminalInit
<1>2. TermInv(term) /\ [TerminalNext]_term => TermInv(term)'
  <2> SUFFICES ASSUME TermInv(term), [TerminalNext]_term PROVE TermInv(term')
    OBVIOUS
  <2>1. CASE UNCHANGED term
    BY <2>1
  <2>2. CASE TerminalNext
    <3>1. ASSUME NEW w \in Writers, Writes(w) PROVE TermInv(term')
      BY <3>1, WritesStep
    <3>2. ASSUME NEW r \in Readers, Reads(r) PROVE TermInv(term')
      BY <3>2, ReadsStep
    <3>3. ASSUME NEW t \in Threads, Locked(t) PROVE TermInv(term')
      BY <3>3, LockedStep
    <3>4. CASE serial_init_queue
      BY <3>4, InitQueueStep
    <3>5. CASE serial_interrupt
      BY <3>5, InterruptStep
    <3>6. CASE keyboard_interrupt
      BY <3>6, KeyboardStep
    <3>7. CASE HandlerPrints
      BY <3>7, HandlerStep
    <3>8. CASE debug_panic
      BY <3>8, PanicStep
    <3>9. CASE Arrive
      BY <3>9, ArriveStep
    <3>10. CASE Depart
      BY <3>10, DepartStep
    <3> QED BY <2>2, <3>1, <3>2, <3>3, <3>4, <3>5, <3>6, <3>7, <3>8, <3>9, <3>10 DEF TerminalNext
  <2> QED BY <2>1, <2>2
<1> QED BY <1>1, <1>2, PTL DEF TerminalSpec

\* serial_putc(), intq_getc(), intq_putc(), acquire_console(): every byte comes out once and
\* in order, queued, polled or flushed, and no thread's line is mixed with another's.
THEOREM ConsoleIsExact == TerminalAssumption => (TerminalSpec => []ConsoleExact)
<1> SUFFICES ASSUME TerminalAssumption PROVE TerminalSpec => []ConsoleExact
  OBVIOUS
<1>1. TerminalSpec => []TermInv(term)
  BY TerminalInvariant
<1>2. TermInv(term) => ConsoleExact
  <2> SUFFICES ASSUME TermInv(term) PROVE ConsoleExact
    OBVIOUS
  <2>1. BytesInOrder
    BY DEF BytesInOrder, TermInv, OrderInv, Out, In, IdleInv
  <2>2. LinesWhole
    BY DEF LinesWhole, TermInv, LinesInv, Unmixed
  <2> QED BY <2>1, <2>2 DEF ConsoleExact
<1> QED BY <1>1, <1>2, PTL
=============================================================================
