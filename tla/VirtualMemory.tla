--------------------------- MODULE VirtualMemory ---------------------------
(***************************************************************************)
(* User pages of pintos2: palloc.c's user pool, the page directories, the  *)
(* frame and page tables and the swap disk of vm/, and page_fault() of     *)
(* userprog/exception.c.  Processes are preempted between any two steps.   *)
(* wild records the first assertion that fails, the first swap-in that     *)
(* finds no entry or another page's, the first access to no page at all,   *)
(* the first frame or frame entry that is freed while somebody evicts, the *)
(* first victim whose page entry still names the frame it had before, and  *)
(* the first result of malloc() that is used though it is NULL; there the  *)
(* model stops.                                                            *)
(***************************************************************************)
EXTENDS Integers, Sequences, FiniteSets

CONSTANTS
    Procs, UPages,           \* processes, addresses of pages
    Image,                   \* the pages each process has
    PageCnt,                 \* frames of the user pool
    SwapSize,                \* swap_disk_size, in pages
    Values,                  \* what is written to pages that start out as 0
    Nobody, None

KPages == 1 .. PageCnt
ASSUME VirtualMemoryAssumption ==
    /\ Image \in [Procs -> SUBSET UPages]
    /\ SwapSize \in Nat /\ PageCnt \in Nat
    /\ Nobody \notin Procs /\ None \notin KPages

VARIABLES
    at, req,         \* where a process is and what it works on
    used,            \* used_map of the user pool
    mem,             \* what the frames hold
    pte,             \* pagedir: the frame of each page that is present
    page_entry,      \* the page table of vm/: kpage, is_swapped
    frametable,      \* frames in the order they were installed
    swap_table,      \* swap entries in the order they were made; upage is not in the code
    slots,           \* used slots, the complement of empty_block_sector
    disk,            \* what the slots hold
    exception_lock, page_lock, swap_lock,
    wrote,           \* what each process wrote last to each of its pages
    wild

lockVars == <<exception_lock, page_lock, swap_lock>>
swapVars == <<swap_table, slots, disk>>
tabVars == <<pte, page_entry, frametable>>
vars == <<at, req, used, mem, tabVars, swapVars, lockVars, wrote, wild>>

Slots == 0 .. SwapSize - 1
NoReq == [kind |-> "none", upage |-> None, kpage |-> None, victim |-> None,
          next |-> << >>]
Init ==
    /\ at = [p \in Procs |-> "user"]
    /\ req = [p \in Procs |-> NoReq]
    /\ used = {}
    /\ mem = [k \in KPages |-> 0]
    /\ pte = [p \in Procs |-> [u \in UPages |-> None]]
    /\ page_entry = [p \in Procs |-> << >>]
    /\ frametable = << >> /\ swap_table = << >>
    /\ slots = {} /\ disk = [s \in Slots |-> 0]
    /\ exception_lock = Nobody /\ page_lock = Nobody /\ swap_lock = Nobody
    /\ wrote = [p \in Procs |-> [u \in UPages |-> 0]]
    /\ wild = "none"

Stopped == wild # "none"
At(p, place) == ~ Stopped /\ at[p] = place
Goto(p, place) == at' = [at EXCEPT ![p] = place]
Bad(what) == /\ wild' = what
             /\ UNCHANGED <<at, req, used, mem, tabVars, swapVars, lockVars, wrote>>
Alive(p) == at[p] # "dead"
Entered(p, u) == u \in DOMAIN page_entry[p]

\* The tables of vm/; an entry that is there already is left as it is.
page_entry_insert(table, u, k) ==
    [w \in DOMAIN table \union {u} |->
        IF w \in DOMAIN table THEN table[w] ELSE [kpage |-> k, is_swapped |-> FALSE]]
page_entry_update_kpage(table, u, k) == [table EXCEPT ![u].kpage = k]
flap_swapped_flag(table, u) == [table EXCEPT ![u].is_swapped = ~ @]
frame_entry_insert(u, k, owner) == Append(frametable, [upage |-> u, kpage |-> k, owner |-> owner])
frame_delete_by_pid(table, p) ==
    LET kept[i \in 0 .. Len(table)] ==
            IF i = 0 THEN << >>
            ELSE IF table[i].owner = p THEN kept[i - 1] ELSE Append(kept[i - 1], table[i])
    IN kept[Len(table)]
swap_entry_insert(k, owner, u, slot) ==
    Append(swap_table, [owner |-> owner, kpage |-> k, upage |-> u, slot |-> slot])
swap_entry_delete(i) == SubSeq(swap_table, 1, i - 1) \o SubSeq(swap_table, i + 1, Len(swap_table))

-----------------------------------------------------------------------------
(* What makes a process need a frame.                                      *)

\* load() is through: only then does the program run.
Loaded(p) == DOMAIN page_entry[p] = Image[p]

\* The program writes to a page that is present.
Write(p, u, v) ==
    /\ At(p, "user") /\ Loaded(p) /\ pte[p][u] # None
    /\ mem' = [mem EXCEPT ![pte[p][u]] = v]
    /\ wrote' = [wrote EXCEPT ![p][u] = v]
    /\ UNCHANGED <<at, req, used, tabVars, swapVars, lockVars, wild>>

\* load_segment() and setup_stack() ask for a frame for a page.
Load(p, u) ==
    /\ At(p, "user") /\ u \in Image[p] /\ ~ Entered(p, u)
    /\ req' = [req EXCEPT ![p] = [NoReq EXCEPT !.kind = "load", !.upage = u]]
    /\ Goto(p, "get")
    /\ UNCHANGED <<used, mem, tabVars, swapVars, lockVars, wrote, wild>>

\* The program touches a page that is not present; page_fault() takes its lock.
Fault(p, u) ==
    /\ At(p, "user") /\ Loaded(p) /\ pte[p][u] = None
    /\ req' = [req EXCEPT ![p] = [NoReq EXCEPT !.kind = "fault", !.upage = u]]
    /\ Goto(p, "fault")
    /\ UNCHANGED <<used, mem, tabVars, swapVars, lockVars, wrote, wild>>

FaultLock(p) ==
    /\ At(p, "fault") /\ exception_lock = Nobody
    /\ exception_lock' = p
    /\ Goto(p, "look")
    /\ UNCHANGED <<req, used, mem, tabVars, swapVars, page_lock, swap_lock, wrote, wild>>

\* The page has come back meanwhile or is just being evicted: the access is tried
\* again.  For a page nobody has entered the message about the fault follows a null
\* entry; that faults again, and lock_acquire (&exception_lock) by its holder panics.
FaultLook(p) ==
    LET u == req[p].upage IN
    /\ At(p, "look")
    /\ IF pte[p][u] = None /\ ~ Entered(p, u) THEN Bad("null_entry")
       ELSE /\ IF pte[p][u] = None /\ page_entry[p][u].is_swapped
               THEN Goto(p, "get") /\ UNCHANGED <<req, exception_lock>>
               ELSE /\ exception_lock' = Nobody
                    /\ req' = [req EXCEPT ![p] = NoReq]
                    /\ Goto(p, "user")
            /\ UNCHANGED <<used, mem, tabVars, swapVars, page_lock, swap_lock, wrote, wild>>

-----------------------------------------------------------------------------
(* palloc_get_page (PAL_USER) and page_swap_to_disk().                     *)

AfterGet(p) == IF req[p].kind = "fault" THEN "swap_in" ELSE "map"

\* A mutant: the scan does not flip.
GetUnmarked(p) ==
    /\ At(p, "get")
    /\ IF KPages \subseteq used
       THEN Goto(p, "evict") /\ UNCHANGED <<req, used>>
       ELSE LET k == CHOOSE l \in KPages \ used : \A m \in KPages \ used : l <= m IN
              /\ used' = used
              /\ req' = [req EXCEPT ![p].kpage = k]
              /\ Goto(p, AfterGet(p))
    /\ UNCHANGED <<mem, tabVars, swapVars, lockVars, wrote, wild>>

\* bitmap_scan_and_flip() under the pool's lock; without a free page, evict one.
Get(p) ==
    /\ At(p, "get")
    /\ IF KPages \subseteq used
       THEN Goto(p, "evict") /\ UNCHANGED <<req, used>>
       ELSE LET k == CHOOSE l \in KPages \ used : \A m \in KPages \ used : l <= m IN
              /\ used' = used \union {k}
              /\ req' = [req EXCEPT ![p].kpage = k]
              /\ Goto(p, AfterGet(p))
    /\ UNCHANGED <<mem, tabVars, swapVars, lockVars, wrote, wild>>

EvictLock(p) ==
    /\ At(p, "evict") /\ page_lock = Nobody
    /\ page_lock' = p
    /\ Goto(p, "victim")
    /\ UNCHANGED <<req, used, mem, tabVars, swapVars, exception_lock, swap_lock, wrote, wild>>

\* find_swap_victim() takes the oldest frame off the table; it must be a page's.  Its
\* elem still points at the next one, if there is one.  The page entry's frame, not the
\* victim's, is handed over; page_fault() sets it after the frame is on the table, and
\* before that it names a frame that is somebody else's by now.  The assertion that the
\* two agree is commented out.
After(frames) == IF frames = << >> THEN << >> ELSE << Head(frames) >>
Victim(p) ==
    /\ At(p, "victim")
    /\ IF frametable = << >> THEN Bad("no_victim")
       ELSE LET f == Head(frametable) IN
            IF ~ Entered(f.owner, f.upage) \/ page_entry[f.owner][f.upage].is_swapped
            THEN Bad("victim_assert")
            ELSE IF page_entry[f.owner][f.upage].kpage # f.kpage THEN Bad("stale_kpage")
            ELSE /\ frametable' = Tail(frametable)
                 /\ req' = [req EXCEPT ![p].victim = f, ![p].next = After(Tail(frametable)),
                                           ![p].kpage = page_entry[f.owner][f.upage].kpage]
                 /\ Goto(p, "clear")
                 /\ UNCHANGED <<used, mem, pte, page_entry, swapVars, lockVars, wrote, wild>>

\* A mutant: the page stays mapped.
ClearSkips(p) ==
    /\ At(p, "clear")
    /\ Goto(p, "flap")
    /\ UNCHANGED <<req, used, mem, tabVars, swapVars, lockVars, wrote, wild>>

\* pagedir_clear_page(), unless the owner is gone.
Clear(p) ==
    LET v == req[p].victim IN
    /\ At(p, "clear")
    /\ pte' = IF Alive(v.owner) THEN [pte EXCEPT ![v.owner][v.upage] = None] ELSE pte
    /\ Goto(p, "flap")
    /\ UNCHANGED <<req, used, mem, page_entry, frametable, swapVars, lockVars, wrote, wild>>

\* flap_swapped_flag().
Flap(p) ==
    LET v == req[p].victim IN
    /\ At(p, "flap")
    /\ page_entry' = [page_entry EXCEPT ![v.owner] = flap_swapped_flag(@, v.upage)]
    /\ Goto(p, "out")
    /\ UNCHANGED <<req, used, mem, pte, frametable, swapVars, lockVars, wrote, wild>>

\* swap_frame_to_disk(), in one step: nobody else has swap_lock.  The first empty slot
\* is taken; with none left the assertion in swap_entry_insert() fails.
FreeSlots == Slots \ slots
SwapOut(p) ==
    LET v == req[p].victim
        s == CHOOSE t \in FreeSlots : \A r \in FreeSlots : t <= r
    IN
    /\ At(p, "out") /\ swap_lock = Nobody
    /\ IF FreeSlots = {} THEN Bad("swap_full")
       ELSE /\ slots' = slots \union {s}
            /\ disk' = [disk EXCEPT ![s] = mem[v.kpage]]
            /\ swap_table' = swap_entry_insert(v.kpage, v.owner, v.upage, s)
            /\ Goto(p, "evicted")
            /\ UNCHANGED <<req, used, mem, tabVars, lockVars, wrote, wild>>

\* frame_entry_delete() unlinks the victim's elem, which is off the list, once more: what
\* was linked in behind the list's head since is lost.  The next frame's entry may have
\* been freed by its owner's exit.
Relinked(p) == IF req[p].next = << >> THEN << >> ELSE frametable

\* The frame is cleared and handed over.
Evicted(p) ==
    /\ At(p, "evicted")
    /\ IF \E i \in DOMAIN req[p].next : ~ \E j \in DOMAIN frametable : frametable[j] = req[p].next[i]
       THEN Bad("freed_entry")
       ELSE /\ frametable' = Relinked(p)
            /\ mem' = [mem EXCEPT ![req[p].kpage] = 0]
            /\ page_lock' = Nobody
            /\ req' = [req EXCEPT ![p].victim = None, ![p].next = << >>]
            /\ Goto(p, AfterGet(p))
            /\ UNCHANGED <<used, pte, page_entry, swapVars, exception_lock, swap_lock, wrote, wild>>

-----------------------------------------------------------------------------
(* Filling the frame.                                                      *)

\* swap_disk_to_frame(): the first entry of the owner for the frame the page was in.
SwapEntries(p, k) == {i \in DOMAIN swap_table : swap_table[i].owner = p /\ swap_table[i].kpage = k}
\* The mutant leaves the slot taken.
SwapInKeepsSlot(p) ==
    LET k == page_entry[p][req[p].upage].kpage
        found == SwapEntries(p, k)
        i == CHOOSE j \in found : \A l \in found : j <= l
    IN
    /\ At(p, "swap_in") /\ swap_lock = Nobody
    /\ IF found = {} THEN Bad("no_entry")   \* returns with swap_lock held
       ELSE /\ mem' = [mem EXCEPT ![req[p].kpage] = disk[swap_table[i].slot]]
            /\ slots' = slots
            /\ swap_table' = swap_entry_delete(i)
            /\ wild' = IF swap_table[i].upage # req[p].upage THEN "other_page" ELSE wild
            /\ Goto(p, "reflap")
            /\ UNCHANGED <<req, used, tabVars, disk, lockVars, wrote>>
SwapIn(p) ==
    LET k == page_entry[p][req[p].upage].kpage
        found == SwapEntries(p, k)
        i == CHOOSE j \in found : \A l \in found : j <= l
    IN
    /\ At(p, "swap_in") /\ swap_lock = Nobody
    /\ IF found = {} THEN Bad("no_entry")   \* returns with swap_lock held
       ELSE /\ mem' = [mem EXCEPT ![req[p].kpage] = disk[swap_table[i].slot]]
            /\ slots' = slots \ {swap_table[i].slot}
            /\ swap_table' = swap_entry_delete(i)
            /\ wild' = IF swap_table[i].upage # req[p].upage THEN "other_page" ELSE wild
            /\ Goto(p, "reflap")
            /\ UNCHANGED <<req, used, tabVars, disk, lockVars, wrote>>

\* page_fault(): flap_swapped_flag().
Reflap(p) ==
    /\ At(p, "reflap")
    /\ page_entry' = [page_entry EXCEPT ![p] = flap_swapped_flag(@, req[p].upage)]
    /\ Goto(p, "map")
    /\ UNCHANGED <<req, used, mem, pte, frametable, swapVars, lockVars, wrote, wild>>

\* pagedir_set_page() with page_entry_insert() and frame_entry_insert().  load() has
\* filled the page.  From here on the page can be evicted.
Install(p) ==
    LET u == req[p].upage
        k == req[p].kpage
        load == req[p].kind = "load"
    IN
    /\ At(p, "map")
    /\ pte' = [pte EXCEPT ![p][u] = k]
    /\ page_entry' = [page_entry EXCEPT ![p] = page_entry_insert(@, u, k)]
    /\ frametable' = frame_entry_insert(u, k, p)
    /\ mem' = IF load THEN [mem EXCEPT ![k] = 0] ELSE mem
    /\ req' = IF load THEN [req EXCEPT ![p] = NoReq] ELSE req
    /\ Goto(p, IF load THEN "user" ELSE "update")
    /\ UNCHANGED <<used, swapVars, lockVars, wrote, wild>>

\* load() cannot read the page, or there is no memory for the page table that is to
\* hold it (a page that was mapped before has one): the frame is freed, the process
\* exits.
InstallFails(p) ==
    /\ At(p, "map") /\ req[p].kind = "load"
    /\ used' = used \ {req[p].kpage}
    /\ req' = [req EXCEPT ![p] = NoReq]
    /\ Goto(p, "exit")
    /\ UNCHANGED <<mem, tabVars, swapVars, lockVars, wrote, wild>>

\* page_entry_insert(), frame_entry_insert() and swap_entry_insert() do not look at
\* what malloc() returns.
Starved(p) == (At(p, "map") \/ At(p, "out")) /\ Bad("null_malloc")

\* A mutant: the fault returns with its lock.
UpdateKeepsLock(p) ==
    /\ At(p, "update")
    /\ page_entry' = [page_entry EXCEPT ![p] =
                        page_entry_update_kpage(@, req[p].upage, req[p].kpage)]
    /\ exception_lock' = exception_lock
    /\ req' = [req EXCEPT ![p] = NoReq]
    /\ Goto(p, "user")
    /\ UNCHANGED <<used, mem, pte, frametable, swapVars, page_lock, swap_lock, wrote, wild>>

\* page_fault(): page_entry_update_kpage(), and exception_lock is released.
Update(p) ==
    /\ At(p, "update")
    /\ page_entry' = [page_entry EXCEPT ![p] =
                        page_entry_update_kpage(@, req[p].upage, req[p].kpage)]
    /\ exception_lock' = Nobody
    /\ req' = [req EXCEPT ![p] = NoReq]
    /\ Goto(p, "user")
    /\ UNCHANGED <<used, mem, pte, frametable, swapVars, page_lock, swap_lock, wrote, wild>>

-----------------------------------------------------------------------------
(* thread_exit() and process_exit().                                       *)

Exit(p) ==
    /\ At(p, "user")
    /\ Goto(p, "exit")
    /\ UNCHANGED <<req, used, mem, tabVars, swapVars, lockVars, wrote, wild>>

\* frame_delete_by_pid().
ExitFrames(p) ==
    /\ At(p, "exit")
    /\ frametable' = frame_delete_by_pid(frametable, p)
    /\ Goto(p, "destroy")
    /\ UNCHANGED <<req, used, mem, pte, page_entry, swapVars, lockVars, wrote, wild>>

\* t->pagedir becomes NULL and pagedir_destroy() frees what is present, be it a frame
\* somebody has chosen to evict; the swap slots stay taken.
ExitDestroy(p) ==
    LET freed == {pte[p][u] : u \in UPages} \ {None} IN
    /\ At(p, "destroy")
    /\ IF \E q \in Procs : at[q] = "clear" /\ req[q].kpage \in freed THEN Bad("freed_frame")
       ELSE /\ used' = used \ freed
            /\ pte' = [pte EXCEPT ![p] = [u \in UPages |-> None]]
            /\ Goto(p, "dead")
            /\ UNCHANGED <<req, mem, page_entry, frametable, swapVars, lockVars, wrote, wild>>

-----------------------------------------------------------------------------
Kernel(p) ==
    \/ FaultLock(p) \/ FaultLook(p) \/ Get(p) \/ EvictLock(p) \/ Victim(p) \/ Clear(p)
    \/ Flap(p) \/ SwapOut(p) \/ Evicted(p) \/ SwapIn(p) \/ Reflap(p)
    \/ Install(p) \/ InstallFails(p) \/ Starved(p) \/ Update(p)
    \/ ExitFrames(p) \/ ExitDestroy(p)

\* The idle thread, or a program that computes.
Idle == UNCHANGED vars

Next ==
    \/ \E p \in Procs : \/ Kernel(p) \/ Exit(p)
                        \/ \E u \in UPages : \/ Load(p, u) \/ Fault(p, u)
                                             \/ \E v \in Values : Write(p, u, v)
    \/ Idle

Spec == Init /\ [][Next]_vars
FairSpec == Spec /\ \A p \in Procs : WF_vars(Kernel(p))

-----------------------------------------------------------------------------
Present == {x \in Procs \X UPages : pte[x[1]][x[2]] # None}

InSwapIn(p, u) == at[p] \in {"reflap", "map"} /\ req[p].kind = "fault" /\ req[p].upage = u

\* page_fault(), page_swap_to_disk() and the swap disk: a page that is present or about
\* to be mapped again holds what its process wrote last, through any number of
\* evictions.  The second form leaves out what follows the events wild stands for.
PagesHold ==
    \A p \in Procs, u \in UPages :
        /\ pte[p][u] # None => mem[pte[p][u]] = wrote[p][u]
        /\ InSwapIn(p, u) => mem[req[p].kpage] = wrote[p][u]
PagesHoldUnlessWild == wild = "none" => PagesHold

\* Pages that are swapped out, and slots: a page has its own slot, which nobody frees
\* or writes before the page comes back; the others are those of dead processes.  So
\* page_swap_to_disk()'s assertions about its victim hold, and swap_disk_to_frame() finds
\* the entry of every page but one whose eviction is not through: with three processes
\* one may exit meanwhile, so that the owner gets a frame and looks too early.
SwappedOut(p, u) == Entered(p, u) /\ page_entry[p][u].is_swapped
InSwapOut(p, u) == \E q \in Procs : /\ at[q] = "out" /\ req[q].victim.owner = p
                                    /\ req[q].victim.upage = u
SlotsKeep ==
    /\ wild # "victim_assert"
    /\ wild = "none" =>
        /\ slots = {swap_table[i].slot : i \in DOMAIN swap_table}
        /\ \A i, j \in DOMAIN swap_table : swap_table[i].slot = swap_table[j].slot => i = j
        /\ \A p \in Procs, u \in UPages :
              SwappedOut(p, u) /\ ~ InSwapIn(p, u) /\ ~ InSwapOut(p, u) =>
                  \E i \in SwapEntries(p, page_entry[p][u].kpage) :
                      disk[swap_table[i].slot] = wrote[p][u]

\* palloc_get_page(), eviction and exit: a frame is mapped once, or in the hands of one
\* process that fills it, and never in the pool meanwhile.
Handled(p) == at[p] \in {"swap_in", "reflap", "map"}
FramesOnce ==
    wild = "none" =>
        /\ \A x, y \in Present : pte[x[1]][x[2]] = pte[y[1]][y[2]] => x = y
        /\ \A x \in Present : pte[x[1]][x[2]] \in used
        /\ \A p \in Procs : Handled(p) =>
              /\ req[p].kpage \in used
              /\ \A x \in Present : pte[x[1]][x[2]] # req[p].kpage
              /\ \A q \in Procs : Handled(q) /\ req[q].kpage = req[p].kpage => p = q

\* The locks a page fault or an eviction takes, exception_lock before page_lock before
\* swap_lock, are given back whatever the others do, up to the events wild stands for.
\* (Who waits may find a lock taken again each time it is woken.)
LocksReturned ==
    \A p \in Procs : p \in {exception_lock, page_lock}
                       ~> (p \notin {exception_lock, page_lock} \/ Stopped)
=============================================================================
