------------------------------ MODULE PageDir ------------------------------
(***************************************************************************)
(* Page directories and the processor that uses them: userprog/pagedir.c   *)
(* of pintos2, with process_activate() and process_exit() of process.c,    *)
(* on an MMU with a translation lookaside buffer.                          *)
(*                                                                         *)
(* A thread may be preempted between a change of a page table and the      *)
(* invalidation that follows it, and between the steps in which            *)
(* process_exit() gets rid of its directory.  Memory for a page table may  *)
(* run out.  A page directory goes by its process; used and touched record *)
(* what the program did to a page since the bits were cleared.             *)
(***************************************************************************)
EXTENDS Integers

CONSTANTS Threads, UPages, Frames,
          InitDir       \* init_page_dir, which maps no user page

VARIABLE mmu

PageDirAssumption == InitDir \notin Threads

\* A page table entry, and the zero that is in a new page table.
Zero == [p |-> FALSE, page |-> 0, a |-> FALSE, d |-> FALSE, used |-> FALSE, touched |-> FALSE]
pte_create_user(kpage) == [Zero EXCEPT !.p = TRUE, !.page = kpage]
Dirs == DOMAIN mmu.dirs
With(f, x, y) == [v \in DOMAIN f \union {x} |-> IF v = x THEN y ELSE f[v]]
Running == mmu.running
InKernel == mmu.at[Running] # "user"

-----------------------------------------------------------------------------
(* External: the MMU.                                                      *)
NoTlb == [u \in {} |-> 0]

\* An entry after an access, and whether this was a walk, for a write, and a write at all.
Walked(pte, a, d, write) ==
    [pte EXCEPT !.a = pte.a \/ a, !.d = pte.d \/ d, !.used = pte.used \/ write, !.touched = TRUE]

\* A program reads or writes a page: through the TLB, or by a walk that sets the bits
\* and is remembered.  What is not present faults.
Access(u, write) ==
    LET pd == mmu.cr3
        hit == u \in DOMAIN mmu.tlb
        walk == ~ hit \/ (write /\ ~ mmu.tlb[u].d)
    IN
    /\ ~ InKernel /\ pd \in Dirs /\ u \in DOMAIN mmu.dirs[pd]
    /\ hit \/ mmu.dirs[pd][u].p
    /\ mmu' = [mmu EXCEPT
         !.dirs[pd][u] = Walked(mmu.dirs[pd][u], ~ hit, walk /\ write, write),
         !.tlb = IF walk THEN With(mmu.tlb, u, [page |-> mmu.dirs[pd][u].page, d |-> write \/ mmu.dirs[pd][u].d])
                 ELSE mmu.tlb]

-----------------------------------------------------------------------------
(* pagedir.c.  A thread works on its own directory, or on another's.       *)

\* lookup_page (pd, u, false): no page table, or the entry.
lookup_page(pd, u) == IF u \in DOMAIN mmu.dirs[pd] THEN {mmu.dirs[pd][u]} ELSE {}
Present(pd, u) == \E pte \in lookup_page(pd, u) : pte.p

\* pagedir_create() and the process_activate() that follows it in load().
pagedir_create ==
    /\ ~ InKernel /\ mmu.pagedir[Running] = InitDir /\ Running \notin Dirs
    /\ mmu' = [mmu EXCEPT !.pagedir[Running] = Running, !.cr3 = Running, !.tlb = NoTlb,
                          !.dirs = With(mmu.dirs, Running, [u \in {} |-> Zero])]

\* With create, lookup_page() makes a page table first, if there is memory.
pagedir_set_page(u, kpage) ==
    LET pd == mmu.pagedir[Running] IN
    /\ ~ InKernel /\ pd # InitDir /\ ~ Present(pd, u)
    /\ mmu' = [mmu EXCEPT !.dirs[pd] = With(mmu.dirs[pd], u, pte_create_user(kpage))]

pagedir_get_page(pd, u) == IF Present(pd, u) THEN {mmu.dirs[pd][u].page} ELSE {}
pagedir_is_dirty(pd, u) == \E pte \in lookup_page(pd, u) : pte.d
pagedir_is_accessed(pd, u) == \E pte \in lookup_page(pd, u) : pte.a

\* A change after which invalidate_pagedir (pd) is called.
Changed(pd, u, pte) ==
    mmu' = [mmu EXCEPT !.dirs[pd][u] = pte, !.at[Running] = "invalidate", !.target[Running] = pd]
pagedir_clear_page(pd, u) ==
    /\ Present(pd, u)
    /\ Changed(pd, u, [mmu.dirs[pd][u] EXCEPT !.p = FALSE])
pagedir_set_dirty(pd, u, dirty) ==
    \E pte \in lookup_page(pd, u) :
        IF dirty THEN mmu' = [mmu EXCEPT !.dirs[pd][u].d = TRUE]
        ELSE Changed(pd, u, [pte EXCEPT !.d = FALSE, !.used = FALSE])
pagedir_set_accessed(pd, u, accessed) ==
    \E pte \in lookup_page(pd, u) :
        IF accessed THEN mmu' = [mmu EXCEPT !.dirs[pd][u].a = TRUE]
        ELSE Changed(pd, u, [pte EXCEPT !.a = FALSE, !.touched = FALSE])
Change ==
    /\ ~ InKernel
    /\ \E pd \in {mmu.pagedir[t] : t \in Threads} \ {InitDir}, u \in UPages :
          \/ pagedir_clear_page(pd, u)
          \/ \E b \in BOOLEAN : pagedir_set_dirty(pd, u, b) \/ pagedir_set_accessed(pd, u, b)

\* Loading CR3 empties the TLB.
pagedir_activate(pd) == [mmu EXCEPT !.cr3 = pd, !.tlb = NoTlb]
active_pd == mmu.cr3
invalidate_pagedir ==
    LET pd == mmu.target[Running] IN
    /\ mmu.at[Running] = "invalidate"
    /\ mmu' = [(IF active_pd = pd THEN pagedir_activate(pd) ELSE mmu) EXCEPT !.at[Running] = "user",
                                                                              !.target[Running] = InitDir]

-----------------------------------------------------------------------------
(* process.c                                                               *)

\* process_activate(), on every context switch.
process_activate(next) ==
    /\ next # Running
    /\ mmu' = [pagedir_activate(mmu.pagedir[next]) EXCEPT !.running = next]

\* process_exit(): cur->pagedir = NULL, pagedir_activate (NULL), pagedir_destroy (pd).
process_exit ==
    LET s == mmu.at[Running] IN
    \/ /\ s = "user" /\ mmu.pagedir[Running] # InitDir
       /\ mmu' = [mmu EXCEPT !.pagedir[Running] = InitDir, !.at[Running] = "activate"]
    \/ /\ s = "activate"
       /\ mmu' = [pagedir_activate(InitDir) EXCEPT !.at[Running] = "destroy"]
pagedir_destroy ==
    /\ mmu.at[Running] = "destroy"
    /\ mmu' = [mmu EXCEPT !.at[Running] = "user", !.dirs = [x \in Dirs \ {Running} |-> mmu.dirs[x]]]

PageDirStart(first) ==
    [dirs |-> [x \in {} |-> NoTlb], pagedir |-> [t \in Threads |-> InitDir], cr3 |-> InitDir, tlb |-> NoTlb,
     running |-> first, at |-> [t \in Threads |-> "user"], target |-> [t \in Threads |-> InitDir]]
PageDirNext ==
    \/ \E u \in UPages : \/ \E write \in BOOLEAN : Access(u, write)
                         \/ \E k \in Frames : pagedir_set_page(u, k)
    \/ pagedir_create \/ Change \/ invalidate_pagedir \/ process_exit \/ pagedir_destroy
    \/ \E t \in Threads : process_activate(t)
PageDirSpec == (\E t \in Threads : mmu = PageDirStart(t)) /\ [][PageDirNext]_mmu

-----------------------------------------------------------------------------
\* pagedir.c with preemption anywhere: the processor never uses a directory that was
\* freed; while a program runs, what the TLB remembers is what the program's own table
\* says; and no write or access since the bits were cleared is missing from them.
TranslationExact ==
    /\ active_pd \in Dirs \union {InitDir}
    /\ ~ InKernel =>
          /\ active_pd = mmu.pagedir[Running]
          /\ \A u \in DOMAIN mmu.tlb :
                /\ pagedir_get_page(active_pd, u) = {mmu.tlb[u].page}
                /\ mmu.tlb[u].d => pagedir_is_dirty(active_pd, u)
    /\ \A pd \in Dirs : \A u \in DOMAIN mmu.dirs[pd] :
          Present(pd, u) => /\ mmu.dirs[pd][u].used => pagedir_is_dirty(pd, u)
                            /\ mmu.dirs[pd][u].touched => pagedir_is_accessed(pd, u)
=============================================================================
