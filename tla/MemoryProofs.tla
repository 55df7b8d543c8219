---------------------------- MODULE MemoryProofs ----------------------------
(***************************************************************************)
(* Proofs about the kernel's memory.                                       *)
(*                                                                         *)
(* VirtualMemory, for any number of processes, pages, frames and swap      *)
(* slots: FramesOnce, PagesHoldUnlessWild and SlotsKeep.  None of the      *)
(* three is inductive alone: what a page that comes back holds depends on  *)
(* the slot found for it, that on the frame its eviction wrote, and that   *)
(* on who had the frame.  VMInv follows a frame and a page through every   *)
(* place of the kernel, up to the first event of wild.                     *)
(*                                                                         *)
(* Malloc, for any sizes of pages, arenas and blocks, any pool and any     *)
(* requests: BlocksExact.  MallocInv adds to it, for each arena, that a    *)
(* block of it is free or handed out and never both: that is why free_cnt  *)
(* tells when nobody has a block of the arena.                             *)
(*                                                                         *)
(* Bitmap, for any number of bits and any size of an element: BitmapScans. *)
(***************************************************************************)
EXTENDS VirtualMemory, Malloc, SequenceTheorems, FiniteSetTheorems, WellFoundedInduction, TLAPS

Contents == Values \union {0}
Evicting == {"victim", "clear", "flap", "out", "evicted"}
Working == Evicting \union {"get", "evict", "swap_in", "reflap", "map"}
Places == Working \union {"update", "user", "fault", "look", "exit", "destroy", "dead"}

FrameEntry == [upage : UPages, kpage : KPages, owner : Procs]
SwapEntry == [owner : Procs, kpage : KPages, upage : UPages, slot : Slots]
PageEntry == [kpage : KPages, is_swapped : BOOLEAN]
PageTables == UNION {[D -> PageEntry] : D \in SUBSET UPages}
ReqRecords == [kind : {"none", "load", "fault"}, upage : UPages \union {None},
             kpage : KPages \union {None}, victim : FrameEntry \union {None},
             next : Seq(FrameEntry)]

\* What the variables of VirtualMemory hold.
TypeInv ==
    /\ at \in [Procs -> Places] /\ req \in [Procs -> ReqRecords]
    /\ used \subseteq KPages /\ mem \in [KPages -> Contents]
    /\ pte \in [Procs -> [UPages -> KPages \union {None}]]
    /\ page_entry \in [Procs -> PageTables]
    /\ frametable \in Seq(FrameEntry) /\ swap_table \in Seq(SwapEntry)
    /\ slots \subseteq Slots /\ disk \in [Slots -> Contents]
    /\ exception_lock \in Procs \union {Nobody} /\ page_lock \in Procs \union {Nobody}
    /\ swap_lock = Nobody
    /\ wrote \in [Procs -> [UPages -> Contents]]

\* exception_lock is held from the look at the page table to the end of the fault, and
\* page_lock from the choice of a victim to the end of its eviction.
HoldsException(p) == \/ at[p] = "look"
                     \/ at[p] \in Working \union {"update"} /\ req[p].kind = "fault"
LockInv ==
    \A p \in Procs : /\ exception_lock = p <=> HoldsException(p)
                     /\ page_lock = p <=> at[p] \in Evicting

\* A process that works on a page needs it: it is not present, and not entered yet or
\* swapped out; until it is mapped again nobody can evict it.
Needs(p) ==
    /\ at[p] \in Working \union {"fault", "look"} =>
          req[p].upage \in UPages /\ pte[p][req[p].upage] = None
    /\ at[p] \in {"fault", "look", "swap_in", "reflap"} => req[p].kind = "fault"
    /\ at[p] \in Working =>
          \/ req[p].kind = "load" /\ ~ Entered(p, req[p].upage)
          \/ req[p].kind = "fault" /\ Entered(p, req[p].upage)
             /\ page_entry[p][req[p].upage].is_swapped = (at[p] # "map")
NeedInv == \A p \in Procs : Needs(p)

\* A page that is present: its tables agree, unless its process is just about to see to
\* that, and its frame holds what was written.
PageAt(p, u, k) ==
    /\ Entered(p, u) /\ ~ page_entry[p][u].is_swapped
    /\ page_entry[p][u].kpage = k \/ (at[p] = "update" /\ req[p].upage = u)
    /\ k \in used /\ mem[k] = wrote[p][u] /\ at[p] # "dead"
PresentInv ==
    \A p \in Procs, u \in UPages :
        /\ pte[p][u] # None => PageAt(p, u, pte[p][u])
        /\ ~ Entered(p, u) => wrote[p][u] = 0

\* page_fault() about to enter the new frame: the page is there still, or has been evicted,
\* and then the entry named this frame already.
Updates(p) ==
    at[p] = "update" =>
        LET u == req[p].upage
            k == req[p].kpage
        IN /\ req[p].kind = "fault" /\ u \in UPages /\ k \in KPages /\ Entered(p, u)
           /\ pte[p][u] \in {None, k}
           /\ pte[p][u] = None => page_entry[p][u].kpage = k
UpdateInv == \A p \in Procs : Updates(p)

\* A frame is mapped once.
MappedOnce ==
    \A p, q \in Procs : \A u, w \in UPages :
        pte[p][u] # None /\ pte[p][u] = pte[q][w] => p = q /\ u = w

\* A frame in the hands of a process is used, not mapped, and in nobody else's hands.
Holding(p) == at[p] \in {"flap", "out", "evicted", "swap_in", "reflap", "map"}
Held(p) ==
    Holding(p) =>
        /\ req[p].kpage \in used
        /\ \A q \in Procs, u \in UPages : pte[q][u] # req[p].kpage
        /\ \A q \in Procs : Holding(q) /\ req[q].kpage = req[p].kpage => p = q
HeldInv == \A p \in Procs : Held(p)

\* The frame table lists pages that are present, of processes that have not left it,
\* each once.
TableInv ==
    /\ \A i \in DOMAIN frametable :
          /\ at[frametable[i].owner] \notin {"destroy", "dead"}
          /\ pte[frametable[i].owner][frametable[i].upage] = frametable[i].kpage
    /\ \A i, j \in DOMAIN frametable :
          /\ frametable[i].owner = frametable[j].owner
          /\ frametable[i].upage = frametable[j].upage
          => i = j

\* The page being evicted: present and off the table until Clear, then in its frame
\* alone until SwapOut.
Victimized(p) ==
    LET v == req[p].victim IN
    /\ at[p] \in Evicting \ {"victim"} => v \in FrameEntry /\ req[p].kpage = v.kpage
    /\ at[p] = "clear" =>
          /\ pte[v.owner][v.upage] = v.kpage
          /\ page_entry[v.owner][v.upage].kpage = v.kpage
          /\ \A i \in DOMAIN frametable :
                ~ (frametable[i].owner = v.owner /\ frametable[i].upage = v.upage)
    /\ at[p] \in {"flap", "out"} =>
          /\ pte[v.owner][v.upage] = None
          /\ Entered(v.owner, v.upage)
          /\ page_entry[v.owner][v.upage].kpage = v.kpage
          /\ page_entry[v.owner][v.upage].is_swapped = (at[p] = "out")
          /\ mem[v.kpage] = wrote[v.owner][v.upage]
          /\ ~ InSwapIn(v.owner, v.upage)
VictimInv == \A p \in Procs : Victimized(p)

\* The swap table has one entry for each page that is out, with a slot of its own that
\* holds what was written; a page on its way out or in has none.
Out(p, u) == SwappedOut(p, u) /\ ~ InSwapIn(p, u) /\ ~ InSwapOut(p, u)
EntryOf(i, p, u) == swap_table[i].owner = p /\ swap_table[i].upage = u
SlotInv ==
    /\ slots = {swap_table[i].slot : i \in DOMAIN swap_table}
    /\ \A i, j \in DOMAIN swap_table : swap_table[i].slot = swap_table[j].slot => i = j
EntryInv ==
    /\ \A i \in DOMAIN swap_table :
          LET e == swap_table[i] IN
          /\ Out(e.owner, e.upage)
          /\ page_entry[e.owner][e.upage].kpage = e.kpage
          /\ disk[e.slot] = wrote[e.owner][e.upage]
    /\ \A i, j \in DOMAIN swap_table :
          EntryOf(j, swap_table[i].owner, swap_table[i].upage) => i = j
    /\ \A p \in Procs, u \in UPages : Out(p, u) => \E i \in DOMAIN swap_table : EntryOf(i, p, u)

\* A page that has come back from disk is in the frame its process fills.
BackInv ==
    \A p \in Procs, u \in UPages :
        InSwapIn(p, u) => mem[req[p].kpage] = wrote[p][u] /\ ~ InSwapOut(p, u)

VMGood == /\ TypeInv /\ LockInv /\ NeedInv /\ PresentInv /\ UpdateInv /\ MappedOnce
          /\ HeldInv /\ TableInv /\ VictimInv /\ SlotInv /\ EntryInv /\ BackInv
Wilds == {"none", "null_entry", "no_victim", "swap_full", "freed_entry", "no_entry",
          "other_page", "freed_frame", "stale_kpage", "null_malloc"}
VMInv == wild \in Wilds /\ (wild = "none" => VMGood)

-----------------------------------------------------------------------------
(* Sets of numbers, sequences and the tables.                              *)

\* Every set of numbers has a least element: what the scans of the bitmap, of the slots
\* and of the swap table look for exists.
LEMMA LeastElement ==
    ASSUME NEW S \in SUBSET Nat, S # {}
    PROVE  \E m \in S : \A k \in S : m <= k
<1> DEFINE R == StrictSubsetOrdering(Nat)
<1> DEFINE F == FiniteSubsetsOf(Nat)
<1> DEFINE T == {0 .. m : m \in S}
<1>1. IsWellFoundedOn(R, F)
  BY FS_StrictSubsetOrderingWellFounded
<1>2. \A m \in S : 0 .. m \in F
  BY FS_Interval DEF FiniteSubsetsOf
<1>3. T \subseteq F /\ T # {}
  BY <1>2
<1>4. \E x \in T : \A y \in T : ~ (<<y, x>> \in R)
  <2> HIDE DEF R, F, T
  <2> QED BY <1>1, <1>3, WFMin
<1>5. PICK m \in S : \A y \in T : ~ (<<y, 0 .. m>> \in R)
  BY <1>4
<1>6. ASSUME NEW k \in S, k < m PROVE FALSE
  <2>1. <<0 .. k, 0 .. m>> \in R
    BY <1>6 DEF StrictSubsetOrdering
  <2> QED BY <2>1, <1>5
<1> QED BY <1>5, <1>6

\* A page table maps some user pages to entries.
LEMMA TableType ==
    ASSUME NEW x
    PROVE  x \in PageTables <=> DOMAIN x \subseteq UPages /\ x \in [DOMAIN x -> PageEntry]
BY DEF PageTables

\* A new process has an empty page table.
LEMMA EmptyTable == << >> \in PageTables /\ DOMAIN << >> = {}
<1>1. DOMAIN << >> = {} OBVIOUS
<1>2. << >> \in [DOMAIN << >> -> PageEntry] BY <1>1
<1> QED BY <1>1, <1>2, TableType

\* list_pop_front().
LEMMA PopFront ==
    ASSUME NEW E, NEW s \in Seq(E), s # << >>
    PROVE  /\ Head(s) = s[1] /\ 1 \in DOMAIN s /\ Tail(s) \in Seq(E)
           /\ \A i \in DOMAIN Tail(s) : i + 1 \in DOMAIN s /\ Tail(s)[i] = s[i + 1] /\ i + 1 # 1
<1>1. Len(s) \in Nat /\ DOMAIN s = 1 .. Len(s) /\ Len(s) # 0
  BY EmptySeq
<1>2. Head(s) = s[1] /\ Tail(s) \in Seq(E) /\ Len(Tail(s)) = Len(s) - 1
      /\ \A i \in 1 .. Len(Tail(s)) : Tail(s)[i] = s[i + 1]
  BY <1>1, HeadTailProperties
<1> QED BY <1>1, <1>2

\* list_remove() of one entry: which entries there were and are.
Without(s, i) == SubSeq(s, 1, i - 1) \o SubSeq(s, i + 1, Len(s))
RestOf(s, i, d) ==
    \E f \in [DOMAIN d -> DOMAIN s \ {i}] :
        /\ \A j \in DOMAIN d : d[j] = s[f[j]]
        /\ \A j, l \in DOMAIN d : f[j] = f[l] => j = l
        /\ \A l \in DOMAIN s \ {i} : \E j \in DOMAIN d : f[j] = l

\* list_remove() of one frame leaves the others, in their order.
LEMMA Deleted ==
    ASSUME NEW E, NEW s \in Seq(E), NEW i \in DOMAIN s
    PROVE  Without(s, i) \in Seq(E) /\ RestOf(s, i, Without(s, i))
<1> DEFINE d == Without(s, i)
<1> DEFINE a == SubSeq(s, 1, i - 1)
<1> DEFINE b == SubSeq(s, i + 1, Len(s))
<1>0. d = a \o b  BY DEF Without
<1> HIDE DEF d
<1>1. i \in 1 .. Len(s) /\ Len(s) \in Nat /\ DOMAIN s = 1 .. Len(s)
  OBVIOUS
<1>2. a \in Seq(E) /\ Len(a) = i - 1 /\ \A j \in 1 .. i - 1 : a[j] = s[j]
  <2>1. \A j \in 1 .. i - 1 : j \in DOMAIN s  BY <1>1
  <2> QED BY <1>1, <2>1, SubSeqProperties
<1>3. b \in Seq(E) /\ Len(b) = Len(s) - i /\ \A j \in 1 .. Len(s) - i : b[j] = s[i + j]
  <2>1. \A j \in i + 1 .. Len(s) : j \in DOMAIN s  BY <1>1
  <2> QED BY <1>1, <2>1, SubSeqProperties
<1> HIDE DEF a, b
<1>4. d \in Seq(E) /\ Len(d) = Len(s) - 1 /\ DOMAIN d = 1 .. Len(s) - 1
  <2>1. d \in Seq(E) /\ Len(d) = Len(a) + Len(b)  BY <1>0, <1>2, <1>3, ConcatProperties
  <2> QED BY <1>1, <1>2, <1>3, <2>1
<1>5. \A j \in 1 .. Len(s) - 1 : d[j] = IF j < i THEN s[j] ELSE s[j + 1]
  <2> TAKE j \in 1 .. Len(s) - 1
  <2>1. d[j] = IF j <= Len(a) THEN a[j] ELSE b[j - Len(a)]
    <3>1. j \in 1 .. Len(a) + Len(b)  BY <1>1, <1>2, <1>3
    <3> QED BY <1>0, <3>1, <1>2, <1>3, ConcatProperties
  <2>2. CASE j < i
    <3>1. j <= Len(a) /\ j \in 1 .. i - 1  BY <1>1, <1>2, <2>2
    <3> QED BY <3>1, <2>1, <2>2, <1>2
  <2>3. CASE ~ (j < i)
    <3>1. ~ (j <= Len(a)) /\ j - Len(a) \in 1 .. Len(s) - i /\ i + (j - Len(a)) = j + 1
      BY <1>1, <1>2, <2>3
    <3>2. b[j - Len(a)] = s[i + (j - Len(a))]  BY <3>1, <1>3
    <3> QED BY <3>1, <3>2, <2>1, <2>3
  <2> QED BY <2>2, <2>3
<1> DEFINE f == [j \in DOMAIN d |-> IF j < i THEN j ELSE j + 1]
<1>6. f \in [DOMAIN d -> DOMAIN s \ {i}]
  BY <1>1, <1>4
<1>7. \A j \in DOMAIN d : d[j] = s[f[j]]
  BY <1>1, <1>4, <1>5
<1>8. \A j, l \in DOMAIN d : f[j] = f[l] => j = l
  BY <1>1, <1>4
<1>9. \A l \in DOMAIN s \ {i} : \E j \in DOMAIN d : f[j] = l
  <2> TAKE l \in DOMAIN s \ {i}
  <2>1. CASE l < i
    <3>1. l \in DOMAIN d /\ f[l] = l  BY <1>1, <1>4, <2>1
    <3> QED BY <3>1
  <2>2. CASE l > i
    <3>1. l - 1 \in DOMAIN d /\ f[l - 1] = l  BY <1>1, <1>4, <2>2
    <3> QED BY <3>1
  <2> QED BY <1>1, <2>1, <2>2
<1>10. RestOf(s, i, d)
  BY <1>6, <1>7, <1>8, <1>9 DEF RestOf
<1> QED BY <1>4, <1>10 DEF d

\* The loop of frame_delete_by_pid(), one turn at a time.  The function it computes exists
\* by induction over the turns, that is, because no turn is the first one it fails at.
KeepStep(table, p, f, i) ==
    IF i = 0 THEN << >>
    ELSE IF table[i].owner = p THEN f[i - 1] ELSE Append(f[i - 1], table[i])

\* The loop of frame_delete_by_pid() has a result after each element.
LEMMA DeletionDefined ==
    ASSUME NEW E, NEW table \in Seq(E), NEW p
    PROVE  \E f : f = [i \in 0 .. Len(table) |-> KeepStep(table, p, f, i)]
<1> DEFINE Ok(n) == \E f : f = [i \in 0 .. n |-> KeepStep(table, p, f, i)]
<1> DEFINE Fails == {n \in Nat : ~ Ok(n)}
<1>1. Ok(0)
  <2> DEFINE f == [i \in 0 .. 0 |-> << >>]
  <2>1. f = [i \in 0 .. 0 |-> KeepStep(table, p, f, i)]  BY DEF KeepStep
  <2> QED BY <2>1
<1>2. ASSUME NEW n \in Nat, Ok(n) PROVE Ok(n + 1)
  <2>1. PICK f : f = [i \in 0 .. n |-> KeepStep(table, p, f, i)]  BY <1>2
  <2> DEFINE g == [i \in 0 .. n + 1 |-> IF i <= n THEN f[i] ELSE KeepStep(table, p, f, n + 1)]
  <2>2. \A i \in 0 .. n + 1 : g[i] = KeepStep(table, p, g, i)
     <3> TAKE i \in 0 .. n + 1
     <3>1. CASE i <= n
        <4>1. i \in 0 .. n /\ (i # 0 => i - 1 \in 0 .. n)  BY <3>1
        <4>2. f[i] = KeepStep(table, p, f, i)  BY <4>1, <2>1
        <4>3. KeepStep(table, p, g, i) = KeepStep(table, p, f, i)  BY <4>1 DEF KeepStep
        <4> QED BY <4>1, <4>2, <4>3
     <3>2. CASE i = n + 1  BY <3>2, <2>1 DEF KeepStep
     <3> QED BY <3>1, <3>2
  <2>3. g = [i \in 0 .. n + 1 |-> KeepStep(table, p, g, i)]
     <3> DEFINE gg == [i \in 0 .. n + 1 |-> KeepStep(table, p, g, i)]
     <3>1. \A i \in 0 .. n + 1 : gg[i] = KeepStep(table, p, g, i) OBVIOUS
     <3>2. g = [i \in 0 .. n + 1 |-> g[i]] OBVIOUS
     <3>3. gg = [i \in 0 .. n + 1 |-> gg[i]] OBVIOUS
     <3> HIDE DEF g, gg
     <3>4. g = gg BY <3>1, <3>2, <3>3, <2>2
     <3> QED BY <3>4 DEF gg
  <2> QED BY <2>3
<1>3. ASSUME Fails # {} PROVE FALSE
  <2>1. PICK m \in Fails : \A k \in Fails : m <= k
     <3> HIDE DEF Fails
     <3>1. Fails \subseteq Nat BY DEF Fails
     <3> QED BY <3>1, <1>3, LeastElement
  <2>2. m # 0 /\ m \in Nat  BY <1>1
  <2>3. m - 1 \in Nat /\ m - 1 \notin Fails  BY <2>1, <2>2
  <2>4. Ok(m - 1) BY <2>3
  <2> HIDE DEF Ok
  <2>5. Ok((m - 1) + 1) BY <2>3, <2>4, <1>2
  <2>6. (m - 1) + 1 = m BY <2>2
  <2> QED BY <2>5, <2>6, <2>1
<1>4. Len(table) \in Nat OBVIOUS
<1> QED BY <1>3, <1>4

\* The result of frame_delete_by_pid() is that of its last step.
LEMMA DeletionSteps ==
    ASSUME NEW E, NEW table \in Seq(E), NEW p
    PROVE  \E f : /\ frame_delete_by_pid(table, p) = f[Len(table)]
                 /\ \A i \in 0 .. Len(table) : f[i] = KeepStep(table, p, f, i)
<1> DEFINE F(f) == [i \in 0 .. Len(table) |-> KeepStep(table, p, f, i)]
<1> DEFINE kept == CHOOSE f : f = F(f)
<1>1. kept = F(kept)
  <2>1. \E f : f = F(f)  BY DeletionDefined
  <2> HIDE DEF F
  <2> QED BY <2>1
<1>2. frame_delete_by_pid(table, p) = kept[Len(table)]  BY Zenon DEF frame_delete_by_pid, KeepStep
<1>3. \A i \in 0 .. Len(table) : kept[i] = KeepStep(table, p, kept, i)
  <2> DEFINE k2 == kept
  <2>1. k2 = F(k2) BY <1>1
  <2> HIDE DEF k2
  <2>2. \A i \in 0 .. Len(table) : k2[i] = KeepStep(table, p, k2, i) BY <2>1
  <2> QED BY <2>2 DEF k2
<1> QED BY <1>2, <1>3

\* What is left are frames of the table and not p's; no two of them are the same page's.
LEMMA DeletionKept ==
    ASSUME NEW E, NEW table \in Seq(E), NEW p,
           \A i, j \in DOMAIN table :
              table[i].owner = table[j].owner /\ table[i].upage = table[j].upage => i = j
    PROVE  LET s == frame_delete_by_pid(table, p) IN
           /\ s \in Seq(E)
           /\ \A i \in DOMAIN s : s[i].owner # p /\ \E j \in DOMAIN table : s[i] = table[j]
           /\ \A i, j \in DOMAIN s : s[i].owner = s[j].owner /\ s[i].upage = s[j].upage => i = j
<1>1. PICK f : /\ frame_delete_by_pid(table, p) = f[Len(table)]
               /\ \A i \in 0 .. Len(table) : f[i] = KeepStep(table, p, f, i)
  BY DeletionSteps
<1> DEFINE Ok(n) == /\ f[n] \in Seq(E)
                    /\ \A i \in DOMAIN f[n] :
                          f[n][i].owner # p /\ \E j \in 1 .. n : f[n][i] = table[j]
                    /\ \A i, j \in DOMAIN f[n] :
                          f[n][i].owner = f[n][j].owner /\ f[n][i].upage = f[n][j].upage => i = j
<1> DEFINE Fails == {n \in 0 .. Len(table) : ~ Ok(n)}
<1>2. Ok(0)
  <2>1. f[0] = << >>  BY <1>1 DEF KeepStep
  <2> QED BY <2>1
<1>3. ASSUME NEW n \in 0 .. Len(table) - 1, Ok(n) PROVE Ok(n + 1)
  <2>0. n \in Nat /\ n + 1 \in 1 .. Len(table) /\ n + 1 \in DOMAIN table /\ table[n + 1] \in E OBVIOUS
  <2>1. f[n + 1] = IF table[n + 1].owner = p THEN f[n] ELSE Append(f[n], table[n + 1])
    BY <2>0, <1>1 DEF KeepStep
  <2>2. CASE table[n + 1].owner = p
    <3>1. f[n + 1] = f[n] BY <2>1, <2>2
    <3> QED BY <3>1, <1>3, <2>0
  <2>3. CASE table[n + 1].owner # p
    <3>1. PICK s \in Seq(E) : s = f[n]  BY <1>3
    <3>2. PICK e \in E : e = table[n + 1] BY <2>0
    <3>3. f[n + 1] = Append(s, e)  BY <3>1, <3>2, <2>1, <2>3
    <3>4. \A i \in DOMAIN s : s[i].owner # p /\ \E j \in 1 .. n : s[i] = table[j] BY <3>1, <1>3
    <3>5. \A i, j \in DOMAIN s : s[i].owner = s[j].owner /\ s[i].upage = s[j].upage => i = j BY <3>1, <1>3
    <3>6. \A i \in DOMAIN s : ~ (s[i].owner = e.owner /\ s[i].upage = e.upage)
      BY <3>4, <3>2, <2>0
    <3>7. /\ Append(s, e) \in Seq(E) /\ DOMAIN Append(s, e) = 1 .. Len(s) + 1 /\ Append(s, e)[Len(s) + 1] = e
          /\ \A i \in 1 .. Len(s) : Append(s, e)[i] = s[i]
          /\ DOMAIN s = 1 .. Len(s) /\ Len(s) \in Nat
      OBVIOUS
    <3>8. \A i \in 1 .. Len(s) + 1 : i \in 1 .. Len(s) \/ i = Len(s) + 1  BY <3>7
    <3>9. \A i \in DOMAIN Append(s, e) :
             Append(s, e)[i].owner # p /\ \E j \in 1 .. n + 1 : Append(s, e)[i] = table[j]
      BY <3>7, <3>8, <3>4, <3>2, <2>3, <2>0
    <3>10. \A i, j \in DOMAIN Append(s, e) :
              Append(s, e)[i].owner = Append(s, e)[j].owner /\ Append(s, e)[i].upage = Append(s, e)[j].upage => i = j
      BY <3>7, <3>8, <3>5, <3>6
    <3>11. PICK a : a = Append(s, e)  OBVIOUS
    <3>12. /\ a \in Seq(E)
           /\ \A i \in DOMAIN a : a[i].owner # p /\ \E j \in 1 .. n + 1 : a[i] = table[j]
           /\ \A i, j \in DOMAIN a : a[i].owner = a[j].owner /\ a[i].upage = a[j].upage => i = j
      BY <3>7, <3>9, <3>10, <3>11
    <3>13. f[n + 1] = a  BY <3>3, <3>11
    <3> QED BY <3>12, <3>13
  <2> QED BY <2>2, <2>3
<1>4. ASSUME Fails # {} PROVE FALSE
  <2>1. PICK m \in Fails : \A k \in Fails : m <= k
     <3> HIDE DEF Fails
     <3>1. Fails \subseteq Nat BY DEF Fails
     <3> QED BY <3>1, <1>4, LeastElement
  <2>2. m # 0 /\ m \in 0 .. Len(table)
    <3> HIDE DEF Ok
    <3> QED BY <1>2, <2>1
  <2>3. m - 1 \in 0 .. Len(table) - 1 /\ m - 1 \notin Fails
    <3> HIDE DEF Ok
    <3> QED BY <2>1, <2>2
  <2> HIDE DEF Ok
  <2>5. Ok((m - 1) + 1) BY <2>3, <1>3
  <2>6. (m - 1) + 1 = m BY <2>2
  <2> QED BY <2>5, <2>6, <2>1
<1>5. Ok(Len(table))
  <2> HIDE DEF Ok
  <2> QED BY <1>4
<1> QED BY <1>5, <1>1

-----------------------------------------------------------------------------
(* Steps that touch nothing but where a process is and what it works on.   *)

Others(p) == \A q \in Procs : q # p => at'[q] = at[q] /\ req'[q] = req[q]
Outside == {"user", "fault", "look", "get", "evict", "victim", "exit"}

\* The requests that load_segment() and page_fault() begin with.
LEMMA RequestType ==
    /\ NoReq \in ReqRecords
    /\ \A u \in UPages : /\ [NoReq EXCEPT !.kind = "load", !.upage = u] \in ReqRecords
                         /\ [NoReq EXCEPT !.kind = "fault", !.upage = u] \in ReqRecords
<1>1. << >> \in Seq(FrameEntry)  OBVIOUS
<1> QED BY <1>1 DEF NoReq, ReqRecords

\* The fields of the entries of the frame table and the swap table.
LEMMA EntryTypes ==
    ASSUME TypeInv
    PROVE  /\ \A i \in DOMAIN frametable :
                 /\ frametable[i] \in FrameEntry /\ frametable[i].owner \in Procs
                 /\ frametable[i].upage \in UPages /\ frametable[i].kpage \in KPages
           /\ \A i \in DOMAIN swap_table :
                 /\ swap_table[i] \in SwapEntry /\ swap_table[i].owner \in Procs
                 /\ swap_table[i].upage \in UPages /\ swap_table[i].kpage \in KPages
                 /\ swap_table[i].slot \in Slots
<1>1. \A i \in DOMAIN frametable : frametable[i] \in FrameEntry
  BY DEF TypeInv
<1>2. \A i \in DOMAIN swap_table : swap_table[i] \in SwapEntry
  BY DEF TypeInv
<1> QED BY <1>1, <1>2 DEF FrameEntry, SwapEntry

\* Which pages are out depends on the flags and on who swaps in or out.
LEMMA OutKept ==
    ASSUME TypeInv, NEW p \in Procs, Others(p), page_entry' = page_entry,
           at[p] # "out", at'[p] # "out",
           at[p] \in {"reflap", "map"} => req[p].kind # "fault",
           at'[p] \in {"reflap", "map"} => req'[p].kind # "fault"
    PROVE  \A q \in Procs, u \in UPages :
              /\ InSwapIn(q, u)' = InSwapIn(q, u)
              /\ InSwapOut(q, u)' = InSwapOut(q, u)
              /\ SwappedOut(q, u)' = SwappedOut(q, u)
              /\ Out(q, u)' = Out(q, u)
<1> TAKE q \in Procs, u \in UPages
<1>1. InSwapIn(q, u)' = InSwapIn(q, u)
  BY DEF Others, InSwapIn
<1>2. InSwapOut(q, u)' = InSwapOut(q, u)
  BY DEF Others, InSwapOut
<1>3. SwappedOut(q, u)' = SwappedOut(q, u)
  BY DEF SwappedOut, Entered
<1> QED BY <1>1, <1>2, <1>3 DEF Out

\* A step that leaves the swap table, its slots and the page tables alone keeps EntryInv.
LEMMA EntriesKept ==
    ASSUME TypeInv, EntryInv, UNCHANGED <<swap_table, disk, page_entry, wrote>>,
           \A q \in Procs, u \in UPages : Out(q, u)' = Out(q, u)
    PROVE  EntryInv'
<1>1. \A i \in DOMAIN swap_table : swap_table[i].owner \in Procs /\ swap_table[i].upage \in UPages
  BY EntryTypes
<1>2. \A i \in DOMAIN swap_table : Out(swap_table[i].owner, swap_table[i].upage)'
  BY <1>1 DEF EntryInv
<1> QED BY <1>1, <1>2 DEF EntryInv, EntryOf

\* So does one that changes page tables, but not where a page that is out was.
LEMMA EntriesMoved ==
    ASSUME TypeInv, EntryInv, UNCHANGED <<swap_table, disk, wrote>>,
           \A q \in Procs, u \in UPages : Out(q, u)' = Out(q, u),
           \A q \in Procs, u \in UPages :
               Out(q, u) => page_entry'[q][u].kpage = page_entry[q][u].kpage
    PROVE  EntryInv'
<1>1. \A i \in DOMAIN swap_table : swap_table[i].owner \in Procs /\ swap_table[i].upage \in UPages
  BY EntryTypes
<1>2. \A i \in DOMAIN swap_table :
         /\ Out(swap_table[i].owner, swap_table[i].upage)
         /\ Out(swap_table[i].owner, swap_table[i].upage)'
         /\ page_entry'[swap_table[i].owner][swap_table[i].upage].kpage = swap_table[i].kpage
  BY <1>1 DEF EntryInv
<1> QED BY <1>1, <1>2 DEF EntryInv, EntryOf

\* A step that leaves the page tables alone and does not map a page.
LEMMA UpdatesKept ==
    ASSUME UpdateInv, NEW p \in Procs, Others(p), at'[p] # "update", UNCHANGED <<pte, page_entry>>
    PROVE  UpdateInv'
BY DEF UpdateInv, Updates, Others, Entered

\* A step of a process outside the frame code that changes no table keeps what is said
\* of them.
LEMMA QuietStep ==
    ASSUME VMGood, NEW p \in Procs, Others(p), at[p] \in Outside, at'[p] \in Outside,
           UNCHANGED <<used, mem, tabVars, swapVars, wrote>>
    PROVE  PresentInv' /\ UpdateInv' /\ MappedOnce' /\ HeldInv' /\ TableInv' /\ VictimInv'
           /\ SlotInv' /\ EntryInv' /\ BackInv'
<1> USE DEF VMGood, tabVars, swapVars, Outside
<1>0. \A q \in Procs, u \in UPages :
              /\ InSwapIn(q, u)' = InSwapIn(q, u)
              /\ InSwapOut(q, u)' = InSwapOut(q, u)
              /\ Out(q, u)' = Out(q, u)
  BY OutKept
<1>1. PresentInv'
  BY DEF PresentInv, PageAt, Entered, Others
<1>2. MappedOnce'
  BY DEF MappedOnce
<1>3. HeldInv'
  BY DEF HeldInv, Held, Holding, Others
<1>4. TableInv'
  <2>1. \A i \in DOMAIN frametable : frametable[i].owner \in Procs
    BY EntryTypes
  <2> QED BY <2>1 DEF TableInv, Others
<1>5. VictimInv'
  <2>1. ASSUME NEW q \in Procs, at'[q] \in Evicting \ {"victim"} PROVE Victimized(q)'
    <3>1. at'[q] = at[q] /\ req'[q] = req[q] /\ Victimized(q)
      BY <2>1 DEF Others, VictimInv, Evicting
    <3>2. PICK v \in FrameEntry : v = req[q].victim /\ v.owner \in Procs /\ v.upage \in UPages
      BY <2>1, <3>1 DEF Victimized, FrameEntry
    <3>3. InSwapIn(v.owner, v.upage)' = InSwapIn(v.owner, v.upage)  BY <1>0, <3>2
    <3> QED BY <3>1, <3>2, <3>3 DEF Victimized, Entered
  <2> QED BY <2>1 DEF VictimInv, Victimized, Evicting
<1>6. SlotInv'
  BY DEF SlotInv
<1>7. EntryInv'
  BY <1>0, EntriesKept
<1>8. BackInv'
  BY <1>0 DEF BackInv, InSwapIn, Others
<1>9. UpdateInv'
  BY UpdatesKept
<1> QED BY <1>1, <1>2, <1>3, <1>4, <1>5, <1>6, <1>7, <1>8, <1>9

\* load_segment() asking for a frame keeps VMGood.
LEMMA LoadStep ==
    ASSUME VMGood, NEW p \in Procs, NEW u \in UPages, Load(p, u)
    PROVE  VMGood'
<1> USE DEF VMGood
<1>1. /\ at[p] = "user" /\ at' = [at EXCEPT ![p] = "get"] /\ ~ Entered(p, u)
      /\ req' = [req EXCEPT ![p] = [NoReq EXCEPT !.kind = "load", !.upage = u]]
      /\ UNCHANGED <<used, mem, tabVars, swapVars, lockVars, wrote>>
  BY DEF Load, At, Goto
<1>2. /\ at'[p] = "get" /\ Others(p) /\ req'[p].kind = "load" /\ req'[p].upage = u
      /\ at' \in [Procs -> Places] /\ req' \in [Procs -> ReqRecords]
  BY <1>1, RequestType DEF Others, TypeInv, NoReq, Places, Working
<1>3. TypeInv'
  BY <1>1, <1>2 DEF TypeInv, tabVars, swapVars, lockVars
<1>4. LockInv'
  BY <1>1, <1>2 DEF LockInv, HoldsException, Others, lockVars, Working, Evicting
<1>5. NeedInv'
  <2>1. pte[p][u] = None  BY <1>1 DEF PresentInv, PageAt
  <2> QED BY <1>1, <1>2, <2>1 DEF NeedInv, Needs, Others, tabVars, Entered, SwappedOut, Working, Evicting
<1> QED BY <1>1, <1>2, <1>3, <1>4, <1>5, QuietStep DEF Outside

\* The beginning of page_fault() keeps VMGood.
LEMMA FaultStep ==
    ASSUME VMGood, NEW p \in Procs, NEW u \in UPages, Fault(p, u)
    PROVE  VMGood'
<1> USE DEF VMGood
<1>1. /\ at[p] = "user" /\ at' = [at EXCEPT ![p] = "fault"] /\ pte[p][u] = None
      /\ req' = [req EXCEPT ![p] = [NoReq EXCEPT !.kind = "fault", !.upage = u]]
      /\ UNCHANGED <<used, mem, tabVars, swapVars, lockVars, wrote>>
  BY DEF Fault, At, Goto
<1>2. /\ at'[p] = "fault" /\ Others(p) /\ req'[p].kind = "fault" /\ req'[p].upage = u
      /\ at' \in [Procs -> Places] /\ req' \in [Procs -> ReqRecords]
  BY <1>1, RequestType DEF Others, TypeInv, NoReq, Places, Working
<1>3. TypeInv'
  BY <1>1, <1>2 DEF TypeInv, tabVars, swapVars, lockVars
<1>4. LockInv'
  BY <1>1, <1>2 DEF LockInv, HoldsException, Others, lockVars, Working, Evicting
<1>5. NeedInv'
  BY <1>1, <1>2 DEF NeedInv, Needs, Others, tabVars, Entered, SwappedOut, Working, Evicting
<1> QED BY <1>1, <1>2, <1>3, <1>4, <1>5, QuietStep DEF Outside

\* page_fault() taking its lock keeps VMGood.
LEMMA FaultLockStep ==
    ASSUME VMGood, NEW p \in Procs, FaultLock(p)
    PROVE  VMGood'
<1> USE DEF VMGood
<1>1. /\ at[p] = "fault" /\ at' = [at EXCEPT ![p] = "look"] /\ req' = req
      /\ exception_lock = Nobody /\ exception_lock' = p
      /\ UNCHANGED <<used, mem, tabVars, swapVars, page_lock, swap_lock, wrote>>
  BY DEF FaultLock, At, Goto
<1>2. at'[p] = "look" /\ Others(p) /\ at' \in [Procs -> Places]
  BY <1>1 DEF Others, TypeInv, Places, Working
<1>3. TypeInv'
  BY <1>1, <1>2 DEF TypeInv, tabVars, swapVars
<1>4. LockInv'
  BY <1>1, <1>2, VirtualMemoryAssumption DEF LockInv, HoldsException, Others, Working, Evicting
<1>5. NeedInv'
  BY <1>1, <1>2 DEF NeedInv, Needs, Others, tabVars, Entered, SwappedOut, Working, Evicting
<1> QED BY <1>1, <1>2, <1>3, <1>4, <1>5, QuietStep DEF Outside

\* page_fault() looking the page up keeps VMGood unless it finds nothing.
LEMMA FaultLookStep ==
    ASSUME VMGood, NEW p \in Procs, FaultLook(p), wild' = "none"
    PROVE  VMGood'
<1> USE DEF VMGood
<1>1. /\ at[p] = "look" /\ UNCHANGED <<used, mem, tabVars, swapVars, page_lock, swap_lock, wrote>>
      /\ \/ /\ SwappedOut(p, req[p].upage) /\ at' = [at EXCEPT ![p] = "get"]
            /\ UNCHANGED <<req, exception_lock>>
         \/ /\ exception_lock' = Nobody /\ req' = [req EXCEPT ![p] = NoReq]
            /\ at' = [at EXCEPT ![p] = "user"]
  BY DEF FaultLook, At, Stopped, Goto, Bad, SwappedOut
<1>2. /\ at'[p] \in {"get", "user"} /\ Others(p)
      /\ at' \in [Procs -> Places] /\ req' \in [Procs -> ReqRecords]
  BY <1>1, RequestType DEF Others, TypeInv, Places, Working
<1>3. TypeInv'
  BY <1>1, <1>2 DEF TypeInv, tabVars, swapVars
<1>4. LockInv'
  <2>1. CASE at' = [at EXCEPT ![p] = "get"] /\ UNCHANGED <<req, exception_lock>>
    <3>1. at'[p] = "get" /\ req[p].kind = "fault"
      BY <1>1, <2>1 DEF TypeInv, NeedInv, Needs
    <3> QED BY <1>1, <1>2, <2>1, <3>1 DEF LockInv, HoldsException, Others, Working, Evicting
  <2>2. CASE exception_lock' = Nobody /\ at' = [at EXCEPT ![p] = "user"]
    <3>1. at'[p] = "user"
      BY <1>1, <2>2 DEF TypeInv
    <3> QED BY <1>1, <1>2, <2>2, <3>1, VirtualMemoryAssumption
         DEF LockInv, HoldsException, Others, Working, Evicting
  <2> QED BY <1>1, <2>1, <2>2
<1>5. NeedInv'
  <2>1. \A q \in Procs : q # p => Needs(q)'
    BY <1>1, <1>2 DEF NeedInv, Needs, Others, tabVars, Entered, SwappedOut
  <2>2. Needs(p)'
    BY <1>1, <1>2 DEF NeedInv, Needs, Others, tabVars, Entered, SwappedOut, Working, Evicting, TypeInv
  <2> QED BY <2>1, <2>2 DEF NeedInv
<1> QED BY <1>1, <1>2, <1>3, <1>4, <1>5, QuietStep DEF Outside

\* page_swap_to_disk() taking its lock keeps VMGood.
LEMMA EvictLockStep ==
    ASSUME VMGood, NEW p \in Procs, EvictLock(p)
    PROVE  VMGood'
<1> USE DEF VMGood
<1>1. /\ at[p] = "evict" /\ at' = [at EXCEPT ![p] = "victim"] /\ req' = req
      /\ page_lock = Nobody /\ page_lock' = p
      /\ UNCHANGED <<used, mem, tabVars, swapVars, exception_lock, swap_lock, wrote>>
  BY DEF EvictLock, At, Goto
<1>2. at'[p] = "victim" /\ Others(p) /\ at' \in [Procs -> Places]
  BY <1>1 DEF Others, TypeInv, Places, Working, Evicting
<1>3. TypeInv'
  BY <1>1, <1>2 DEF TypeInv, tabVars, swapVars
<1>4. LockInv'
  BY <1>1, <1>2, VirtualMemoryAssumption DEF LockInv, HoldsException, Others, Working, Evicting
<1>5. NeedInv'
  BY <1>1, <1>2 DEF NeedInv, Needs, Others, tabVars, Entered, SwappedOut, Working, Evicting
<1> QED BY <1>1, <1>2, <1>3, <1>4, <1>5, QuietStep DEF Outside

\* The beginning of process_exit() keeps VMGood.
LEMMA ExitStep ==
    ASSUME VMGood, NEW p \in Procs, Exit(p)
    PROVE  VMGood'
<1> USE DEF VMGood
<1>1. /\ at[p] = "user" /\ at' = [at EXCEPT ![p] = "exit"] /\ req' = req
      /\ UNCHANGED <<used, mem, tabVars, swapVars, lockVars, wrote>>
  BY DEF Exit, At, Goto
<1>2. at'[p] = "exit" /\ Others(p) /\ at' \in [Procs -> Places]
  BY <1>1 DEF Others, TypeInv, Places, Working
<1>3. TypeInv'
  BY <1>1, <1>2 DEF TypeInv, tabVars, swapVars, lockVars
<1>4. LockInv'
  BY <1>1, <1>2 DEF LockInv, HoldsException, Others, lockVars, Working, Evicting
<1>5. NeedInv'
  BY <1>1, <1>2 DEF NeedInv, Needs, Others, tabVars, Entered, SwappedOut, Working, Evicting
<1> QED BY <1>1, <1>2, <1>3, <1>4, <1>5, QuietStep DEF Outside

-----------------------------------------------------------------------------
(* Getting a frame.                                                        *)

\* bitmap_scan_and_flip() finds a page that is not used.
LEMMA FreePage ==
    ASSUME ~ (KPages \subseteq used)
    PROVE  (CHOOSE l \in KPages \ used : \A m \in KPages \ used : l <= m) \in KPages \ used
<1>1. KPages \ used \in SUBSET Nat /\ KPages \ used # {}
  BY VirtualMemoryAssumption DEF KPages
<1>2. \E l \in KPages \ used : \A m \in KPages \ used : l <= m
  <2> DEFINE S == KPages \ used
  <2>1. S \in SUBSET Nat /\ S # {}  BY <1>1
  <2> HIDE DEF S
  <2>2. \E l \in S : \A m \in S : l <= m  BY <2>1, LeastElement
  <2> QED BY <2>2 DEF S
<1> QED BY <1>2

\* palloc_get_page() for a frame keeps VMGood.
LEMMA GetStep ==
    ASSUME VMGood, NEW p \in Procs, Get(p)
    PROVE  VMGood'
<1> USE DEF VMGood
<1>1. at[p] = "get" /\ UNCHANGED <<mem, tabVars, swapVars, lockVars, wrote>>
  BY DEF Get, At
<1>2. CASE KPages \subseteq used
  <2>1. at' = [at EXCEPT ![p] = "evict"] /\ UNCHANGED <<req, used>>
    BY <1>2 DEF Get, Goto
  <2>2. at'[p] = "evict" /\ Others(p) /\ at' \in [Procs -> Places]
    BY <1>1, <2>1 DEF Others, TypeInv, Places, Working
  <2>3. TypeInv'
    BY <1>1, <2>1, <2>2 DEF TypeInv, tabVars, swapVars, lockVars
  <2>4. LockInv'
    BY <1>1, <2>1, <2>2 DEF LockInv, HoldsException, Others, lockVars, Working, Evicting
  <2>5. NeedInv'
    BY <1>1, <2>1, <2>2 DEF NeedInv, Needs, Others, tabVars, Entered, SwappedOut, Working, Evicting
  <2> QED BY <1>1, <2>1, <2>2, <2>3, <2>4, <2>5, QuietStep DEF Outside
<1>3. CASE ~ (KPages \subseteq used)
  <2>1. PICK k \in KPages \ used : /\ used' = used \union {k}
                                   /\ req' = [req EXCEPT ![p].kpage = k]
                                   /\ at' = [at EXCEPT ![p] = AfterGet(p)]
    BY <1>3, FreePage DEF Get, Goto
  <2>2. /\ at'[p] \in {"swap_in", "map"} /\ Others(p) /\ at' \in [Procs -> Places]
        /\ at'[p] = IF req[p].kind = "fault" THEN "swap_in" ELSE "map"
    BY <1>1, <2>1 DEF Others, TypeInv, Places, Working, AfterGet
  <2>3. /\ req' \in [Procs -> ReqRecords] /\ req'[p].kpage = k /\ req'[p].kind = req[p].kind
        /\ req'[p].upage = req[p].upage
    BY <2>1 DEF TypeInv, ReqRecords
  <2>4. TypeInv'
    BY <1>1, <2>1, <2>2, <2>3 DEF TypeInv, tabVars, swapVars, lockVars
  <2>5. LockInv'
    BY <1>1, <2>2, <2>3 DEF LockInv, HoldsException, Others, lockVars, Working, Evicting
  <2>6. NeedInv'
    <3>1. \A q \in Procs : q # p => Needs(q)'
      BY <1>1, <2>2 DEF NeedInv, Needs, Others, tabVars, Entered, SwappedOut
    <3>2. Needs(p)'
      BY <1>1, <2>2, <2>3 DEF NeedInv, Needs, tabVars, Entered, SwappedOut, Working, Evicting
    <3> QED BY <3>1, <3>2 DEF NeedInv
  <2>7. \A q \in Procs, u \in UPages :
              /\ InSwapIn(q, u)' = InSwapIn(q, u)
              /\ InSwapOut(q, u)' = InSwapOut(q, u)
              /\ Out(q, u)' = Out(q, u)
    BY <1>1, <2>2, <2>3, OutKept DEF tabVars
  <2>8. PresentInv'
    BY <1>1, <2>1, <2>2 DEF PresentInv, PageAt, Entered, Others, tabVars
  <2>9. MappedOnce'
    BY <1>1 DEF MappedOnce, tabVars
  <2>10. HeldInv'
    <3>1. \A q \in Procs, u \in UPages : pte[q][u] # k
      BY <2>1, VirtualMemoryAssumption DEF PresentInv, PageAt
    <3>2. \A q \in Procs : Holding(q) => req[q].kpage # k
      BY <2>1 DEF HeldInv, Held
    <3> QED BY <1>1, <2>1, <2>2, <2>3, <3>1, <3>2 DEF HeldInv, Held, Holding, Others, tabVars
  <2>11. TableInv'
    <3>1. \A i \in DOMAIN frametable : frametable[i].owner \in Procs
      BY EntryTypes
    <3> QED BY <1>1, <2>2, <3>1 DEF TableInv, Others, tabVars
  <2>12. VictimInv'
    <3>1. ASSUME NEW q \in Procs, at'[q] \in Evicting \ {"victim"} PROVE Victimized(q)'
      <4>1. at'[q] = at[q] /\ req'[q] = req[q] /\ Victimized(q)
        BY <1>1, <2>2, <3>1 DEF Others, VictimInv, Evicting
      <4>2. PICK v \in FrameEntry : v = req[q].victim /\ v.owner \in Procs /\ v.upage \in UPages
        BY <3>1, <4>1 DEF Victimized, FrameEntry
      <4>3. InSwapIn(v.owner, v.upage)' = InSwapIn(v.owner, v.upage)  BY <2>7, <4>2
      <4> QED BY <1>1, <4>1, <4>2, <4>3 DEF Victimized, Entered, tabVars
    <3> QED BY <3>1 DEF VictimInv, Victimized, Evicting
  <2>13. SlotInv'
    BY <1>1 DEF SlotInv, swapVars
  <2>14. EntryInv'
    BY <1>1, <2>7, EntriesKept DEF swapVars, tabVars
  <2>15. BackInv'
    BY <1>1, <2>2, <2>3, <2>7 DEF BackInv, InSwapIn, Others
  <2>16. UpdateInv'
    BY <1>1, <2>2, UpdatesKept DEF tabVars
  <2> QED BY <2>4, <2>5, <2>6, <2>8, <2>9, <2>10, <2>11, <2>12, <2>13, <2>14, <2>15, <2>16
<1> QED BY <1>2, <1>3

-----------------------------------------------------------------------------
(* Eviction.                                                               *)

\* Only one process evicts at a time.
LEMMA OneEvicts ==
    ASSUME LockInv, NEW p \in Procs, at[p] \in Evicting
    PROVE  \A q \in Procs : q # p => at[q] \notin Evicting
BY DEF LockInv

\* The page at the head of the frame table is present: its assertions hold.
LEMMA HeadIsPage ==
    ASSUME VMGood, frametable # << >>
    PROVE  /\ Head(frametable) \in FrameEntry
           /\ Head(frametable) = frametable[1] /\ 1 \in DOMAIN frametable
           /\ LET f == Head(frametable) IN
              /\ f.owner \in Procs /\ f.upage \in UPages /\ f.kpage \in KPages
              /\ pte[f.owner][f.upage] = f.kpage
              /\ Entered(f.owner, f.upage) /\ ~ page_entry[f.owner][f.upage].is_swapped
<1>1. frametable \in Seq(FrameEntry)
  BY DEF VMGood, TypeInv
<1>2. Head(frametable) = frametable[1] /\ 1 \in DOMAIN frametable
  BY <1>1, PopFront
<1>3. PICK f : f = frametable[1]  OBVIOUS
<1>4. f \in FrameEntry /\ f.owner \in Procs /\ f.upage \in UPages /\ f.kpage \in KPages
  BY <1>2, <1>3, EntryTypes DEF VMGood
<1>5. pte[f.owner][f.upage] = f.kpage
  BY <1>2, <1>3 DEF VMGood, TableInv
<1>6. Entered(f.owner, f.upage) /\ ~ page_entry[f.owner][f.upage].is_swapped
  BY <1>4, <1>5, VirtualMemoryAssumption DEF VMGood, PresentInv, PageAt
<1> QED BY <1>2, <1>3, <1>4, <1>5, <1>6

\* find_swap_victim() keeps VMGood.
LEMMA VictimStep ==
    ASSUME VMGood, NEW p \in Procs, Victim(p), wild' = "none"
    PROVE  VMGood'
<1> USE DEF VMGood
<1>1. /\ at[p] = "victim" /\ frametable # << >> /\ frametable' = Tail(frametable)
      /\ req' = [req EXCEPT ![p].victim = Head(frametable),
                            ![p].next = After(Tail(frametable)),
                            ![p].kpage = page_entry[Head(frametable).owner][Head(frametable).upage].kpage]
      /\ page_entry[Head(frametable).owner][Head(frametable).upage].kpage = Head(frametable).kpage
      /\ at' = [at EXCEPT ![p] = "clear"]
      /\ UNCHANGED <<used, mem, pte, page_entry, swapVars, lockVars, wrote>>
  BY DEF Victim, At, Stopped, Bad, Goto
<1>0. /\ at[p] = "victim" /\ UNCHANGED <<used, mem, pte, page_entry, swapVars, lockVars, wrote>>
  BY <1>1
<1>2. PICK v \in FrameEntry : v = Head(frametable)
  BY <1>1, HeadIsPage
<1>3. /\ v = frametable[1] /\ 1 \in DOMAIN frametable
      /\ v.owner \in Procs /\ v.upage \in UPages /\ v.kpage \in KPages
      /\ pte[v.owner][v.upage] = v.kpage
      /\ page_entry[v.owner][v.upage].kpage = v.kpage
  BY <1>1, <1>2, HeadIsPage
<1>4. PICK n \in Seq(FrameEntry) : n = After(Tail(frametable))
  <2>1. PICK s \in Seq(FrameEntry) : s = Tail(frametable)
    BY <1>1, PopFront DEF TypeInv
  <2>2. CASE s = << >>  BY <2>1, <2>2 DEF After
  <2>3. CASE s # << >>
    <3>1. Head(s) \in FrameEntry  BY <2>3, HeadTailProperties
    <3>2. << Head(s) >> \in Seq(FrameEntry)  BY <3>1
    <3> QED BY <2>1, <2>3, <3>2 DEF After
  <2> QED BY <2>2, <2>3
<1>5. req' = [req EXCEPT ![p].victim = v, ![p].next = n, ![p].kpage = v.kpage]
  BY <1>1, <1>2, <1>3, <1>4
<1>6. at'[p] = "clear" /\ Others(p) /\ at' \in [Procs -> Places]
  BY <1>1, <1>5 DEF Others, TypeInv, Places, Working, Evicting
<1>7. /\ req' \in [Procs -> ReqRecords] /\ req'[p].kpage = v.kpage /\ req'[p].victim = v
      /\ req'[p].kind = req[p].kind /\ req'[p].upage = req[p].upage
  <2>1. PICK r \in ReqRecords : r = req[p]  BY DEF TypeInv
  <2>2. PICK r2 : r2 = [r EXCEPT !.victim = v, !.next = n, !.kpage = v.kpage]  OBVIOUS
  <2>3. req' = [req EXCEPT ![p] = r2]  BY <1>5, <2>1, <2>2 DEF TypeInv
  <2>4. r2 \in ReqRecords /\ r2.kpage = v.kpage /\ r2.victim = v /\ r2.kind = r.kind /\ r2.upage = r.upage
    BY <1>3, <2>2 DEF ReqRecords
  <2> QED BY <2>1, <2>3, <2>4 DEF TypeInv
<1>8. /\ frametable' \in Seq(FrameEntry)
      /\ \A i \in DOMAIN frametable' :
            i + 1 \in DOMAIN frametable /\ frametable'[i] = frametable[i + 1] /\ i + 1 # 1
      /\ \A i \in DOMAIN frametable' : i \in Int
  <2>1. frametable \in Seq(FrameEntry)  BY DEF TypeInv
  <2>2. frametable' \in Seq(FrameEntry)  BY <2>1, <1>1, PopFront
  <2> QED BY <2>1, <2>2, <1>1, PopFront
<1>9. TypeInv'
  BY <1>0, <1>6, <1>7, <1>8 DEF TypeInv, swapVars, lockVars
<1>10. LockInv'
  BY <1>0, <1>6, <1>7 DEF LockInv, HoldsException, Others, lockVars, Working, Evicting
<1>11. NeedInv'
  <2>1. \A q \in Procs : q # p => Needs(q)'
    BY <1>0, <1>6 DEF NeedInv, Needs, Others, Entered, SwappedOut
  <2>2. Needs(p)'
    BY <1>0, <1>6, <1>7 DEF NeedInv, Needs, Entered, SwappedOut, Working, Evicting
  <2> QED BY <2>1, <2>2 DEF NeedInv
<1>12. \A q \in Procs, u \in UPages :
              /\ InSwapIn(q, u)' = InSwapIn(q, u)
              /\ InSwapOut(q, u)' = InSwapOut(q, u)
              /\ Out(q, u)' = Out(q, u)
  BY <1>0, <1>6, OutKept
<1>13. PresentInv'
  BY <1>0, <1>6 DEF PresentInv, PageAt, Entered, Others
<1>14. MappedOnce'
  BY <1>0 DEF MappedOnce
<1>15. HeldInv'
  BY <1>0, <1>6 DEF HeldInv, Held, Holding, Others
<1>16. TableInv'
  <2>1. \A i \in DOMAIN frametable' : frametable'[i].owner \in Procs
    BY <1>8, EntryTypes
  <2>2. ASSUME NEW i \in DOMAIN frametable'
        PROVE  at'[frametable'[i].owner] \notin {"destroy", "dead"}
    <3>1. PICK o \in Procs : o = frametable'[i].owner  BY <2>1
    <3>2. at[o] \notin {"destroy", "dead"}  BY <1>8, <3>1 DEF TableInv
    <3>3. CASE o = p  BY <1>6, <3>1, <3>3
    <3>4. CASE o # p  BY <1>6, <3>1, <3>2, <3>4 DEF Others
    <3> QED BY <3>3, <3>4
  <2>3. \A i \in DOMAIN frametable' : pte'[frametable'[i].owner][frametable'[i].upage] = frametable'[i].kpage
    BY <1>0, <1>8 DEF TableInv
  <2>4. ASSUME NEW i \in DOMAIN frametable', NEW j \in DOMAIN frametable',
               frametable'[i].owner = frametable'[j].owner,
               frametable'[i].upage = frametable'[j].upage
        PROVE  i = j
    <3>1. i + 1 = j + 1  BY <2>4, <1>8 DEF TableInv
    <3> QED BY <3>1, <1>8
  <2> QED BY <2>2, <2>3, <2>4 DEF TableInv
<1>17. VictimInv'
  <2>1. \A q \in Procs : q # p => Victimized(q)'
    BY <1>0, <1>6, OneEvicts DEF Victimized, Others, Evicting
  <2>2. ASSUME NEW i \in DOMAIN frametable'
        PROVE  ~ (frametable'[i].owner = v.owner /\ frametable'[i].upage = v.upage)
    BY <1>3, <1>8 DEF TableInv
  <2>3. Victimized(p)'
    BY <1>0, <1>3, <1>6, <1>7, <2>2 DEF Victimized
  <2> QED BY <2>1, <2>3 DEF VictimInv
<1>18. SlotInv'
  BY <1>0 DEF SlotInv, swapVars
<1>19. EntryInv'
  BY <1>0, <1>12, EntriesKept DEF swapVars
<1>20. BackInv'
  BY <1>0, <1>6, <1>12 DEF BackInv, InSwapIn, Others
<1>21. UpdateInv'
  BY <1>0, <1>6, UpdatesKept
<1> QED BY <1>21, <1>9, <1>10, <1>11, <1>13, <1>14, <1>15, <1>16, <1>17, <1>18, <1>19, <1>20

\* page_swap_to_disk() unmapping the victim keeps VMGood.
LEMMA ClearStep ==
    ASSUME VMGood, NEW p \in Procs, Clear(p)
    PROVE  VMGood'
<1> USE DEF VMGood
<1>1. at[p] = "clear" /\ at' = [at EXCEPT ![p] = "flap"]
      /\ UNCHANGED <<req, used, mem, page_entry, frametable, swapVars, lockVars, wrote>>
  BY DEF Clear, At, Goto
<1>2. PICK v \in FrameEntry : v = req[p].victim
  BY <1>1 DEF VictimInv, Victimized, Evicting
<1>3. /\ v.owner \in Procs /\ v.upage \in UPages /\ v.kpage \in KPages /\ req[p].kpage = v.kpage
      /\ pte[v.owner][v.upage] = v.kpage
      /\ page_entry[v.owner][v.upage].kpage = v.kpage
      /\ \A i \in DOMAIN frametable : ~ (frametable[i].owner = v.owner /\ frametable[i].upage = v.upage)
  BY <1>1, <1>2 DEF VictimInv, Victimized, Evicting, FrameEntry
<1>4. PageAt(v.owner, v.upage, v.kpage)
  BY <1>3, VirtualMemoryAssumption DEF PresentInv
<1>5. pte' = [pte EXCEPT ![v.owner][v.upage] = None]
  BY <1>2, <1>4 DEF Clear, Alive, PageAt
<1>6. /\ pte' \in [Procs -> [UPages -> KPages \union {None}]] /\ pte'[v.owner][v.upage] = None
      /\ \A q \in Procs, u \in UPages : ~ (q = v.owner /\ u = v.upage) => pte'[q][u] = pte[q][u]
  BY <1>3, <1>5 DEF TypeInv
<1>7. at'[p] = "flap" /\ Others(p) /\ at' \in [Procs -> Places]
  BY <1>1 DEF Others, TypeInv, Places, Working, Evicting
<1>8. TypeInv'
  BY <1>1, <1>6, <1>7 DEF TypeInv, swapVars, lockVars
<1>9. LockInv'
  BY <1>1, <1>7 DEF LockInv, HoldsException, Others, lockVars, Working, Evicting
<1>10. NeedInv'
  <2>1. \A q \in Procs, u \in UPages : pte[q][u] = None => pte'[q][u] = None
    BY <1>6
  <2> QED BY <1>1, <1>7, <2>1 DEF NeedInv, Needs, Others, Entered, SwappedOut, Working, Evicting
<1>11. \A q \in Procs, u \in UPages :
              /\ InSwapIn(q, u)' = InSwapIn(q, u)
              /\ InSwapOut(q, u)' = InSwapOut(q, u)
              /\ Out(q, u)' = Out(q, u)
  BY <1>1, <1>7, OutKept
<1>12. PresentInv'
  BY <1>1, <1>6, <1>7 DEF PresentInv, PageAt, Entered, Others
<1>13. MappedOnce'
  BY <1>6 DEF MappedOnce
<1>14. HeldInv'
  <2>1. \A q \in Procs, u \in UPages : pte'[q][u] # v.kpage
    <3>1. v.kpage # None  BY <1>3, VirtualMemoryAssumption
    <3>2. ASSUME NEW q \in Procs, NEW u \in UPages, pte[q][u] = v.kpage
          PROVE  q = v.owner /\ u = v.upage
      BY <1>3, <3>1, <3>2 DEF MappedOnce
    <3> QED BY <1>6, <3>1, <3>2
  <2>2. \A q \in Procs : Holding(q) => req[q].kpage # v.kpage
    BY <1>3 DEF HeldInv, Held
  <2>3. v.kpage \in used
    BY <1>4 DEF PageAt
  <2>4. ASSUME NEW q \in Procs, Holding(q)
        PROVE  \A w \in Procs, u \in UPages : pte'[w][u] # req[q].kpage
    <3>1. req[q].kpage \in KPages  BY <2>4 DEF HeldInv, Held, TypeInv
    <3> QED BY <2>4, <3>1, <1>6, VirtualMemoryAssumption DEF HeldInv, Held
  <2>5. Held(p)'
    BY <1>1, <1>3, <1>7, <2>1, <2>2, <2>3 DEF Held, Holding, Others
  <2>6. ASSUME NEW q \in Procs, q # p PROVE Held(q)'
    BY <1>1, <1>3, <1>7, <2>2, <2>4, <2>6 DEF HeldInv, Held, Holding, Others
  <2> QED BY <2>5, <2>6 DEF HeldInv
<1>15. TableInv'
  <2>1. \A i \in DOMAIN frametable : frametable[i].owner \in Procs /\ frametable[i].upage \in UPages
    BY EntryTypes
  <2> QED BY <1>1, <1>3, <1>6, <1>7, <2>1 DEF TableInv, Others
<1>16. VictimInv'
  <2>1. \A q \in Procs : q # p => Victimized(q)'
    BY <1>1, <1>7, OneEvicts DEF Victimized, Others, Evicting
  <2>2. Victimized(p)'
    <3>1. /\ Entered(v.owner, v.upage)' /\ page_entry'[v.owner][v.upage].kpage = v.kpage
          /\ page_entry'[v.owner][v.upage].is_swapped = FALSE
          /\ mem'[v.kpage] = wrote'[v.owner][v.upage]
      <4>1. page_entry[v.owner][v.upage].is_swapped \in BOOLEAN
        BY <1>3, <1>4, TableType DEF PageAt, Entered, TypeInv, PageEntry
      <4> QED BY <1>1, <1>3, <1>4, <4>1 DEF PageAt, Entered
    <3>3. ~ InSwapIn(v.owner, v.upage)'
      BY <1>3, <1>11, VirtualMemoryAssumption DEF InSwapIn, NeedInv, Needs, Working
    <3>2. req'[p].victim = v /\ req'[p].kpage = v.kpage
      BY <1>1, <1>2, <1>3
    <3> QED BY <1>6, <1>7, <3>1, <3>2, <3>3 DEF Victimized
  <2> QED BY <2>1, <2>2 DEF VictimInv
<1>17. SlotInv'
  BY <1>1 DEF SlotInv, swapVars
<1>18. EntryInv'
  BY <1>1, <1>11, EntriesKept DEF swapVars
<1>19. BackInv'
  BY <1>1, <1>7, <1>11 DEF BackInv, InSwapIn, Others
<1>20. UpdateInv'
  <2>1. ASSUME NEW q \in Procs PROVE Updates(q)'
    <3>1. CASE q = p  BY <1>7, <3>1 DEF Updates
    <3>2. CASE q # p
      <4>1. at'[q] = at[q] /\ req'[q] = req[q] /\ page_entry' = page_entry /\ Updates(q)
        BY <1>1, <1>7, <3>2 DEF Others, UpdateInv
      <4>2. CASE q = v.owner /\ req[q].upage = v.upage
        BY <1>3, <1>6, <4>1, <4>2, VirtualMemoryAssumption DEF Updates, Entered
      <4>3. CASE ~ (q = v.owner /\ req[q].upage = v.upage)
        BY <1>6, <4>1, <4>3 DEF Updates, Entered
      <4> QED BY <4>2, <4>3
    <3> QED BY <3>1, <3>2
  <2> QED BY <2>1 DEF UpdateInv
<1> QED BY <1>20, <1>8, <1>9, <1>10, <1>12, <1>13, <1>14, <1>15, <1>16, <1>17, <1>18, <1>19

\* flap_swapped_flag() of the victim keeps VMGood.
LEMMA FlapStep ==
    ASSUME VMGood, NEW p \in Procs, Flap(p)
    PROVE  VMGood'
<1> USE DEF VMGood
<1>1. at[p] = "flap" /\ at' = [at EXCEPT ![p] = "out"]
      /\ UNCHANGED <<req, used, mem, pte, frametable, swapVars, lockVars, wrote>>
  BY DEF Flap, At, Goto
<1>2. PICK v \in FrameEntry : v = req[p].victim
  BY <1>1 DEF VictimInv, Victimized, Evicting
<1>3. /\ v.owner \in Procs /\ v.upage \in UPages /\ v.kpage \in KPages /\ req[p].kpage = v.kpage
      /\ pte[v.owner][v.upage] = None /\ Entered(v.owner, v.upage)
      /\ page_entry[v.owner][v.upage].kpage = v.kpage
      /\ page_entry[v.owner][v.upage].is_swapped = FALSE
      /\ mem[v.kpage] = wrote[v.owner][v.upage]
  BY <1>1, <1>2 DEF VictimInv, Victimized, Evicting, FrameEntry
<1>4. /\ page_entry' \in [Procs -> PageTables]
      /\ \A q \in Procs : DOMAIN page_entry'[q] = DOMAIN page_entry[q]
      /\ page_entry'[v.owner][v.upage].kpage = v.kpage
      /\ page_entry'[v.owner][v.upage].is_swapped = TRUE
      /\ \A q \in Procs : \A u \in DOMAIN page_entry[q] :
            ~ (q = v.owner /\ u = v.upage) => page_entry'[q][u] = page_entry[q][u]
  <2>1. PICK t : t = page_entry[v.owner]  OBVIOUS
  <2>2. t \in PageTables /\ v.upage \in DOMAIN t
    BY <1>3, <2>1 DEF TypeInv, Entered
  <2>3. DOMAIN t \subseteq UPages /\ t \in [DOMAIN t -> PageEntry]
    BY <2>2, TableType
  <2>4. PICK t2 : t2 = [t EXCEPT ![v.upage].is_swapped = ~ @]  OBVIOUS
  <2>5. /\ t2 \in [DOMAIN t -> PageEntry] /\ t2[v.upage].kpage = t[v.upage].kpage
        /\ t2[v.upage].is_swapped = ~ t[v.upage].is_swapped
        /\ \A u \in DOMAIN t : u # v.upage => t2[u] = t[u]
    BY <2>2, <2>3, <2>4 DEF PageEntry
  <2>6. DOMAIN t2 = DOMAIN t  BY <2>5
  <2>7. t2 \in PageTables  BY <2>3, <2>5, <2>6, TableType
  <2>8. page_entry' = [page_entry EXCEPT ![v.owner] = t2]
    BY <1>2, <2>1, <2>4 DEF Flap, flap_swapped_flag
  <2> QED BY <1>3, <2>1, <2>5, <2>6, <2>7, <2>8 DEF TypeInv
<1>5. at'[p] = "out" /\ Others(p) /\ at' \in [Procs -> Places]
  BY <1>1 DEF Others, TypeInv, Places, Working, Evicting
<1>6. TypeInv'
  BY <1>1, <1>4, <1>5 DEF TypeInv, swapVars, lockVars
<1>7. LockInv'
  BY <1>1, <1>5 DEF LockInv, HoldsException, Others, lockVars, Working, Evicting
<1>8. \A q \in Procs, u \in UPages : Entered(q, u)' = Entered(q, u)
  BY <1>4 DEF Entered
<1>9. \A q \in Procs, u \in UPages :
         ~ (q = v.owner /\ u = v.upage) => SwappedOut(q, u)' = SwappedOut(q, u)
  BY <1>4 DEF Entered, SwappedOut
<1>10. ~ SwappedOut(v.owner, v.upage)
  BY <1>3 DEF SwappedOut
<1>11. \A q \in Procs, u \in UPages : SwappedOut(q, u) => SwappedOut(q, u)'
  BY <1>9, <1>10
<1>12. NeedInv'
  <2>1. ASSUME NEW q \in Procs, at[q] \in Working, req[q].kind = "fault"
        PROVE  ~ (q = v.owner /\ req[q].upage = v.upage)
    <3>1. CASE at[q] = "map"
      <4>1. InSwapIn(q, req[q].upage) /\ req[q].upage \in UPages
        BY <2>1, <3>1 DEF InSwapIn, NeedInv, Needs
      <4> QED BY <1>1, <1>2, <4>1 DEF VictimInv, Victimized
    <3>2. CASE at[q] # "map"
      BY <1>3, <2>1, <3>2 DEF NeedInv, Needs
    <3> QED BY <3>1, <3>2
  <2>2. ASSUME NEW q \in Procs PROVE Needs(q)'
    <3>1. req'[q] = req[q] /\ pte' = pte /\ Needs(q)  BY <1>1 DEF NeedInv
    <3>2. (at'[q] \in Working <=> at[q] \in Working) /\ (at'[q] = "map" <=> at[q] = "map")
          /\ (at'[q] = at[q] \/ (at'[q] = "out" /\ at[q] = "flap"))
      <4>1. CASE q = p  BY <1>1, <1>5, <4>1 DEF Working, Evicting
      <4>2. CASE q # p
        <5>1. at'[q] = at[q]  BY <1>5, <4>2 DEF Others
        <5> QED BY <5>1
      <4> QED BY <4>1, <4>2
    <3>3. ASSUME at[q] \in Working, req[q].kind = "fault"
          PROVE  page_entry'[q][req[q].upage] = page_entry[q][req[q].upage]
      <4>1. Entered(q, req[q].upage)  BY <3>1, <3>3 DEF Needs
      <4> QED BY <1>4, <2>1, <3>3, <4>1 DEF Entered
    <3>4. req[q].upage \in UPages => Entered(q, req[q].upage)' = Entered(q, req[q].upage)
      BY <1>8, <3>1
    <3>5. at'[q] \in Working \union {"fault", "look"} =>
             req'[q].upage \in UPages /\ pte'[q][req'[q].upage] = None
      BY <3>1, <3>2 DEF Needs
    <3>6. at'[q] \in {"fault", "look", "swap_in", "reflap"} => req'[q].kind = "fault"
      BY <3>1, <3>2 DEF Needs
    <3>7. ASSUME at'[q] \in Working
          PROVE  \/ req'[q].kind = "load" /\ ~ Entered(q, req[q].upage)'
                 \/ /\ req'[q].kind = "fault" /\ Entered(q, req[q].upage)'
                    /\ page_entry'[q][req'[q].upage].is_swapped = (at'[q] # "map")
      <4>1. at[q] \in Working /\ req[q].upage \in UPages  BY <3>1, <3>2, <3>7 DEF Needs
      <4>2. CASE req[q].kind = "load"
        BY <3>1, <3>4, <4>1, <4>2 DEF Needs
      <4>3. CASE req[q].kind = "fault"
        BY <3>1, <3>2, <3>3, <3>4, <4>1, <4>3 DEF Needs
      <4> QED BY <3>1, <4>1, <4>2, <4>3 DEF Needs
    <3> QED BY <3>5, <3>6, <3>7 DEF Needs
  <2> QED BY <2>2 DEF NeedInv
<1>13. PresentInv'
  <2>1. ASSUME NEW q \in Procs, NEW u \in UPages, pte[q][u] # None
        PROVE  PageAt(q, u, pte[q][u])'
    <3>1. PageAt(q, u, pte[q][u]) /\ ~ (q = v.owner /\ u = v.upage)
      BY <1>3, <2>1 DEF PresentInv
    <3>2. page_entry'[q][u] = page_entry[q][u] /\ Entered(q, u)'
      BY <1>4, <3>1 DEF PageAt, Entered
    <3> QED BY <1>1, <1>5, <3>1, <3>2 DEF PageAt, Others
  <2> QED BY <1>1, <1>8, <2>1 DEF PresentInv
<1>14. MappedOnce'
  BY <1>1 DEF MappedOnce
<1>15. HeldInv'
  BY <1>1, <1>5 DEF HeldInv, Held, Holding, Others
<1>16. TableInv'
  <2>1. \A i \in DOMAIN frametable : frametable[i].owner \in Procs
    BY EntryTypes
  <2> QED BY <1>1, <1>5, <2>1 DEF TableInv, Others
<1>17. VictimInv'
  <2>1. \A q \in Procs : q # p => Victimized(q)'
    BY <1>1, <1>5, OneEvicts DEF Victimized, Others, Evicting
  <2>2. Victimized(p)'
    <3>1. ~ InSwapIn(v.owner, v.upage)'
      BY <1>1, <1>2, <1>5 DEF VictimInv, Victimized, InSwapIn, Others
    <3> QED BY <1>1, <1>2, <1>3, <1>4, <1>5, <1>8, <3>1 DEF Victimized, Evicting
  <2> QED BY <2>1, <2>2 DEF VictimInv
<1>18. SlotInv'
  BY <1>1 DEF SlotInv, swapVars
<1>19. \A q \in Procs, u \in UPages :
          /\ InSwapIn(q, u)' = InSwapIn(q, u)
          /\ ~ InSwapOut(q, u)
          /\ InSwapOut(q, u)' <=> q = v.owner /\ u = v.upage
  BY <1>1, <1>2, <1>5, OneEvicts DEF InSwapIn, InSwapOut, Others, Evicting
<1>20. \A q \in Procs, u \in UPages : Out(q, u)' = Out(q, u)
  BY <1>9, <1>10, <1>19 DEF Out
<1>21. EntryInv'
  <2>1. \A i \in DOMAIN swap_table :
            LET e == swap_table[i] IN
            e.owner \in Procs /\ e.upage \in UPages /\ Out(e.owner, e.upage)
    BY EntryTypes DEF EntryInv
  <2>2. ASSUME NEW i \in DOMAIN swap_table
        PROVE  page_entry'[swap_table[i].owner][swap_table[i].upage].kpage = swap_table[i].kpage
    <3>1. SwappedOut(swap_table[i].owner, swap_table[i].upage)
      BY <2>1 DEF Out
    <3>2. page_entry[swap_table[i].owner][swap_table[i].upage].kpage = swap_table[i].kpage
      BY DEF EntryInv
    <3> QED BY <1>4, <1>10, <2>1, <3>1, <3>2 DEF SwappedOut, Entered
  <2>3. \A i \in DOMAIN swap_table : Out(swap_table[i].owner, swap_table[i].upage)'
    BY <1>1, <1>20, <2>1 DEF swapVars
  <2> QED BY <1>1, <1>20, <2>2, <2>3 DEF EntryInv, EntryOf, swapVars
<1>22. BackInv'
  <2>1. ASSUME NEW q \in Procs, NEW u \in UPages, InSwapIn(q, u)
        PROVE  ~ (q = v.owner /\ u = v.upage)
    BY <1>1, <1>2, <2>1 DEF VictimInv, Victimized
  <2> QED BY <1>1, <1>5, <1>19, <2>1 DEF BackInv
<1>23. UpdateInv'
  <2>1. ASSUME NEW q \in Procs, at'[q] = "update" PROVE Updates(q)'
    <3>1. at[q] = "update" /\ req'[q] = req[q] /\ pte' = pte  BY <1>1, <1>5, <2>1 DEF Others
    <3>2. PICK u \in UPages : u = req[q].upage /\ Entered(q, u)  BY <3>1 DEF UpdateInv, Updates
    <3>3. page_entry'[q][u].kpage = page_entry[q][u].kpage
      BY <1>3, <1>4, <3>2 DEF Entered
    <3> QED BY <1>8, <2>1, <3>1, <3>2, <3>3 DEF UpdateInv, Updates
  <2> QED BY <2>1 DEF UpdateInv, Updates
<1> QED BY <1>23, <1>6, <1>7, <1>12, <1>13, <1>14, <1>15, <1>16, <1>17, <1>18, <1>21, <1>22

\* swap_find_empty_sector() finds a slot that is not used.
LEMMA FreeSlot ==
    ASSUME FreeSlots # {}
    PROVE  (CHOOSE t \in FreeSlots : \A r \in FreeSlots : t <= r) \in FreeSlots
<1>1. FreeSlots \in SUBSET Nat
  BY VirtualMemoryAssumption DEF FreeSlots, Slots
<1>2. \E t \in FreeSlots : \A r \in FreeSlots : t <= r
  BY <1>1, LeastElement
<1> QED BY <1>2

\* swap_frame_to_disk() keeps VMGood.
LEMMA SwapOutStep ==
    ASSUME VMGood, NEW p \in Procs, SwapOut(p), wild' = "none"
    PROVE  VMGood'
<1> USE DEF VMGood
<1>1. at[p] = "out" /\ at' = [at EXCEPT ![p] = "evicted"] /\ FreeSlots # {}
      /\ UNCHANGED <<req, used, mem, tabVars, lockVars, wrote>>
  BY DEF SwapOut, At, Stopped, Bad, Goto
<1>2. PICK v \in FrameEntry : v = req[p].victim
  BY <1>1 DEF VictimInv, Victimized, Evicting
<1>3. /\ v.owner \in Procs /\ v.upage \in UPages /\ v.kpage \in KPages /\ req[p].kpage = v.kpage
      /\ pte[v.owner][v.upage] = None /\ Entered(v.owner, v.upage)
      /\ page_entry[v.owner][v.upage].kpage = v.kpage
      /\ page_entry[v.owner][v.upage].is_swapped = TRUE
      /\ mem[v.kpage] = wrote[v.owner][v.upage]
  BY <1>1, <1>2 DEF VictimInv, Victimized, Evicting, FrameEntry
<1>4. PICK s \in FreeSlots : /\ slots' = slots \union {s}
                             /\ disk' = [disk EXCEPT ![s] = mem[v.kpage]]
                             /\ swap_table' = swap_entry_insert(v.kpage, v.owner, v.upage, s)
  BY <1>1, <1>2, FreeSlot DEF SwapOut, Stopped, Bad, At
<1>5. s \in Slots /\ s \notin slots
  BY DEF FreeSlots
<1>6. PICK e \in SwapEntry : /\ e.owner = v.owner /\ e.kpage = v.kpage /\ e.upage = v.upage
                             /\ e.slot = s /\ swap_table' = Append(swap_table, e)
  BY <1>3, <1>4, <1>5 DEF SwapEntry, swap_entry_insert
<1>7. PICK n \in Nat : n = Len(swap_table)
  BY DEF TypeInv
<1>8. /\ swap_table' \in Seq(SwapEntry) /\ DOMAIN swap_table = 1 .. n
      /\ DOMAIN swap_table' = 1 .. n + 1 /\ swap_table'[n + 1] = e
      /\ \A i \in 1 .. n : swap_table'[i] = swap_table[i]
  BY <1>6, <1>7 DEF TypeInv
<1>9. \A i \in 1 .. n + 1 : i \in 1 .. n \/ i = n + 1
  OBVIOUS
<1>10. at'[p] = "evicted" /\ Others(p) /\ at' \in [Procs -> Places]
  BY <1>1 DEF Others, TypeInv, Places, Working, Evicting
<1>11. TypeInv'
  <2>1. disk' \in [Slots -> Contents] /\ slots' \subseteq Slots
    BY <1>3, <1>4, <1>5 DEF TypeInv
  <2> QED BY <1>1, <1>8, <1>10, <2>1 DEF TypeInv, tabVars, lockVars
<1>12. LockInv'
  BY <1>1, <1>10 DEF LockInv, HoldsException, Others, lockVars, Working, Evicting
<1>13. NeedInv'
  BY <1>1, <1>10 DEF NeedInv, Needs, Others, Entered, SwappedOut, Working, Evicting, tabVars
<1>14. PresentInv'
  BY <1>1, <1>10 DEF PresentInv, PageAt, Entered, Others, tabVars
<1>15. MappedOnce'
  BY <1>1 DEF MappedOnce, tabVars
<1>16. HeldInv'
  BY <1>1, <1>10 DEF HeldInv, Held, Holding, Others, tabVars
<1>17. TableInv'
  <2>1. \A i \in DOMAIN frametable : frametable[i].owner \in Procs
    BY EntryTypes
  <2> QED BY <1>1, <1>10, <2>1 DEF TableInv, Others, tabVars
<1>18. VictimInv'
  <2>1. \A q \in Procs : q # p => Victimized(q)'
    BY <1>1, <1>10, OneEvicts DEF Victimized, Others, Evicting
  <2>2. Victimized(p)'
    BY <1>1, <1>2, <1>3, <1>10 DEF Victimized
  <2> QED BY <2>1, <2>2 DEF VictimInv
<1>19. SlotInv'
  <2>1. slots' = {swap_table'[i].slot : i \in DOMAIN swap_table'}
    <3>1. \A x \in slots' : \E i \in 1 .. n + 1 : x = swap_table'[i].slot
      BY <1>4, <1>6, <1>8 DEF SlotInv
    <3>2. \A i \in 1 .. n + 1 : swap_table'[i].slot \in slots'
      BY <1>4, <1>6, <1>8, <1>9 DEF SlotInv
    <3> QED BY <1>8, <3>1, <3>2
  <2>2. \A i \in 1 .. n : swap_table[i].slot # s
    BY <1>5, <1>8 DEF SlotInv
  <2>3. \A i, j \in 1 .. n + 1 : swap_table'[i].slot = swap_table'[j].slot => i = j
    BY <1>6, <1>8, <1>9, <2>2 DEF SlotInv
  <2> QED BY <1>8, <2>1, <2>3 DEF SlotInv
<1>20. \A q \in Procs, u \in UPages :
          /\ InSwapIn(q, u)' = InSwapIn(q, u) /\ SwappedOut(q, u)' = SwappedOut(q, u)
          /\ InSwapOut(q, u) <=> q = v.owner /\ u = v.upage
          /\ ~ InSwapOut(q, u)'
  <2>1. \A q \in Procs, u \in UPages : InSwapIn(q, u)' = InSwapIn(q, u)
    BY <1>1, <1>10 DEF InSwapIn, Others
  <2>2. \A q \in Procs, u \in UPages : SwappedOut(q, u)' = SwappedOut(q, u)
    BY <1>1 DEF SwappedOut, Entered, tabVars
  <2>3. \A q \in Procs : q # p => at[q] # "out" /\ at'[q] # "out"
    BY <1>1, <1>10, OneEvicts DEF Others, Evicting
  <2> QED BY <1>1, <1>2, <1>10, <2>1, <2>2, <2>3 DEF InSwapOut
<1>21. SwappedOut(v.owner, v.upage) /\ ~ InSwapIn(v.owner, v.upage)
  BY <1>3, <1>20 DEF SwappedOut, BackInv
<1>22. \A q \in Procs, u \in UPages : Out(q, u)' <=> Out(q, u) \/ (q = v.owner /\ u = v.upage)
  BY <1>20, <1>21 DEF Out
<1>23. EntryInv'
  <2>1. \A i \in 1 .. n : /\ swap_table[i].owner \in Procs /\ swap_table[i].upage \in UPages
                          /\ swap_table[i].slot \in Slots /\ swap_table[i].slot # s
                          /\ Out(swap_table[i].owner, swap_table[i].upage)
    BY <1>5, <1>8, EntryTypes DEF EntryInv, SlotInv
  <2>2. \A i \in 1 .. n : ~ (swap_table[i].owner = v.owner /\ swap_table[i].upage = v.upage)
    BY <1>3, <1>20, <2>1 DEF Out
  <2>3. \A i \in 1 .. n : disk'[swap_table[i].slot] = disk[swap_table[i].slot]
    BY <1>4, <1>5, <2>1 DEF TypeInv
  <2>4. disk'[s] = wrote[v.owner][v.upage]
    BY <1>3, <1>4, <1>5 DEF TypeInv
  <2>5. ASSUME NEW i \in 1 .. n + 1
        PROVE  /\ Out(swap_table[i].owner, swap_table[i].upage)'
               /\ page_entry[swap_table'[i].owner][swap_table'[i].upage].kpage = swap_table'[i].kpage
               /\ disk'[swap_table'[i].slot] = wrote[swap_table'[i].owner][swap_table'[i].upage]
    <3>1. CASE i \in 1 .. n
      <4>1. PICK o \in Procs, u \in UPages : o = swap_table[i].owner /\ u = swap_table[i].upage
        BY <2>1, <3>1
      <4>2. Out(o, u)'  BY <1>22, <2>1, <3>1, <4>1
      <4>3. swap_table'[i] = swap_table[i]  BY <1>8, <3>1
      <4>4. Out(swap_table[i].owner, swap_table[i].upage)'
        BY <4>1, <4>2, <4>3
      <4> QED BY <1>8, <2>3, <3>1, <4>3, <4>4 DEF EntryInv
    <3>2. CASE i = n + 1
      <4>1. PICK o \in Procs, u \in UPages : o = v.owner /\ u = v.upage
        BY <1>3
      <4>2. Out(o, u)'  BY <1>22, <4>1
      <4>3. swap_table'[i].owner = o /\ swap_table'[i].upage = u  BY <1>6, <1>8, <3>2, <4>1
      <4>4. Out(swap_table[i].owner, swap_table[i].upage)'
        BY <4>2, <4>3
      <4> QED BY <1>3, <1>6, <1>8, <2>4, <3>2, <4>4
    <3> QED BY <1>9, <3>1, <3>2
  <2>6. \A i, j \in 1 .. n + 1 : EntryOf(j, swap_table[i].owner, swap_table[i].upage)' => i = j
    BY <1>6, <1>8, <1>9, <2>2 DEF EntryInv, EntryOf
  <2>7. ASSUME NEW q \in Procs, NEW u \in UPages, Out(q, u)'
        PROVE  \E i \in 1 .. n + 1 : EntryOf(i, q, u)'
    <3>1. CASE Out(q, u)
      <4>1. PICK i \in 1 .. n : EntryOf(i, q, u)  BY <1>8, <3>1 DEF EntryInv
      <4> QED BY <1>8, <4>1 DEF EntryOf
    <3>2. CASE q = v.owner /\ u = v.upage
      BY <1>6, <1>8, <3>2 DEF EntryOf
    <3> QED BY <1>22, <2>7, <3>1, <3>2
  <2> QED BY <1>1, <1>8, <2>5, <2>6, <2>7 DEF EntryInv, tabVars
<1>24. BackInv'
  BY <1>1, <1>20 DEF BackInv
<1>25. UpdateInv'
  BY <1>1, <1>10, UpdatesKept DEF tabVars
<1> QED BY <1>25, <1>11, <1>12, <1>13, <1>14, <1>15, <1>16, <1>17, <1>18, <1>19, <1>23, <1>24

\* The end of an eviction keeps VMGood.
LEMMA EvictedStep ==
    ASSUME VMGood, NEW p \in Procs, Evicted(p), wild' = "none"
    PROVE  VMGood'
<1> USE DEF VMGood
<1>1. at[p] = "evicted" /\ at' = [at EXCEPT ![p] = AfterGet(p)] /\ page_lock' = Nobody
      /\ UNCHANGED <<used, pte, page_entry, swapVars, exception_lock, swap_lock, wrote>>
  BY DEF Evicted, At, Stopped, Bad, Goto
<1>2. /\ frametable' = Relinked(p)
      /\ mem' = [mem EXCEPT ![req[p].kpage] = 0]
      /\ req' = [req EXCEPT ![p].victim = None, ![p].next = << >>]
  BY DEF Evicted, At, Stopped, Bad, Goto
<1>3. PICK k \in KPages : k = req[p].kpage /\ k \in used
  BY <1>1 DEF HeldInv, Held, Holding, TypeInv
<1>4. /\ mem' \in [KPages -> Contents] /\ \A l \in KPages : l # k => mem'[l] = mem[l]
  BY <1>2, <1>3 DEF TypeInv, Contents
<1>5. frametable' = << >> \/ frametable' = frametable
  BY <1>2 DEF Relinked
<1>6. /\ at'[p] \in {"swap_in", "map"} /\ at' \in [Procs -> Places]
      /\ at'[p] = IF req[p].kind = "fault" THEN "swap_in" ELSE "map"
  BY <1>1 DEF TypeInv, Places, Working, AfterGet
<1>7. /\ req' \in [Procs -> ReqRecords] /\ req'[p].kpage = k /\ req'[p].kind = req[p].kind
      /\ req'[p].upage = req[p].upage
  <2>1. PICK r \in ReqRecords : r = req[p]  BY DEF TypeInv
  <2>2. PICK r2 : r2 = [r EXCEPT !.victim = None, !.next = << >>]  OBVIOUS
  <2>3. req' = [req EXCEPT ![p] = r2]  BY <1>2, <2>1, <2>2 DEF TypeInv
  <2>4. << >> \in Seq(FrameEntry)  OBVIOUS
  <2>5. r2 \in ReqRecords /\ r2.kpage = r.kpage /\ r2.kind = r.kind /\ r2.upage = r.upage
    BY <2>2, <2>4 DEF ReqRecords
  <2> QED BY <1>3, <2>1, <2>3, <2>5 DEF TypeInv
<1>8. Others(p)
  BY <1>1, <1>2 DEF Others, TypeInv
<1>9. TypeInv'
  <2>0. << >> \in Seq(FrameEntry)  OBVIOUS
  <2>1. frametable' \in Seq(FrameEntry)  BY <1>5, <2>0 DEF TypeInv
  <2> QED BY <1>1, <1>4, <1>6, <1>7, <2>1 DEF TypeInv, swapVars
<1>10. LockInv'
  BY <1>1, <1>6, <1>7, <1>8, OneEvicts, VirtualMemoryAssumption
     DEF LockInv, HoldsException, Others, Working, Evicting
<1>11. NeedInv'
  <2>1. \A q \in Procs : q # p => Needs(q)'
    BY <1>1, <1>8 DEF NeedInv, Needs, Others, Entered, SwappedOut
  <2>2. Needs(p)'
    BY <1>1, <1>6, <1>7 DEF NeedInv, Needs, Entered, SwappedOut, Working, Evicting
  <2> QED BY <2>1, <2>2 DEF NeedInv
<1>12. \A q \in Procs, u \in UPages :
              /\ InSwapIn(q, u)' = InSwapIn(q, u)
              /\ InSwapOut(q, u)' = InSwapOut(q, u)
              /\ Out(q, u)' = Out(q, u)
  BY <1>1, <1>6, <1>7, <1>8, OutKept
<1>13. \A q \in Procs, u \in UPages : pte[q][u] # k
  BY <1>1, <1>3 DEF HeldInv, Held, Holding
<1>14. PresentInv'
  <2>1. ASSUME NEW q \in Procs, NEW u \in UPages, pte[q][u] # None
        PROVE  PageAt(q, u, pte[q][u])'
    <3>1. PageAt(q, u, pte[q][u]) /\ pte[q][u] \in KPages /\ pte[q][u] # k
      BY <1>13, <2>1 DEF PresentInv, TypeInv
    <3>2. mem'[pte[q][u]] = mem[pte[q][u]]
      BY <1>4, <3>1
    <3> QED BY <1>1, <1>6, <1>8, <3>1, <3>2 DEF PageAt, Entered, Others
  <2> QED BY <1>1, <2>1 DEF PresentInv, Entered
<1>15. MappedOnce'
  BY <1>1 DEF MappedOnce
<1>16. HeldInv'
  BY <1>1, <1>3, <1>6, <1>7, <1>8 DEF HeldInv, Held, Holding, Others
<1>17. TableInv'
  <2>1. \A i \in DOMAIN frametable : frametable[i].owner \in Procs
    BY EntryTypes
  <2>2. CASE frametable' = frametable
    BY <1>1, <1>6, <1>8, <2>1, <2>2 DEF TableInv, Others
  <2>3. CASE frametable' = << >>
    BY <2>3 DEF TableInv
  <2> QED BY <1>5, <2>2, <2>3
<1>18. VictimInv'
  <2>1. \A q \in Procs : at'[q] \notin Evicting
    BY <1>1, <1>6, <1>8, OneEvicts DEF Others, Evicting
  <2> QED BY <2>1 DEF VictimInv, Victimized, Evicting
<1>19. SlotInv'
  BY <1>1 DEF SlotInv, swapVars
<1>20. EntryInv'
  BY <1>1, <1>12, EntriesKept DEF swapVars
<1>21. BackInv'
  <2>1. ASSUME NEW q \in Procs, NEW u \in UPages, InSwapIn(q, u)'
        PROVE  mem'[req'[q].kpage] = wrote'[q][u] /\ ~ InSwapOut(q, u)'
    <3>1. InSwapIn(q, u) /\ ~ InSwapOut(q, u)'
      BY <1>12, <2>1 DEF BackInv
    <3>2. q # p  BY <1>1, <3>1 DEF InSwapIn
    <3>3. req[q].kpage \in KPages /\ req[q].kpage # k
      BY <1>1, <1>3, <3>1, <3>2 DEF InSwapIn, HeldInv, Held, Holding, TypeInv
    <3> QED BY <1>1, <1>4, <1>8, <3>1, <3>2, <3>3 DEF BackInv, Others
  <2> QED BY <2>1 DEF BackInv
<1>22. UpdateInv'
  BY <1>1, <1>6, <1>8, UpdatesKept
<1> QED BY <1>22, <1>9, <1>10, <1>11, <1>14, <1>15, <1>16, <1>17, <1>18, <1>19, <1>20, <1>21

-----------------------------------------------------------------------------
(* Filling the frame.                                                      *)

\* swap_entry_lookup() returns an entry of the owner for the frame, if there is one.
LEMMA FirstEntry ==
    ASSUME TypeInv, NEW p, NEW k, SwapEntries(p, k) # {}
    PROVE  LET found == SwapEntries(p, k)
               i == CHOOSE j \in found : \A l \in found : j <= l
           IN  i \in DOMAIN swap_table /\ swap_table[i].owner = p /\ swap_table[i].kpage = k
<1> DEFINE found == SwapEntries(p, k)
<1>1. found \in SUBSET Nat /\ found # {} /\ found \subseteq DOMAIN swap_table
  BY DEF SwapEntries, TypeInv
<1>2. \A j \in found : swap_table[j].owner = p /\ swap_table[j].kpage = k
  BY DEF SwapEntries
<1> HIDE DEF found
<1>3. \E j \in found : \A l \in found : j <= l
  BY <1>1, LeastElement
<1>4. (CHOOSE j \in found : \A l \in found : j <= l) \in found
  BY <1>3
<1> QED BY <1>1, <1>2, <1>4 DEF found

\* swap_disk_to_frame() keeps VMGood.
LEMMA SwapInStep ==
    ASSUME VMGood, NEW p \in Procs, SwapIn(p), wild' = "none"
    PROVE  VMGood'
<1> USE DEF VMGood
<1>1. /\ at[p] = "swap_in" /\ at' = [at EXCEPT ![p] = "reflap"]
      /\ SwapEntries(p, page_entry[p][req[p].upage].kpage) # {}
      /\ UNCHANGED <<req, used, tabVars, disk, lockVars, wrote>>
  BY DEF SwapIn, At, Stopped, Bad, Goto
<1>2. PICK i \in DOMAIN swap_table :
         /\ swap_table[i].owner = p /\ swap_table[i].upage = req[p].upage
         /\ mem' = [mem EXCEPT ![req[p].kpage] = disk[swap_table[i].slot]]
         /\ slots' = slots \ {swap_table[i].slot}
         /\ swap_table' = swap_entry_delete(i)
  <2>1. PICK kp : kp = page_entry[p][req[p].upage].kpage  OBVIOUS
  <2> DEFINE found == SwapEntries(p, kp)
  <2> DEFINE i == CHOOSE j \in found : \A l \in found : j <= l
  <2>2. i \in DOMAIN swap_table /\ swap_table[i].owner = p
    BY <1>1, <2>1, FirstEntry, SMTT(20)
  <2>3. /\ mem' = [mem EXCEPT ![req[p].kpage] = disk[swap_table[i].slot]]
        /\ slots' = slots \ {swap_table[i].slot}
        /\ swap_table' = swap_entry_delete(i)
        /\ wild' = IF swap_table[i].upage # req[p].upage THEN "other_page" ELSE wild
    BY <1>1, <2>1 DEF SwapIn
  <2> HIDE DEF i
  <2> QED BY <2>2, <2>3
<1>3. PICK u \in UPages : u = req[p].upage
  BY <1>1 DEF NeedInv, Needs, Working
<1>4. PICK k \in KPages : k = req[p].kpage /\ k \in used
  BY <1>1 DEF HeldInv, Held, Holding, TypeInv
<1>5. PICK s \in Slots : s = swap_table[i].slot
  BY EntryTypes
<1>6. Out(p, u) /\ disk[s] = wrote[p][u] /\ disk[s] \in Contents
  BY <1>2, <1>3, <1>5 DEF EntryInv, TypeInv
<1>7. /\ mem' \in [KPages -> Contents] /\ mem'[k] = wrote[p][u]
      /\ \A l \in KPages : l # k => mem'[l] = mem[l]
  BY <1>2, <1>4, <1>5, <1>6 DEF TypeInv
<1>8. PICK f \in [DOMAIN swap_table' -> DOMAIN swap_table \ {i}] :
         /\ \A j \in DOMAIN swap_table' : swap_table'[j] = swap_table[f[j]]
         /\ \A j, l \in DOMAIN swap_table' : f[j] = f[l] => j = l
         /\ \A l \in DOMAIN swap_table \ {i} : \E j \in DOMAIN swap_table' : f[j] = l
         /\ swap_table' \in Seq(SwapEntry)
  <2>1. swap_table \in Seq(SwapEntry)  BY DEF TypeInv
  <2>2. swap_table' = Without(swap_table, i)
    BY <1>2 DEF swap_entry_delete, Without
  <2>3. Without(swap_table, i) \in Seq(SwapEntry) /\ RestOf(swap_table, i, Without(swap_table, i))
    BY <2>1, Deleted
  <2>4. swap_table' \in Seq(SwapEntry) /\ RestOf(swap_table, i, swap_table')
    BY <2>2, <2>3
  <2> QED BY <2>4 DEF RestOf
<1>9. at'[p] = "reflap" /\ Others(p) /\ at' \in [Procs -> Places]
  BY <1>1 DEF Others, TypeInv, Places, Working, Evicting
<1>10. TypeInv'
  BY <1>1, <1>2, <1>7, <1>8, <1>9 DEF TypeInv, tabVars, lockVars
<1>11. LockInv'
  BY <1>1, <1>9 DEF LockInv, HoldsException, Others, lockVars, Working, Evicting
<1>12. NeedInv'
  BY <1>1, <1>9 DEF NeedInv, Needs, Others, Entered, SwappedOut, Working, Evicting, tabVars
<1>13. \A q \in Procs, w \in UPages : pte[q][w] # k
  BY <1>1, <1>4 DEF HeldInv, Held, Holding
<1>14. PresentInv'
  <2>1. ASSUME NEW q \in Procs, NEW w \in UPages, pte[q][w] # None
        PROVE  PageAt(q, w, pte[q][w])'
    <3>1. PageAt(q, w, pte[q][w]) /\ pte[q][w] \in KPages /\ pte[q][w] # k
      BY <1>13, <2>1 DEF PresentInv, TypeInv
    <3>2. mem'[pte[q][w]] = mem[pte[q][w]]
      BY <1>7, <3>1
    <3> QED BY <1>1, <1>9, <3>1, <3>2 DEF PageAt, Entered, Others, tabVars
  <2> QED BY <1>1, <2>1 DEF PresentInv, Entered, tabVars
<1>15. MappedOnce'
  BY <1>1 DEF MappedOnce, tabVars
<1>16. HeldInv'
  BY <1>1, <1>9 DEF HeldInv, Held, Holding, Others, tabVars
<1>17. TableInv'
  <2>1. \A j \in DOMAIN frametable : frametable[j].owner \in Procs
    BY EntryTypes
  <2> QED BY <1>1, <1>9, <2>1 DEF TableInv, Others, tabVars
<1>18. \A q \in Procs : q # p /\ Holding(q) => req[q].kpage \in KPages /\ req[q].kpage # k
  BY <1>1, <1>4 DEF HeldInv, Held, Holding, TypeInv
<1>19. VictimInv'
  <2>1. ASSUME NEW q \in Procs, q # p PROVE Victimized(q)'
    <3>1. Victimized(q) /\ at'[q] = at[q] /\ req'[q] = req[q]
      BY <1>9, <2>1 DEF VictimInv, Others
    <3>2. at[q] \in {"flap", "out"} => mem'[req[q].victim.kpage] = mem[req[q].victim.kpage]
      BY <1>7, <1>18, <2>1, <3>1 DEF Victimized, Evicting, Holding
    <3>3. at[q] \in {"flap", "out"} => ~ InSwapIn(req[q].victim.owner, req[q].victim.upage)'
      <4>1. SUFFICES ASSUME at[q] \in {"flap", "out"}
                     PROVE  ~ InSwapIn(req[q].victim.owner, req[q].victim.upage)'
        OBVIOUS
      <4>2. PICK v \in FrameEntry : v = req[q].victim /\ v.owner \in Procs /\ v.upage \in UPages
        BY <3>1, <4>1 DEF Victimized, Evicting, FrameEntry
      <4>3. ~ InSwapIn(v.owner, v.upage) /\ (at[q] = "flap" => ~ page_entry[v.owner][v.upage].is_swapped)
        BY <3>1, <4>1, <4>2 DEF Victimized
      <4>4. ~ (v.owner = p /\ v.upage = u)
        BY <1>6, <4>1, <4>2, <4>3 DEF Out, SwappedOut, InSwapOut
      <4>5. ~ InSwapIn(v.owner, v.upage)'
        BY <1>1, <1>3, <1>9, <4>2, <4>3, <4>4 DEF InSwapIn, Others
      <4> QED BY <3>1, <4>2, <4>5
    <3> QED BY <1>1, <3>1, <3>2, <3>3 DEF Victimized, Entered, tabVars
  <2>2. Victimized(p)'
    BY <1>9 DEF Victimized, Evicting
  <2> QED BY <2>1, <2>2 DEF VictimInv
<1>20. SlotInv'
  <2>1. \A j \in DOMAIN swap_table \ {i} : swap_table[j].slot # s
    BY <1>5 DEF SlotInv
  <2>2. \A x \in slots' : \E j \in DOMAIN swap_table' : x = swap_table'[j].slot
    BY <1>2, <1>5, <1>8 DEF SlotInv
  <2>3. \A j \in DOMAIN swap_table' : swap_table'[j].slot \in slots'
    <3> TAKE j \in DOMAIN swap_table'
    <3>1. f[j] \in DOMAIN swap_table \ {i} /\ swap_table'[j] = swap_table[f[j]]
      BY <1>8
    <3> QED BY <1>2, <1>5, <2>1, <3>1 DEF SlotInv
  <2>4. slots' = {swap_table'[j].slot : j \in DOMAIN swap_table'}
    BY <2>2, <2>3
  <2>5. \A j, l \in DOMAIN swap_table' : swap_table'[j].slot = swap_table'[l].slot => j = l
    BY <1>8 DEF SlotInv
  <2> QED BY <2>4, <2>5 DEF SlotInv
<1>21. req[p].kind = "fault" /\ req'[p].kind = "fault" /\ req'[p].upage = u
  BY <1>1, <1>3 DEF NeedInv, Needs
<1>22. \A q \in Procs, w \in UPages :
          /\ InSwapIn(q, w)' <=> InSwapIn(q, w) \/ (q = p /\ w = u)
          /\ InSwapOut(q, w)' = InSwapOut(q, w)
          /\ SwappedOut(q, w)' = SwappedOut(q, w)
  <2>1. \A q \in Procs, w \in UPages : InSwapIn(q, w)' <=> InSwapIn(q, w) \/ (q = p /\ w = u)
    BY <1>1, <1>9, <1>21 DEF InSwapIn, Others
  <2>2. \A q \in Procs, w \in UPages : InSwapOut(q, w)' = InSwapOut(q, w)
    BY <1>1, <1>9 DEF InSwapOut, Others
  <2>3. \A q \in Procs, w \in UPages : SwappedOut(q, w)' = SwappedOut(q, w)
    BY <1>1 DEF SwappedOut, Entered, tabVars
  <2> QED BY <2>1, <2>2, <2>3
<1>23. \A q \in Procs, w \in UPages : Out(q, w)' <=> Out(q, w) /\ ~ (q = p /\ w = u)
  BY <1>22 DEF Out
<1>24. EntryInv'
  <2>1. ASSUME NEW j \in DOMAIN swap_table'
        PROVE  /\ Out(swap_table[j].owner, swap_table[j].upage)'
               /\ page_entry[swap_table'[j].owner][swap_table'[j].upage].kpage = swap_table'[j].kpage
               /\ disk[swap_table'[j].slot] = wrote[swap_table'[j].owner][swap_table'[j].upage]
    <3>1. PICK l \in DOMAIN swap_table : l = f[j] /\ l # i /\ swap_table'[j] = swap_table[l]
      BY <1>8
    <3>2. PICK o \in Procs, w \in UPages : o = swap_table[l].owner /\ w = swap_table[l].upage
      BY EntryTypes
    <3>3. Out(o, w) /\ ~ (o = p /\ w = u)
      BY <1>2, <1>3, <3>1, <3>2 DEF EntryInv, EntryOf
    <3>4. Out(o, w)'  BY <1>23, <3>3
    <3>5. Out(swap_table[j].owner, swap_table[j].upage)'
      BY <3>1, <3>2, <3>4
    <3> QED BY <3>1, <3>5 DEF EntryInv
  <2>2. \A j, l \in DOMAIN swap_table' : EntryOf(l, swap_table[j].owner, swap_table[j].upage)' => j = l
    BY <1>8 DEF EntryInv, EntryOf
  <2>3. ASSUME NEW q \in Procs, NEW w \in UPages, Out(q, w)'
        PROVE  \E j \in DOMAIN swap_table' : EntryOf(j, q, w)'
    <3>1. Out(q, w) /\ ~ (q = p /\ w = u)  BY <1>23, <2>3
    <3>2. PICK l \in DOMAIN swap_table : EntryOf(l, q, w)  BY <3>1 DEF EntryInv
    <3>3. l # i  BY <1>2, <1>3, <3>1, <3>2 DEF EntryOf
    <3>4. PICK j \in DOMAIN swap_table' : f[j] = l  BY <1>8, <3>3
    <3> QED BY <1>8, <3>2, <3>4 DEF EntryOf
  <2> QED BY <1>1, <2>1, <2>2, <2>3 DEF EntryInv, tabVars
<1>25. BackInv'
  <2>1. ASSUME NEW q \in Procs, NEW w \in UPages, InSwapIn(q, w)'
        PROVE  mem'[req'[q].kpage] = wrote'[q][w] /\ ~ InSwapOut(q, w)'
    <3>1. CASE q = p /\ w = u
      BY <1>1, <1>4, <1>6, <1>7, <1>22, <3>1 DEF Out
    <3>2. CASE ~ (q = p /\ w = u)
      <4>1. InSwapIn(q, w) /\ q # p
        BY <1>1, <1>22, <2>1, <3>2 DEF InSwapIn
      <4>2. req[q].kpage \in KPages /\ req[q].kpage # k
        BY <1>18, <4>1 DEF InSwapIn, Holding
      <4> QED BY <1>1, <1>7, <1>22, <4>1, <4>2 DEF BackInv
    <3> QED BY <3>1, <3>2
  <2> QED BY <2>1 DEF BackInv
<1>26. UpdateInv'
  BY <1>1, <1>9, UpdatesKept DEF tabVars
<1> QED BY <1>26, <1>10, <1>11, <1>12, <1>14, <1>15, <1>16, <1>17, <1>19, <1>20, <1>24, <1>25

\* Install()'s effect on the page table: an entry that is there stays, with the frame it had.
LEMMA InstallTable ==
    ASSUME VMGood, NEW p \in Procs, Install(p), NEW u \in UPages, u = req[p].upage,
           NEW k \in KPages, k = req[p].kpage, at[p] = "map"
    PROVE  /\ page_entry' \in [Procs -> PageTables]
           /\ \A q \in Procs : q # p => page_entry'[q] = page_entry[q]
           /\ DOMAIN page_entry'[p] = DOMAIN page_entry[p] \union {u}
           /\ req[p].kind = "load" => page_entry'[p][u].kpage = k
           /\ page_entry'[p][u].is_swapped = FALSE
           /\ \A w \in DOMAIN page_entry[p] : w # u => page_entry'[p][w] = page_entry[p][w]
<1>1. PICK t : t = page_entry[p]  OBVIOUS
<1>2. t \in PageTables /\ DOMAIN t \subseteq UPages /\ t \in [DOMAIN t -> PageEntry]
  BY <1>1, TableType DEF VMGood, TypeInv
<1>3. PICK t2 : t2 = page_entry_insert(t, u, k)  OBVIOUS
<1>4. page_entry' = [page_entry EXCEPT ![p] = t2]
  BY <1>1, <1>3 DEF Install
<1>5. \/ req[p].kind = "load" /\ u \notin DOMAIN t
      \/ req[p].kind # "load" /\ u \in DOMAIN t /\ t[u].is_swapped = FALSE
  BY <1>1 DEF VMGood, NeedInv, Needs, Working, Entered
<1>6. /\ t2 \in [DOMAIN t \union {u} -> PageEntry]
      /\ req[p].kind = "load" => t2[u].kpage = k
      /\ t2[u].is_swapped = FALSE
      /\ \A w \in DOMAIN t : w # u => t2[w] = t[w]
  BY <1>2, <1>3, <1>5 DEF page_entry_insert, PageEntry
<1>7. DOMAIN t2 = DOMAIN t \union {u}
  BY <1>6
<1>8. t2 \in PageTables
  BY <1>2, <1>6, <1>7, TableType
<1> QED BY <1>1, <1>4, <1>6, <1>7, <1>8 DEF VMGood, TypeInv

\* pagedir_set_page() of the new frame keeps VMGood.
LEMMA InstallStep ==
    ASSUME VMGood, NEW p \in Procs, Install(p)
    PROVE  VMGood'
<1> USE DEF VMGood
<1>1. /\ at[p] = "map"
      /\ at' = [at EXCEPT ![p] = IF req[p].kind = "load" THEN "user" ELSE "update"]
      /\ req' = IF req[p].kind = "load" THEN [req EXCEPT ![p] = NoReq] ELSE req
      /\ UNCHANGED <<used, swapVars, lockVars, wrote>>
  BY DEF Install, At, Goto
<1>2. PICK u \in UPages : u = req[p].upage
  BY <1>1 DEF NeedInv, Needs, Working
<1>3. PICK k \in KPages : k = req[p].kpage /\ k \in used
  BY <1>1 DEF HeldInv, Held, Holding, TypeInv
<1>4. /\ pte' = [pte EXCEPT ![p][u] = k]
      /\ frametable' = Append(frametable, [upage |-> u, kpage |-> k, owner |-> p])
      /\ mem' = IF req[p].kind = "load" THEN [mem EXCEPT ![k] = 0] ELSE mem
  BY <1>2, <1>3 DEF Install, frame_entry_insert
<1>5. /\ page_entry' \in [Procs -> PageTables]
      /\ \A q \in Procs : q # p => page_entry'[q] = page_entry[q]
      /\ DOMAIN page_entry'[p] = DOMAIN page_entry[p] \union {u}
      /\ req[p].kind = "load" => page_entry'[p][u].kpage = k
      /\ page_entry'[p][u].is_swapped = FALSE
      /\ \A w \in DOMAIN page_entry[p] : w # u => page_entry'[p][w] = page_entry[p][w]
  BY <1>1, <1>2, <1>3, InstallTable
<1>6. /\ pte[p][u] = None
      /\ \/ req[p].kind = "load" /\ ~ Entered(p, u)
         \/ req[p].kind = "fault" /\ InSwapIn(p, u)
  BY <1>1, <1>2 DEF NeedInv, Needs, Working, InSwapIn
<1>7. \A q \in Procs, w \in UPages : pte[q][w] # k
  BY <1>1, <1>3 DEF HeldInv, Held, Holding
<1>8. \A q \in Procs : q # p /\ Holding(q) => req[q].kpage \in KPages /\ req[q].kpage # k
  BY <1>1, <1>3 DEF HeldInv, Held, Holding, TypeInv
<1>9. /\ mem' \in [KPages -> Contents] /\ mem'[k] = wrote[p][u]
      /\ \A l \in KPages : l # k => mem'[l] = mem[l]
  <2>1. CASE req[p].kind = "load" /\ ~ Entered(p, u)
    <3>1. wrote[p][u] = 0  BY <2>1 DEF PresentInv
    <3> QED BY <1>4, <2>1, <3>1 DEF TypeInv, Contents
  <2>2. CASE req[p].kind = "fault"
    <3>1. InSwapIn(p, u)  BY <1>6, <2>2
    <3>2. mem[k] = wrote[p][u]  BY <1>3, <3>1 DEF BackInv
    <3> QED BY <1>4, <2>2, <3>2 DEF TypeInv
  <2> QED BY <1>6, <2>1, <2>2
<1>10. /\ pte' \in [Procs -> [UPages -> KPages \union {None}]] /\ pte'[p][u] = k
       /\ \A q \in Procs, w \in UPages : ~ (q = p /\ w = u) => pte'[q][w] = pte[q][w]
  BY <1>4 DEF TypeInv
<1>11. PICK f \in FrameEntry : /\ f.owner = p /\ f.upage = u /\ f.kpage = k
                               /\ frametable' = Append(frametable, f)
  BY <1>4 DEF FrameEntry
<1>12. PICK n \in Nat : n = Len(frametable)
  BY DEF TypeInv
<1>13. /\ frametable' \in Seq(FrameEntry) /\ DOMAIN frametable = 1 .. n
       /\ DOMAIN frametable' = 1 .. n + 1 /\ frametable'[n + 1] = f
       /\ \A i \in 1 .. n : frametable'[i] = frametable[i]
  BY <1>11, <1>12 DEF TypeInv
<1>14. \A i \in 1 .. n + 1 : i \in 1 .. n \/ i = n + 1
  OBVIOUS
<1>15. /\ at'[p] = IF req[p].kind = "load" THEN "user" ELSE "update"
       /\ Others(p) /\ at' \in [Procs -> Places] /\ req' \in [Procs -> ReqRecords]
       /\ req[p].kind = "load" \/ req'[p] = req[p]
  BY <1>1, RequestType DEF Others, TypeInv, Places, Working, Evicting
<1>16. TypeInv'
  BY <1>1, <1>5, <1>9, <1>10, <1>13, <1>15 DEF TypeInv, swapVars, lockVars
<1>17. LockInv'
  BY <1>1, <1>6, <1>15 DEF LockInv, HoldsException, Others, Working, Evicting, lockVars
<1>18. \A q \in Procs, w \in UPages :
          ~ (q = p /\ w = u) => /\ Entered(q, w)' = Entered(q, w)
                                /\ SwappedOut(q, w)' = SwappedOut(q, w)
                                /\ Entered(q, w) => page_entry'[q][w] = page_entry[q][w]
  <2> TAKE q \in Procs, w \in UPages
  <2>1. CASE q # p  BY <1>5, <2>1 DEF Entered, SwappedOut
  <2>2. CASE q = p /\ w # u  BY <1>5, <2>2 DEF Entered, SwappedOut
  <2> QED BY <2>1, <2>2
<1>19. Entered(p, u)' /\ ~ SwappedOut(p, u)'
  BY <1>5 DEF Entered, SwappedOut
<1>20. NeedInv'
  <2>1. ASSUME NEW q \in Procs, q # p PROVE Needs(q)'
    <3>1. at'[q] = at[q] /\ req'[q] = req[q] /\ Needs(q) /\ page_entry'[q] = page_entry[q]
          /\ \A w \in UPages : pte'[q][w] = pte[q][w]
      BY <1>5, <1>10, <1>15, <2>1 DEF Others, NeedInv
    <3> QED BY <3>1 DEF Needs, Entered, Working, Evicting
  <2>2. Needs(p)'
    BY <1>15 DEF Needs, Working, Evicting
  <2> QED BY <2>1, <2>2 DEF NeedInv
<1>21. PresentInv'
  <2>1. ASSUME NEW q \in Procs, NEW w \in UPages
        PROVE  /\ pte'[q][w] # None => PageAt(q, w, pte[q][w])'
               /\ ~ Entered(q, w)' => wrote'[q][w] = 0
    <3>1. CASE q = p /\ w = u
      <4>1. PageAt(q, w, pte[q][w])'
        <5>1. page_entry'[p][u].kpage = k \/ (at'[p] = "update" /\ req'[p].upage = u)
          BY <1>2, <1>5, <1>6, <1>15
        <5>2. at'[p] # "dead"  BY <1>15
        <5> QED BY <1>1, <1>3, <1>5, <1>9, <1>10, <1>19, <3>1, <5>1, <5>2 DEF PageAt
      <4> QED BY <1>19, <3>1, <4>1
    <3>2. CASE ~ (q = p /\ w = u)
      <4>1. pte'[q][w] = pte[q][w]  BY <1>10, <3>2
      <4>2. ASSUME pte[q][w] # None
            PROVE  PageAt(q, w, pte[q][w])'
        <5>1. PageAt(q, w, pte[q][w]) /\ pte[q][w] \in KPages /\ pte[q][w] # k
          BY <1>7, <4>2 DEF PresentInv, TypeInv
        <5>2. mem'[pte[q][w]] = mem[pte[q][w]]  BY <1>9, <5>1
        <5>3. page_entry'[q][w] = page_entry[q][w] /\ Entered(q, w)'
          BY <1>18, <3>2, <5>1 DEF PageAt
        <5>4. at'[q] # "dead"
          BY <1>15, <5>1 DEF PageAt, Others
        <5>5. page_entry[q][w].kpage = pte[q][w] \/ (at'[q] = "update" /\ req'[q].upage = w)
          BY <1>1, <1>15, <5>1 DEF PageAt, Others
        <5> QED BY <1>1, <4>1, <5>1, <5>2, <5>3, <5>4, <5>5 DEF PageAt
      <4> QED BY <1>1, <1>18, <3>2, <4>1, <4>2 DEF PresentInv
    <3> QED BY <3>1, <3>2
  <2> QED BY <2>1 DEF PresentInv
<1>22. MappedOnce'
  BY <1>7, <1>10 DEF MappedOnce
<1>23. HeldInv'
  <2>1. ASSUME NEW q \in Procs, Holding(q)'
        PROVE  Holding(q) /\ q # p /\ req'[q] = req[q]
    BY <1>1, <1>15, <2>1 DEF Holding, Others
  <2> QED BY <1>1, <1>8, <1>10, <2>1 DEF HeldInv, Held
<1>24. TableInv'
  <2>1. \A i \in 1 .. n : frametable[i].owner \in Procs /\ frametable[i].upage \in UPages
                          /\ frametable[i].kpage # None
    BY <1>13, EntryTypes, VirtualMemoryAssumption
  <2>2. \A i \in 1 .. n : ~ (frametable[i].owner = p /\ frametable[i].upage = u)
    BY <1>6, <1>13, <2>1 DEF TableInv
  <2>3. \A i \in 1 .. n : at'[frametable[i].owner] \notin {"destroy", "dead"}
    BY <1>13, <1>15, <2>1 DEF TableInv, Others
  <2>4. \A i \in 1 .. n : pte'[frametable[i].owner][frametable[i].upage] = frametable[i].kpage
    BY <1>10, <1>13, <2>1, <2>2 DEF TableInv
  <2>5. \A i \in 1 .. n + 1 : /\ at'[frametable'[i].owner] \notin {"destroy", "dead"}
                              /\ pte'[frametable'[i].owner][frametable'[i].upage] = frametable'[i].kpage
    BY <1>10, <1>11, <1>13, <1>14, <1>15, <2>3, <2>4
  <2>6. \A i, j \in 1 .. n + 1 : /\ frametable'[i].owner = frametable'[j].owner
                                 /\ frametable'[i].upage = frametable'[j].upage
                                 => i = j
    BY <1>11, <1>13, <1>14, <2>2 DEF TableInv
  <2> QED BY <1>13, <2>5, <2>6 DEF TableInv
<1>25. VictimInv'
  <2>1. ASSUME NEW q \in Procs, q # p, at[q] \in Evicting \ {"victim"} PROVE Victimized(q)'
    <3>1. PICK v \in FrameEntry : v = req[q].victim /\ v.kpage = req[q].kpage
      BY <2>1 DEF VictimInv, Victimized
    <3>2. v.owner \in Procs /\ v.upage \in UPages /\ v.kpage \in KPages  BY DEF FrameEntry
    <3>3. at'[q] = at[q] /\ req'[q] = req[q]  BY <1>15, <2>1 DEF Others
    <3>4. CASE at[q] = "clear"
      <4>1. pte[v.owner][v.upage] = v.kpage /\ ~ (v.owner = p /\ v.upage = u)
        BY <1>6, <3>1, <3>2, <3>4, VirtualMemoryAssumption DEF VictimInv, Victimized
      <4>2. pte'[v.owner][v.upage] = v.kpage  BY <1>10, <3>2, <4>1
      <4>3. \A i \in 1 .. n : ~ (frametable[i].owner = v.owner /\ frametable[i].upage = v.upage)
        BY <1>13, <3>1, <3>4 DEF VictimInv, Victimized
      <4>4. \A i \in 1 .. n + 1 : ~ (frametable'[i].owner = v.owner /\ frametable'[i].upage = v.upage)
        BY <1>11, <1>13, <1>14, <4>1, <4>3
      <4>5. page_entry[v.owner][v.upage].kpage = v.kpage /\ Entered(v.owner, v.upage)
        <5>1. page_entry[v.owner][v.upage].kpage = v.kpage
          BY <3>1, <3>4 DEF VictimInv, Victimized
        <5>2. pte[v.owner][v.upage] # None
          BY <3>2, <4>1, VirtualMemoryAssumption
        <5> QED BY <3>2, <5>1, <5>2 DEF PresentInv, PageAt
      <4>6. page_entry'[v.owner][v.upage].kpage = v.kpage
        BY <1>18, <3>2, <4>1, <4>5
      <4> QED BY <1>13, <3>1, <3>3, <3>4, <4>2, <4>4, <4>6 DEF Victimized
    <3>5. CASE at[q] \in {"flap", "out"}
      <4>1. /\ pte[v.owner][v.upage] = None /\ Entered(v.owner, v.upage)
            /\ page_entry[v.owner][v.upage].kpage = v.kpage
            /\ page_entry[v.owner][v.upage].is_swapped = (at[q] = "out")
            /\ mem[v.kpage] = wrote[v.owner][v.upage] /\ ~ InSwapIn(v.owner, v.upage)
        BY <3>1, <3>5 DEF VictimInv, Victimized
      <4>2. ~ (v.owner = p /\ v.upage = u)
        BY <1>6, <4>1
      <4>3. v.kpage # k
        BY <1>8, <2>1, <3>1, <3>5 DEF Holding
      <4>4. /\ pte'[v.owner][v.upage] = None /\ Entered(v.owner, v.upage)'
            /\ page_entry'[v.owner][v.upage] = page_entry[v.owner][v.upage]
            /\ mem'[v.kpage] = wrote[v.owner][v.upage]
        BY <1>9, <1>10, <1>18, <3>2, <4>1, <4>2, <4>3
      <4>5. ~ InSwapIn(v.owner, v.upage)'
        BY <1>15, <3>2, <4>1 DEF InSwapIn, Others
      <4> QED BY <1>1, <3>1, <3>3, <3>5, <4>1, <4>4, <4>5 DEF Victimized
    <3>6. CASE at[q] = "evicted"
      BY <3>1, <3>3, <3>6 DEF Victimized
    <3> QED BY <2>1, <3>4, <3>5, <3>6 DEF Evicting
  <2>2. ASSUME NEW q \in Procs, q = p \/ at[q] \notin Evicting \ {"victim"} PROVE Victimized(q)'
    BY <1>15, <2>2 DEF Victimized, Evicting, Others
  <2> QED BY <2>1, <2>2 DEF VictimInv
<1>26. SlotInv'
  BY <1>1 DEF SlotInv, swapVars
<1>27. \A q \in Procs, w \in UPages :
          /\ InSwapIn(q, w)' => InSwapIn(q, w)
          /\ InSwapIn(q, w) => InSwapIn(q, w)' \/ (q = p /\ w = u)
          /\ InSwapOut(q, w)' = InSwapOut(q, w)
  <2>1. \A q \in Procs, w \in UPages : /\ InSwapIn(q, w)' => InSwapIn(q, w)
                                       /\ InSwapIn(q, w) => InSwapIn(q, w)' \/ (q = p /\ w = u)
    BY <1>2, <1>15 DEF InSwapIn, Others, NeedInv, Needs
  <2>2. \A q \in Procs, w \in UPages : InSwapOut(q, w)' = InSwapOut(q, w)
    BY <1>1, <1>15 DEF InSwapOut, Others
  <2> QED BY <2>1, <2>2
<1>28. ~ Out(p, u) /\ ~ Out(p, u)'
  BY <1>6, <1>19 DEF Out, SwappedOut
<1>29. \A q \in Procs, w \in UPages : Out(q, w)' = Out(q, w)
  <2> TAKE q \in Procs, w \in UPages
  <2>1. CASE q = p /\ w = u  BY <1>28, <2>1 DEF Out
  <2>2. CASE ~ (q = p /\ w = u)  BY <1>18, <1>27, <2>2 DEF Out
  <2> QED BY <2>1, <2>2
<1>30. EntryInv'
  <2>1. \A i \in DOMAIN swap_table :
            LET e == swap_table[i] IN
            e.owner \in Procs /\ e.upage \in UPages /\ Out(e.owner, e.upage)
    BY EntryTypes DEF EntryInv
  <2>2. ASSUME NEW i \in DOMAIN swap_table
        PROVE  page_entry'[swap_table[i].owner][swap_table[i].upage].kpage = swap_table[i].kpage
    <3>1. SwappedOut(swap_table[i].owner, swap_table[i].upage)
          /\ ~ (swap_table[i].owner = p /\ swap_table[i].upage = u)
      BY <1>28, <2>1 DEF Out
    <3>2. page_entry[swap_table[i].owner][swap_table[i].upage].kpage = swap_table[i].kpage
      BY DEF EntryInv
    <3> QED BY <1>18, <2>1, <3>1, <3>2 DEF SwappedOut
  <2>3. \A i \in DOMAIN swap_table : Out(swap_table[i].owner, swap_table[i].upage)'
    BY <1>1, <1>29, <2>1 DEF swapVars
  <2> QED BY <1>1, <1>29, <2>2, <2>3 DEF EntryInv, EntryOf, swapVars
<1>31. BackInv'
  <2>1. ASSUME NEW q \in Procs, NEW w \in UPages, InSwapIn(q, w)'
        PROVE  mem'[req'[q].kpage] = wrote'[q][w] /\ ~ InSwapOut(q, w)'
    <3>1. InSwapIn(q, w) /\ q # p /\ req'[q] = req[q]
      BY <1>15, <1>27, <2>1 DEF InSwapIn, Others
    <3>2. req[q].kpage \in KPages /\ req[q].kpage # k
      BY <1>8, <3>1 DEF InSwapIn, Holding
    <3> QED BY <1>1, <1>9, <1>27, <3>1, <3>2 DEF BackInv
  <2> QED BY <2>1 DEF BackInv
<1>32. UpdateInv'
  <2>1. ASSUME NEW q \in Procs, q # p PROVE Updates(q)'
    <3>1. at'[q] = at[q] /\ req'[q] = req[q] /\ Updates(q) /\ page_entry'[q] = page_entry[q]
          /\ \A w \in UPages : pte'[q][w] = pte[q][w]
      BY <1>5, <1>10, <1>15, <2>1 DEF Others, UpdateInv
    <3> QED BY <3>1 DEF Updates, Entered
  <2>2. Updates(p)'
    BY <1>2, <1>3, <1>6, <1>10, <1>15, <1>19, VirtualMemoryAssumption DEF Updates
  <2> QED BY <2>1, <2>2 DEF UpdateInv
<1> QED BY <1>16, <1>17, <1>20, <1>21, <1>22, <1>23, <1>24, <1>25, <1>26, <1>30, <1>31, <1>32

-----------------------------------------------------------------------------
(* The end of page_fault(), and of a load that fails.                      *)

\* flap_swapped_flag() by page_fault() keeps VMGood: the page is neither out nor mapped,
\* and nobody evicts it.
LEMMA ReflapStep ==
    ASSUME VMGood, NEW p \in Procs, Reflap(p)
    PROVE  VMGood'
<1> USE DEF VMGood
<1>1. /\ at[p] = "reflap" /\ at' = [at EXCEPT ![p] = "map"]
      /\ UNCHANGED <<req, used, mem, pte, frametable, swapVars, lockVars, wrote>>
  BY DEF Reflap, At, Goto
<1>2. PICK u \in UPages : /\ u = req[p].upage /\ pte[p][u] = None /\ req[p].kind = "fault"
                          /\ Entered(p, u) /\ page_entry[p][u].is_swapped = TRUE
                          /\ InSwapIn(p, u)
  BY <1>1 DEF NeedInv, Needs, Working, InSwapIn
<1>3. /\ page_entry' \in [Procs -> PageTables]
      /\ \A q \in Procs : q # p => page_entry'[q] = page_entry[q]
      /\ DOMAIN page_entry'[p] = DOMAIN page_entry[p]
      /\ page_entry'[p][u].kpage = page_entry[p][u].kpage
      /\ page_entry'[p][u].is_swapped = FALSE
      /\ \A w \in DOMAIN page_entry[p] : w # u => page_entry'[p][w] = page_entry[p][w]
  <2>1. PICK t : t = page_entry[p]  OBVIOUS
  <2>2. t \in PageTables /\ u \in DOMAIN t
    BY <1>2, <2>1 DEF TypeInv, Entered
  <2>3. DOMAIN t \subseteq UPages /\ t \in [DOMAIN t -> PageEntry]
    BY <2>2, TableType
  <2>4. PICK t2 : t2 = [t EXCEPT ![u].is_swapped = ~ @]  OBVIOUS
  <2>5. /\ t2 \in [DOMAIN t -> PageEntry] /\ t2[u].kpage = t[u].kpage
        /\ t2[u].is_swapped = ~ t[u].is_swapped
        /\ \A w \in DOMAIN t : w # u => t2[w] = t[w]
    BY <2>2, <2>3, <2>4 DEF PageEntry
  <2>6. DOMAIN t2 = DOMAIN t  BY <2>5
  <2>7. t2 \in PageTables  BY <2>3, <2>5, <2>6, TableType
  <2>8. page_entry' = [page_entry EXCEPT ![p] = t2]
    BY <1>2, <2>1, <2>4 DEF Reflap, flap_swapped_flag
  <2> QED BY <1>2, <2>1, <2>5, <2>6, <2>7, <2>8 DEF TypeInv
<1>4. at'[p] = "map" /\ Others(p) /\ at' \in [Procs -> Places]
  BY <1>1 DEF Others, TypeInv, Places, Working, Evicting
<1>5. TypeInv'
  BY <1>1, <1>3, <1>4 DEF TypeInv, swapVars, lockVars
<1>6. LockInv'
  BY <1>1, <1>4 DEF LockInv, HoldsException, Others, lockVars, Working, Evicting
<1>7. \A q \in Procs, w \in UPages :
          /\ Entered(q, w)' = Entered(q, w)
          /\ ~ (q = p /\ w = u) => /\ SwappedOut(q, w)' = SwappedOut(q, w)
                                   /\ Entered(q, w) => page_entry'[q][w] = page_entry[q][w]
  <2> TAKE q \in Procs, w \in UPages
  <2>1. CASE q # p  BY <1>3, <2>1 DEF Entered, SwappedOut
  <2>2. CASE q = p  BY <1>3, <2>2 DEF Entered, SwappedOut
  <2> QED BY <2>1, <2>2
<1>8. NeedInv'
  <2>1. ASSUME NEW q \in Procs, q # p PROVE Needs(q)'
    <3>1. at'[q] = at[q] /\ req'[q] = req[q] /\ Needs(q) /\ page_entry'[q] = page_entry[q]
          /\ pte' = pte
      BY <1>1, <1>3, <1>4, <2>1 DEF Others, NeedInv
    <3> QED BY <3>1 DEF Needs, Entered, Working, Evicting
  <2>2. Needs(p)'
    BY <1>1, <1>2, <1>3, <1>4, <1>7 DEF Needs, Working
  <2> QED BY <2>1, <2>2 DEF NeedInv
<1>9. PresentInv'
  <2>1. ASSUME NEW q \in Procs, NEW w \in UPages, pte[q][w] # None
        PROVE  PageAt(q, w, pte[q][w])'
    <3>1. PageAt(q, w, pte[q][w]) /\ ~ (q = p /\ w = u)  BY <1>2, <2>1 DEF PresentInv
    <3>2. page_entry'[q][w] = page_entry[q][w] /\ Entered(q, w)'  BY <1>7, <3>1 DEF PageAt
    <3>3. /\ at'[q] # "dead"
          /\ page_entry[q][w].kpage = pte[q][w] \/ (at'[q] = "update" /\ req'[q].upage = w)
      BY <1>1, <1>4, <3>1 DEF PageAt, Others
    <3> QED BY <1>1, <3>1, <3>2, <3>3 DEF PageAt
  <2> QED BY <1>1, <1>7, <2>1 DEF PresentInv
<1>10. UpdateInv'
  <2>1. ASSUME NEW q \in Procs, at'[q] = "update" PROVE Updates(q)'
    <3>1. q # p /\ at[q] = "update" /\ req'[q] = req[q] /\ page_entry'[q] = page_entry[q]
      BY <1>1, <1>3, <1>4, <2>1 DEF Others
    <3> QED BY <1>1, <2>1, <3>1 DEF UpdateInv, Updates, Entered
  <2> QED BY <2>1 DEF UpdateInv, Updates
<1>11. MappedOnce'
  BY <1>1 DEF MappedOnce
<1>12. HeldInv'
  <2>1. \A q \in Procs : Holding(q)' = Holding(q)  BY <1>1, <1>4 DEF Holding, Others
  <2> QED BY <1>1, <2>1 DEF HeldInv, Held
<1>13. TableInv'
  <2>1. \A i \in DOMAIN frametable : frametable[i].owner \in Procs
    BY EntryTypes
  <2> QED BY <1>1, <1>4, <2>1 DEF TableInv, Others
<1>14. \A q \in Procs, w \in UPages :
          InSwapIn(q, w)' = InSwapIn(q, w) /\ InSwapOut(q, w)' = InSwapOut(q, w)
  <2>1. \A q \in Procs, w \in UPages : InSwapIn(q, w)' = InSwapIn(q, w)
    BY <1>1, <1>4 DEF InSwapIn, Others
  <2>2. \A q \in Procs, w \in UPages : InSwapOut(q, w)' = InSwapOut(q, w)
    BY <1>1, <1>4 DEF InSwapOut, Others
  <2> QED BY <2>1, <2>2
<1>15. VictimInv'
  <2>1. ASSUME NEW q \in Procs, at'[q] \in Evicting \ {"victim"} PROVE Victimized(q)'
    <3>1. at'[q] = at[q] /\ req'[q] = req[q] /\ Victimized(q)
      BY <1>1, <1>4, <2>1 DEF Others, VictimInv, Evicting
    <3>2. PICK v \in FrameEntry : /\ v = req[q].victim /\ v.owner \in Procs /\ v.upage \in UPages
                                  /\ v.kpage \in KPages
      BY <2>1, <3>1 DEF Victimized, FrameEntry
    <3>3. InSwapIn(v.owner, v.upage)' = InSwapIn(v.owner, v.upage)  BY <1>14, <3>2
    <3>4. ASSUME at[q] = "clear" PROVE page_entry'[v.owner][v.upage].kpage = v.kpage
      <4>1. pte[v.owner][v.upage] = v.kpage /\ page_entry[v.owner][v.upage].kpage = v.kpage
        BY <3>1, <3>2, <3>4 DEF Victimized
      <4>2. ~ (v.owner = p /\ v.upage = u) /\ Entered(v.owner, v.upage)
        BY <1>2, <3>2, <4>1, VirtualMemoryAssumption DEF PresentInv, PageAt
      <4> QED BY <1>7, <3>2, <4>1, <4>2
    <3>5. ASSUME at[q] \in {"flap", "out"}
          PROVE  /\ Entered(v.owner, v.upage)'
                 /\ page_entry'[v.owner][v.upage] = page_entry[v.owner][v.upage]
      <4>1. ~ InSwapIn(v.owner, v.upage) /\ Entered(v.owner, v.upage)
        BY <3>1, <3>2, <3>5 DEF Victimized
      <4>2. ~ (v.owner = p /\ v.upage = u)  BY <1>2, <4>1
      <4> QED BY <1>7, <3>2, <4>1, <4>2
    <3> QED BY <1>1, <3>1, <3>2, <3>3, <3>4, <3>5 DEF Victimized
  <2> QED BY <2>1 DEF VictimInv, Victimized, Evicting
<1>16. SlotInv'
  BY <1>1 DEF SlotInv, swapVars
<1>17. ~ Out(p, u) /\ \A q \in Procs, w \in UPages : Out(q, w)' = Out(q, w)
  <2>1. ~ Out(p, u) /\ ~ Out(p, u)'  BY <1>2, <1>14 DEF Out
  <2> QED BY <1>7, <1>14, <2>1 DEF Out
<1>18. EntryInv'
  <2>1. ASSUME NEW q \in Procs, NEW w \in UPages, Out(q, w)
        PROVE  page_entry'[q][w].kpage = page_entry[q][w].kpage
    <3>1. Entered(q, w) /\ ~ (q = p /\ w = u)  BY <1>17, <2>1 DEF Out, SwappedOut
    <3> QED BY <1>7, <3>1
  <2> QED BY <1>1, <1>17, <2>1, EntriesMoved DEF swapVars
<1>19. BackInv'
  BY <1>1, <1>14 DEF BackInv
<1> QED BY <1>5, <1>6, <1>8, <1>9, <1>10, <1>11, <1>12, <1>13, <1>15, <1>16, <1>18, <1>19

\* page_entry_update_kpage() and the end of page_fault() keep VMGood.
LEMMA UpdateStep ==
    ASSUME VMGood, NEW p \in Procs, Update(p)
    PROVE  VMGood'
<1> USE DEF VMGood
<1>1. /\ at[p] = "update" /\ at' = [at EXCEPT ![p] = "user"] /\ req' = [req EXCEPT ![p] = NoReq]
      /\ exception_lock' = Nobody
      /\ UNCHANGED <<used, mem, pte, frametable, swapVars, page_lock, swap_lock, wrote>>
  BY DEF Update, At, Goto
<1>2. PICK u \in UPages : u = req[p].upage
  BY <1>1 DEF UpdateInv, Updates
<1>3. PICK k \in KPages : k = req[p].kpage
  BY <1>1 DEF UpdateInv, Updates
<1>4. /\ Entered(p, u) /\ req[p].kind = "fault" /\ pte[p][u] \in {None, k}
      /\ pte[p][u] = None => page_entry[p][u].kpage = k
  BY <1>1, <1>2, <1>3 DEF UpdateInv, Updates
<1>5. /\ page_entry' \in [Procs -> PageTables]
      /\ \A q \in Procs : q # p => page_entry'[q] = page_entry[q]
      /\ DOMAIN page_entry'[p] = DOMAIN page_entry[p]
      /\ page_entry'[p][u].kpage = k
      /\ page_entry'[p][u].is_swapped = page_entry[p][u].is_swapped
      /\ \A w \in DOMAIN page_entry[p] : w # u => page_entry'[p][w] = page_entry[p][w]
  <2>1. PICK t : t = page_entry[p]  OBVIOUS
  <2>2. t \in PageTables /\ u \in DOMAIN t
    BY <1>4, <2>1 DEF TypeInv, Entered
  <2>3. DOMAIN t \subseteq UPages /\ t \in [DOMAIN t -> PageEntry]
    BY <2>2, TableType
  <2>4. PICK t2 : t2 = [t EXCEPT ![u].kpage = k]  OBVIOUS
  <2>5. /\ t2 \in [DOMAIN t -> PageEntry] /\ t2[u].kpage = k
        /\ t2[u].is_swapped = t[u].is_swapped
        /\ \A w \in DOMAIN t : w # u => t2[w] = t[w]
    BY <2>2, <2>3, <2>4 DEF PageEntry
  <2>6. DOMAIN t2 = DOMAIN t  BY <2>5
  <2>7. t2 \in PageTables  BY <2>3, <2>5, <2>6, TableType
  <2>8. page_entry' = [page_entry EXCEPT ![p] = t2]
    BY <1>2, <1>3, <2>1, <2>4 DEF Update, page_entry_update_kpage
  <2> QED BY <2>1, <2>5, <2>6, <2>7, <2>8 DEF TypeInv
<1>6. /\ at'[p] = "user" /\ Others(p) /\ at' \in [Procs -> Places]
      /\ req' \in [Procs -> ReqRecords]
  BY <1>1, RequestType DEF Others, TypeInv, Places, Working, Evicting
<1>7. TypeInv'
  BY <1>1, <1>5, <1>6 DEF TypeInv, swapVars
<1>8. LockInv'
  <2>1. exception_lock = p  BY <1>1, <1>4 DEF LockInv, HoldsException
  <2> QED BY <1>1, <1>6, <2>1, VirtualMemoryAssumption
       DEF LockInv, HoldsException, Others, Working, Evicting
<1>9. \A q \in Procs, w \in UPages :
          /\ Entered(q, w)' = Entered(q, w) /\ SwappedOut(q, w)' = SwappedOut(q, w)
          /\ Entered(q, w) => page_entry'[q][w].is_swapped = page_entry[q][w].is_swapped
          /\ ~ (q = p /\ w = u) => (Entered(q, w) => page_entry'[q][w] = page_entry[q][w])
  <2> TAKE q \in Procs, w \in UPages
  <2>1. CASE q # p  BY <1>5, <2>1 DEF Entered, SwappedOut
  <2>2. CASE q = p  BY <1>5, <2>2 DEF Entered, SwappedOut
  <2> QED BY <2>1, <2>2
<1>10. \A q \in Procs, w \in UPages :
          /\ InSwapIn(q, w)' = InSwapIn(q, w) /\ InSwapOut(q, w)' = InSwapOut(q, w)
          /\ Out(q, w)' = Out(q, w)
  <2>1. \A q \in Procs, w \in UPages : InSwapIn(q, w)' = InSwapIn(q, w)
    BY <1>1, <1>6 DEF InSwapIn, Others
  <2>2. \A q \in Procs, w \in UPages : InSwapOut(q, w)' = InSwapOut(q, w)
    BY <1>1, <1>6 DEF InSwapOut, Others
  <2> QED BY <1>9, <2>1, <2>2 DEF Out
<1>11. NeedInv'
  <2>1. ASSUME NEW q \in Procs, q # p PROVE Needs(q)'
    <3>1. at'[q] = at[q] /\ req'[q] = req[q] /\ Needs(q) /\ page_entry'[q] = page_entry[q]
          /\ pte' = pte
      BY <1>1, <1>5, <1>6, <2>1 DEF Others, NeedInv
    <3> QED BY <3>1 DEF Needs, Entered, Working, Evicting
  <2>2. Needs(p)'  BY <1>6 DEF Needs, Working, Evicting
  <2> QED BY <2>1, <2>2 DEF NeedInv
<1>12. PresentInv'
  <2>1. ASSUME NEW q \in Procs, NEW w \in UPages, pte[q][w] # None
        PROVE  PageAt(q, w, pte[q][w])'
    <3>1. PageAt(q, w, pte[q][w])  BY <2>1 DEF PresentInv
    <3>2. at'[q] # "dead" /\ Entered(q, w)' /\ ~ page_entry'[q][w].is_swapped
      BY <1>6, <1>9, <3>1 DEF PageAt, Others
    <3>3. page_entry'[q][w].kpage = pte[q][w] \/ (at'[q] = "update" /\ req'[q].upage = w)
      <4>1. CASE q = p /\ w = u  BY <1>4, <1>5, <2>1, <4>1
      <4>2. CASE ~ (q = p /\ w = u)
        BY <1>2, <1>6, <1>9, <3>1, <4>2 DEF PageAt, Others
      <4> QED BY <4>1, <4>2
    <3> QED BY <1>1, <3>1, <3>2, <3>3 DEF PageAt
  <2> QED BY <1>1, <1>9, <2>1 DEF PresentInv
<1>13. UpdateInv'
  <2>1. ASSUME NEW q \in Procs, at'[q] = "update" PROVE Updates(q)'
    <3>1. q # p /\ at[q] = "update" /\ req'[q] = req[q] /\ page_entry'[q] = page_entry[q]
      BY <1>1, <1>5, <1>6, <2>1 DEF Others
    <3> QED BY <1>1, <2>1, <3>1 DEF UpdateInv, Updates, Entered
  <2> QED BY <2>1 DEF UpdateInv, Updates
<1>14. MappedOnce'
  BY <1>1 DEF MappedOnce
<1>15. HeldInv'
  BY <1>1, <1>6 DEF HeldInv, Held, Holding, Others
<1>16. TableInv'
  <2>1. \A i \in DOMAIN frametable : frametable[i].owner \in Procs
    BY EntryTypes
  <2> QED BY <1>1, <1>6, <2>1 DEF TableInv, Others
<1>17. VictimInv'
  <2>1. ASSUME NEW q \in Procs, at'[q] \in Evicting \ {"victim"} PROVE Victimized(q)'
    <3>1. at'[q] = at[q] /\ req'[q] = req[q] /\ Victimized(q)
      BY <1>1, <1>6, <2>1 DEF Others, VictimInv, Evicting
    <3>2. PICK v \in FrameEntry : /\ v = req[q].victim /\ v.owner \in Procs /\ v.upage \in UPages
                                  /\ v.kpage \in KPages
      BY <2>1, <3>1 DEF Victimized, FrameEntry
    <3>3. InSwapIn(v.owner, v.upage)' = InSwapIn(v.owner, v.upage)  BY <1>10, <3>2
    <3>4. ASSUME at[q] \in {"clear", "flap", "out"}
          PROVE  /\ Entered(v.owner, v.upage)'
                 /\ page_entry'[v.owner][v.upage].kpage = v.kpage
                 /\ page_entry'[v.owner][v.upage].is_swapped = page_entry[v.owner][v.upage].is_swapped
      <4>1. /\ Entered(v.owner, v.upage) /\ page_entry[v.owner][v.upage].kpage = v.kpage
            /\ pte[v.owner][v.upage] \in {None, v.kpage}
        BY <3>1, <3>2, <3>4, VirtualMemoryAssumption DEF Victimized, PresentInv, PageAt
      <4>2. CASE v.owner = p /\ v.upage = u
        <5>1. k = v.kpage  BY <1>4, <4>1, <4>2, VirtualMemoryAssumption
        <5> QED BY <1>5, <1>9, <3>2, <4>1, <4>2, <5>1
      <4>3. CASE ~ (v.owner = p /\ v.upage = u)
        BY <1>9, <3>2, <4>1, <4>3
      <4> QED BY <4>2, <4>3
    <3> QED BY <1>1, <3>1, <3>2, <3>3, <3>4 DEF Victimized
  <2> QED BY <2>1 DEF VictimInv, Victimized, Evicting
<1>18. SlotInv'
  BY <1>1 DEF SlotInv, swapVars
<1>19. EntryInv'
  <2>1. ASSUME NEW q \in Procs, NEW w \in UPages, Out(q, w)
        PROVE  page_entry'[q][w].kpage = page_entry[q][w].kpage
    <3>1. Entered(q, w) /\ page_entry[q][w].is_swapped  BY <2>1 DEF Out, SwappedOut
    <3>2. CASE q = p /\ w = u
      <4>1. pte[p][u] = None
        BY <3>1, <3>2 DEF PresentInv, PageAt
      <4> QED BY <1>4, <1>5, <3>2, <4>1
    <3>3. CASE ~ (q = p /\ w = u)  BY <1>9, <3>1, <3>3
    <3> QED BY <3>2, <3>3
  <2> QED BY <1>1, <1>10, <2>1, EntriesMoved DEF swapVars
<1>20. BackInv'
  <2>1. ASSUME NEW q \in Procs, NEW w \in UPages, InSwapIn(q, w)
        PROVE  req'[q] = req[q]
    BY <1>1, <1>6, <2>1 DEF InSwapIn, Others
  <2> QED BY <1>1, <1>10, <2>1 DEF BackInv
<1> QED BY <1>7, <1>8, <1>11, <1>12, <1>13, <1>14, <1>15, <1>16, <1>17, <1>18, <1>19, <1>20

\* A load that fails gives its frame back and keeps VMGood.
LEMMA InstallFailsStep ==
    ASSUME VMGood, NEW p \in Procs, InstallFails(p)
    PROVE  VMGood'
<1> USE DEF VMGood
<1>1. /\ at[p] = "map" /\ at' = [at EXCEPT ![p] = "exit"] /\ req' = [req EXCEPT ![p] = NoReq]
      /\ req[p].kind = "load" /\ used' = used \ {req[p].kpage}
      /\ UNCHANGED <<mem, tabVars, swapVars, lockVars, wrote>>
  BY DEF InstallFails, At, Goto
<1>2. PICK k : k = req[p].kpage  OBVIOUS
<1>3. /\ \A q \in Procs, u \in UPages : pte[q][u] # k
      /\ \A q \in Procs : q # p /\ Holding(q) => req[q].kpage # k
  BY <1>1, <1>2 DEF HeldInv, Held, Holding
<1>4. /\ at'[p] = "exit" /\ Others(p) /\ at' \in [Procs -> Places]
      /\ req' \in [Procs -> ReqRecords]
  BY <1>1, RequestType DEF Others, TypeInv, Places, Working, Evicting
<1>5. TypeInv'
  BY <1>1, <1>4 DEF TypeInv, tabVars, swapVars, lockVars
<1>6. LockInv'
  BY <1>1, <1>4 DEF LockInv, HoldsException, Others, lockVars, Working, Evicting
<1>7. NeedInv'
  BY <1>1, <1>4 DEF NeedInv, Needs, Others, tabVars, Entered, Working, Evicting
<1>8. \A q \in Procs, u \in UPages :
              /\ InSwapIn(q, u)' = InSwapIn(q, u)
              /\ InSwapOut(q, u)' = InSwapOut(q, u)
              /\ Out(q, u)' = Out(q, u)
  BY <1>1, <1>4, OutKept DEF tabVars
<1>9. PresentInv'
  <2>1. ASSUME NEW q \in Procs, NEW u \in UPages, pte[q][u] # None
        PROVE  PageAt(q, u, pte[q][u])'
    <3>1. PageAt(q, u, pte[q][u]) /\ pte[q][u] # k  BY <1>3, <2>1 DEF PresentInv
    <3>2. /\ at'[q] # "dead"
          /\ page_entry[q][u].kpage = pte[q][u] \/ (at'[q] = "update" /\ req'[q].upage = u)
      BY <1>1, <1>4, <3>1 DEF PageAt, Others
    <3> QED BY <1>1, <1>2, <3>1, <3>2 DEF PageAt, Entered, tabVars
  <2> QED BY <1>1, <2>1 DEF PresentInv, Entered, tabVars
<1>10. UpdateInv'
  BY <1>1, <1>4, UpdatesKept DEF tabVars
<1>11. MappedOnce'
  BY <1>1 DEF MappedOnce, tabVars
<1>12. HeldInv'
  <2>1. ASSUME NEW q \in Procs, Holding(q)'
        PROVE  Holding(q) /\ q # p /\ req'[q] = req[q] /\ Held(q) /\ req[q].kpage # k
    BY <1>1, <1>3, <1>4, <2>1 DEF Holding, Others, HeldInv
  <2> QED BY <1>1, <1>2, <2>1 DEF HeldInv, Held, tabVars
<1>13. TableInv'
  <2>1. \A i \in DOMAIN frametable : frametable[i].owner \in Procs
    BY EntryTypes
  <2> QED BY <1>1, <1>4, <2>1 DEF TableInv, Others, tabVars
<1>14. VictimInv'
  <2>1. ASSUME NEW q \in Procs, at'[q] \in Evicting \ {"victim"} PROVE Victimized(q)'
    <3>1. at'[q] = at[q] /\ req'[q] = req[q] /\ Victimized(q)
      BY <1>1, <1>4, <2>1 DEF Others, VictimInv, Evicting
    <3>2. PICK v \in FrameEntry : v = req[q].victim /\ v.owner \in Procs /\ v.upage \in UPages
      BY <2>1, <3>1 DEF Victimized, FrameEntry
    <3>3. InSwapIn(v.owner, v.upage)' = InSwapIn(v.owner, v.upage)  BY <1>8, <3>2
    <3> QED BY <1>1, <3>1, <3>2, <3>3 DEF Victimized, Entered, tabVars
  <2> QED BY <2>1 DEF VictimInv, Victimized, Evicting
<1>15. SlotInv'
  BY <1>1 DEF SlotInv, swapVars
<1>16. EntryInv'
  BY <1>1, <1>8, EntriesKept DEF swapVars, tabVars
<1>17. BackInv'
  <2>1. ASSUME NEW q \in Procs, NEW w \in UPages, InSwapIn(q, w)
        PROVE  req'[q] = req[q]
    BY <1>1, <1>4, <2>1 DEF InSwapIn, Others
  <2> QED BY <1>1, <1>8, <2>1 DEF BackInv
<1> QED BY <1>5, <1>6, <1>7, <1>9, <1>10, <1>11, <1>12, <1>13, <1>14, <1>15, <1>16, <1>17

-----------------------------------------------------------------------------
(* The program, and its exit.                                              *)

\* A store by the user program keeps VMGood.
LEMMA WriteStep ==
    ASSUME VMGood, NEW p \in Procs, NEW u \in UPages, NEW x \in Values, Write(p, u, x)
    PROVE  VMGood'
<1> USE DEF VMGood
<1>1. pte[p][u] # None /\ UNCHANGED <<at, req, used, tabVars, swapVars, lockVars>>
  BY DEF Write
<1>2. PICK k \in KPages : k = pte[p][u]
  BY <1>1 DEF TypeInv
<1>3. PageAt(p, u, k)
  BY <1>1, <1>2 DEF PresentInv
<1>4. /\ mem' = [mem EXCEPT ![k] = x] /\ wrote' = [wrote EXCEPT ![p][u] = x]
  BY <1>2 DEF Write
<1>5. /\ mem' \in [KPages -> Contents] /\ mem'[k] = x
      /\ \A l \in KPages : l # k => mem'[l] = mem[l]
  BY <1>4 DEF TypeInv, Contents
<1>6. /\ wrote' \in [Procs -> [UPages -> Contents]] /\ wrote'[p][u] = x
      /\ \A q \in Procs, w \in UPages : ~ (q = p /\ w = u) => wrote'[q][w] = wrote[q][w]
  BY <1>4 DEF TypeInv, Contents
<1>7. \A q \in Procs, w \in UPages : pte[q][w] = k => q = p /\ w = u
  BY <1>1, <1>2 DEF MappedOnce
<1>8. \A q \in Procs : Holding(q) => req[q].kpage \in KPages /\ req[q].kpage # k
  BY <1>2 DEF HeldInv, Held, TypeInv
<1>9. TypeInv'
  BY <1>1, <1>5, <1>6 DEF TypeInv, tabVars, swapVars, lockVars
<1>10. LockInv' /\ NeedInv' /\ UpdateInv' /\ MappedOnce' /\ TableInv' /\ SlotInv'
  <2>1. LockInv'  BY <1>1 DEF LockInv, HoldsException, lockVars
  <2>2. NeedInv'  BY <1>1 DEF NeedInv, Needs, Entered, SwappedOut, tabVars
  <2>3. MappedOnce'  BY <1>1 DEF MappedOnce, tabVars
  <2>4. TableInv'  BY <1>1 DEF TableInv, tabVars
  <2>5. SlotInv'  BY <1>1 DEF SlotInv, swapVars
  <2>6. UpdateInv'  BY <1>1 DEF UpdateInv, Updates, Entered, tabVars
  <2> QED BY <2>1, <2>2, <2>3, <2>4, <2>5, <2>6
<1>11. HeldInv'
  BY <1>1 DEF HeldInv, Held, Holding, tabVars
<1>12. PresentInv'
  <2>1. ASSUME NEW q \in Procs, NEW w \in UPages
        PROVE  /\ pte'[q][w] # None => PageAt(q, w, pte[q][w])'
               /\ ~ Entered(q, w)' => wrote'[q][w] = 0
    <3>1. CASE q = p /\ w = u
      BY <1>1, <1>2, <1>3, <1>5, <1>6, <3>1 DEF PageAt, Entered, tabVars
    <3>2. CASE ~ (q = p /\ w = u)
      <4>1. pte[q][w] # None => pte[q][w] \in KPages /\ mem'[pte[q][w]] = mem[pte[q][w]]
        BY <1>5, <1>7, <3>2 DEF TypeInv
      <4> QED BY <1>1, <1>6, <3>2, <4>1 DEF PresentInv, PageAt, Entered, tabVars
    <3> QED BY <3>1, <3>2
  <2> QED BY <2>1 DEF PresentInv
<1>13. VictimInv'
  <2>1. ASSUME NEW q \in Procs PROVE Victimized(q)'
    <3>1. Victimized(q) /\ at'[q] = at[q] /\ req'[q] = req[q]
      BY <1>1 DEF VictimInv
    <3>2. ASSUME at[q] \in {"flap", "out"}
          PROVE  mem'[req[q].victim.kpage]
                   = wrote'[req[q].victim.owner][req[q].victim.upage]
      <4>1. PICK v \in FrameEntry : v = req[q].victim /\ v.kpage = req[q].kpage
        BY <3>1, <3>2 DEF Victimized, Evicting
      <4>2. v.owner \in Procs /\ v.upage \in UPages /\ v.kpage \in KPages  BY DEF FrameEntry
      <4>3. pte[v.owner][v.upage] = None /\ mem[v.kpage] = wrote[v.owner][v.upage]
        BY <3>1, <3>2, <4>1 DEF Victimized
      <4>4. v.kpage # k  BY <1>8, <3>2, <4>1 DEF Holding
      <4>5. ~ (v.owner = p /\ v.upage = u)  BY <1>1, <4>3
      <4> QED BY <1>5, <1>6, <4>1, <4>2, <4>3, <4>4, <4>5
    <3> QED BY <1>1, <3>1, <3>2 DEF Victimized, Entered, InSwapIn, tabVars
  <2> QED BY <2>1 DEF VictimInv
<1>14. \A q \in Procs, w \in UPages :
          /\ InSwapIn(q, w)' = InSwapIn(q, w) /\ InSwapOut(q, w)' = InSwapOut(q, w)
          /\ SwappedOut(q, w)' = SwappedOut(q, w)
  BY <1>1 DEF InSwapIn, InSwapOut, SwappedOut, Entered, tabVars
<1>15. EntryInv'
  <2>1. \A q \in Procs, w \in UPages : Out(q, w)' = Out(q, w)
    BY <1>14 DEF Out
  <2>2. ~ Out(p, u)
    BY <1>3 DEF Out, SwappedOut, PageAt
  <2>3. \A i \in DOMAIN swap_table :
            LET e == swap_table[i] IN
            e.owner \in Procs /\ e.upage \in UPages /\ Out(e.owner, e.upage)
    BY EntryTypes DEF EntryInv
  <2>4. \A i \in DOMAIN swap_table :
           wrote'[swap_table[i].owner][swap_table[i].upage] = wrote[swap_table[i].owner][swap_table[i].upage]
    BY <1>6, <2>2, <2>3
  <2>5. \A i \in DOMAIN swap_table : Out(swap_table[i].owner, swap_table[i].upage)'
    BY <1>1, <2>1, <2>3 DEF swapVars
  <2> QED BY <1>1, <2>1, <2>4, <2>5 DEF EntryInv, EntryOf, swapVars, tabVars
<1>16. BackInv'
  <2>1. ASSUME NEW q \in Procs, NEW w \in UPages, InSwapIn(q, w)'
        PROVE  mem'[req'[q].kpage] = wrote'[q][w] /\ ~ InSwapOut(q, w)'
    <3>1. InSwapIn(q, w) /\ ~ InSwapOut(q, w)' /\ mem[req[q].kpage] = wrote[q][w]
      BY <1>14, <2>1 DEF BackInv
    <3>2. req[q].kpage \in KPages /\ req[q].kpage # k
      BY <1>8, <3>1 DEF InSwapIn, Holding
    <3>3. ~ (q = p /\ w = u)
      BY <1>1, <3>1 DEF InSwapIn, NeedInv, Needs, Working
    <3> QED BY <1>1, <1>5, <1>6, <3>1, <3>2, <3>3
  <2> QED BY <2>1 DEF BackInv
<1> QED BY <1>9, <1>10, <1>11, <1>12, <1>13, <1>15, <1>16

\* frame_delete_by_pid() keeps VMGood.
LEMMA ExitFramesStep ==
    ASSUME VMGood, NEW p \in Procs, ExitFrames(p)
    PROVE  VMGood'
<1> USE DEF VMGood
<1>1. /\ at[p] = "exit" /\ at' = [at EXCEPT ![p] = "destroy"]
      /\ UNCHANGED <<req, used, mem, pte, page_entry, swapVars, lockVars, wrote>>
  BY DEF ExitFrames, At, Goto
<1>2. /\ frametable' \in Seq(FrameEntry)
      /\ \A i \in DOMAIN frametable' :
            frametable'[i].owner # p /\ \E j \in DOMAIN frametable : frametable'[i] = frametable[j]
      /\ \A i, j \in DOMAIN frametable' :
            frametable'[i].owner = frametable'[j].owner /\ frametable'[i].upage = frametable'[j].upage
            => i = j
  <2>1. frametable \in Seq(FrameEntry)  BY DEF TypeInv
  <2>2. \A i, j \in DOMAIN frametable : frametable[i].owner = frametable[j].owner
                                        /\ frametable[i].upage = frametable[j].upage => i = j
    BY DEF TableInv
  <2>3. PICK s : s = frame_delete_by_pid(frametable, p)  OBVIOUS
  <2>4. /\ s \in Seq(FrameEntry)
        /\ \A i \in DOMAIN s : s[i].owner # p /\ \E j \in DOMAIN frametable : s[i] = frametable[j]
        /\ \A i, j \in DOMAIN s : s[i].owner = s[j].owner /\ s[i].upage = s[j].upage => i = j
    BY <2>1, <2>2, <2>3, DeletionKept
  <2>5. frametable' = s  BY <2>3 DEF ExitFrames
  <2> QED BY <2>4, <2>5
<1>3. at'[p] = "destroy" /\ Others(p) /\ at' \in [Procs -> Places]
  BY <1>1 DEF Others, TypeInv, Places, Working, Evicting
<1>4. TypeInv'
  BY <1>1, <1>2, <1>3 DEF TypeInv, swapVars, lockVars
<1>5. LockInv'
  BY <1>1, <1>3 DEF LockInv, HoldsException, Others, lockVars, Working, Evicting
<1>6. NeedInv'
  BY <1>1, <1>3 DEF NeedInv, Needs, Others, Entered, SwappedOut, Working, Evicting
<1>7. \A q \in Procs, u \in UPages :
              /\ InSwapIn(q, u)' = InSwapIn(q, u)
              /\ InSwapOut(q, u)' = InSwapOut(q, u)
              /\ Out(q, u)' = Out(q, u)
  BY <1>1, <1>3, OutKept
<1>8. PresentInv'
  BY <1>1, <1>3 DEF PresentInv, PageAt, Entered, Others
<1>9. MappedOnce'
  BY <1>1 DEF MappedOnce
<1>10. HeldInv'
  BY <1>1, <1>3 DEF HeldInv, Held, Holding, Others
<1>11. TableInv'
  <2>1. \A i \in DOMAIN frametable : frametable[i].owner \in Procs
    BY EntryTypes
  <2>2. \A i \in DOMAIN frametable' :
           /\ at'[frametable'[i].owner] \notin {"destroy", "dead"}
           /\ pte'[frametable'[i].owner][frametable'[i].upage] = frametable'[i].kpage
    <3>1. SUFFICES ASSUME NEW i \in DOMAIN frametable'
                   PROVE  /\ at'[frametable'[i].owner] \notin {"destroy", "dead"}
                          /\ pte'[frametable'[i].owner][frametable'[i].upage] = frametable'[i].kpage
      OBVIOUS
    <3>2. PICK j \in DOMAIN frametable : frametable'[i] = frametable[j] /\ frametable[j].owner # p
      BY <1>2
    <3>3. PICK o \in Procs : o = frametable[j].owner  BY <2>1
    <3>4. at[o] \notin {"destroy", "dead"}  BY <3>3 DEF TableInv
    <3>5. at'[o] = at[o]  BY <1>1, <3>2, <3>3 DEF TypeInv
    <3>6. pte'[frametable[j].owner][frametable[j].upage] = frametable[j].kpage
      BY <1>1 DEF TableInv
    <3> QED BY <3>2, <3>3, <3>4, <3>5, <3>6
  <2> QED BY <1>2, <2>2 DEF TableInv
<1>12. VictimInv'
  <2>1. ASSUME NEW q \in Procs, at'[q] \in Evicting \ {"victim"} PROVE Victimized(q)'
    <3>1. at'[q] = at[q] /\ req'[q] = req[q] /\ Victimized(q)
      BY <1>1, <1>3, <2>1 DEF Others, VictimInv, Evicting
    <3>2. PICK v \in FrameEntry : v = req[q].victim /\ v.owner \in Procs /\ v.upage \in UPages
      BY <2>1, <3>1 DEF Victimized, FrameEntry
    <3>3. InSwapIn(v.owner, v.upage)' = InSwapIn(v.owner, v.upage)  BY <1>7, <3>2
    <3>4. at[q] = "clear" => \A i \in DOMAIN frametable' :
             ~ (frametable'[i].owner = v.owner /\ frametable'[i].upage = v.upage)
      BY <1>2, <3>1, <3>2 DEF Victimized
    <3> QED BY <1>1, <3>1, <3>2, <3>3, <3>4 DEF Victimized, Entered
  <2> QED BY <2>1 DEF VictimInv, Victimized, Evicting
<1>13. SlotInv'
  BY <1>1 DEF SlotInv, swapVars
<1>14. EntryInv'
  BY <1>1, <1>7, EntriesKept DEF swapVars
<1>15. BackInv'
  BY <1>1, <1>3, <1>7 DEF BackInv, InSwapIn, Others
<1>16. UpdateInv'
  BY <1>1, <1>3, UpdatesKept
<1> QED BY <1>4, <1>5, <1>6, <1>8, <1>9, <1>10, <1>11, <1>12, <1>13, <1>14, <1>15, <1>16

\* pagedir_destroy() keeps VMGood.
LEMMA ExitDestroyStep ==
    ASSUME VMGood, NEW p \in Procs, ExitDestroy(p), wild' = "none"
    PROVE  VMGood'
<1> USE DEF VMGood
<1>1. /\ at[p] = "destroy" /\ at' = [at EXCEPT ![p] = "dead"]
      /\ UNCHANGED <<req, mem, page_entry, frametable, swapVars, lockVars, wrote>>
      /\ pte' = [pte EXCEPT ![p] = [u \in UPages |-> None]]
  BY DEF ExitDestroy, At, Stopped, Bad, Goto
<1>2. PICK freed : freed = {pte[p][u] : u \in UPages} \ {None}
  OBVIOUS
<1>3. used' = used \ freed /\ ~ \E q \in Procs : at[q] = "clear" /\ req[q].kpage \in freed
  BY <1>2 DEF ExitDestroy, At, Stopped, Bad
<1>4. /\ pte' \in [Procs -> [UPages -> KPages \union {None}]]
      /\ \A u \in UPages : pte'[p][u] = None
      /\ \A q \in Procs : q # p => pte'[q] = pte[q]
  BY <1>1 DEF TypeInv
<1>5. at'[p] = "dead" /\ Others(p) /\ at' \in [Procs -> Places]
  BY <1>1 DEF Others, TypeInv, Places, Working, Evicting
<1>6. TypeInv'
  BY <1>1, <1>3, <1>4, <1>5 DEF TypeInv, swapVars, lockVars
<1>7. LockInv'
  BY <1>1, <1>5 DEF LockInv, HoldsException, Others, lockVars, Working, Evicting
<1>8. NeedInv'
  BY <1>1, <1>4, <1>5 DEF NeedInv, Needs, Others, Entered, SwappedOut, Working, Evicting
<1>9. \A q \in Procs, u \in UPages :
              /\ InSwapIn(q, u)' = InSwapIn(q, u)
              /\ InSwapOut(q, u)' = InSwapOut(q, u)
              /\ Out(q, u)' = Out(q, u)
  BY <1>1, <1>5, OutKept
<1>10. PresentInv'
  <2>1. ASSUME NEW q \in Procs, NEW u \in UPages, pte'[q][u] # None
        PROVE  PageAt(q, u, pte[q][u])'
    <3>1. q # p /\ pte'[q][u] = pte[q][u]  BY <1>4, <2>1
    <3>2. PageAt(q, u, pte[q][u])  BY <2>1, <3>1 DEF PresentInv
    <3>3. pte[q][u] \notin freed
      BY <1>2, <2>1, <3>1 DEF MappedOnce
    <3> QED BY <1>1, <1>3, <1>5, <3>1, <3>2, <3>3 DEF PageAt, Entered, Others
  <2> QED BY <1>1, <2>1 DEF PresentInv, Entered
<1>11. MappedOnce'
  <2>1. \A q \in Procs, u \in UPages : pte'[q][u] # None => pte'[q][u] = pte[q][u]
    BY <1>4
  <2> QED BY <2>1 DEF MappedOnce
<1>12. HeldInv'
  <2>1. ASSUME NEW q \in Procs, Holding(q)'
        PROVE  /\ Holding(q) /\ req'[q] = req[q] /\ req[q].kpage \in used /\ req[q].kpage \notin freed
               /\ \A r \in Procs, u \in UPages : pte'[r][u] # req[q].kpage
    <3>1. Holding(q) /\ req'[q] = req[q]
      BY <1>1, <1>5, <2>1 DEF Holding, Others
    <3>2. Held(q) /\ req[q].kpage \in KPages
      BY <3>1 DEF HeldInv, Held, TypeInv
    <3>3. req[q].kpage \notin freed
      BY <1>2, <3>1, <3>2 DEF Held
    <3>4. \A r \in Procs, u \in UPages : pte'[r][u] # req[q].kpage
      BY <1>4, <3>1, <3>2, VirtualMemoryAssumption DEF Held
    <3> QED BY <3>1, <3>2, <3>3, <3>4 DEF Held
  <2> QED BY <1>3, <2>1 DEF HeldInv, Held
<1>13. TableInv'
  <2>1. \A i \in DOMAIN frametable : frametable[i].owner \in Procs /\ frametable[i].owner # p
    BY <1>1, EntryTypes DEF TableInv
  <2> QED BY <1>1, <1>4, <1>5, <2>1 DEF TableInv, Others
<1>14. VictimInv'
  <2>1. ASSUME NEW q \in Procs, q # p, at[q] \in Evicting \ {"victim"} PROVE Victimized(q)'
    <3>1. PICK v \in FrameEntry : v = req[q].victim /\ v.kpage = req[q].kpage
      BY <2>1 DEF VictimInv, Victimized
    <3>2. v.owner \in Procs /\ v.upage \in UPages /\ v.kpage \in KPages  BY DEF FrameEntry
    <3>3. at'[q] = at[q] /\ req'[q] = req[q]  BY <1>5, <2>1 DEF Others
    <3>4. at[q] = "clear" => pte'[v.owner][v.upage] = v.kpage
      <4>1. SUFFICES ASSUME at[q] = "clear" PROVE pte'[v.owner][v.upage] = v.kpage
        OBVIOUS
      <4>2. pte[v.owner][v.upage] = v.kpage  BY <3>1, <4>1 DEF VictimInv, Victimized
      <4>3. v.owner # p
        BY <1>2, <1>3, <3>1, <3>2, <4>1, <4>2, VirtualMemoryAssumption
      <4> QED BY <1>4, <3>2, <4>2, <4>3
    <3>5. at[q] \in {"flap", "out"} => pte'[v.owner][v.upage] = None
      BY <1>4, <3>1, <3>2 DEF VictimInv, Victimized
    <3>6. InSwapIn(v.owner, v.upage)' = InSwapIn(v.owner, v.upage)  BY <1>9, <3>2
    <3> QED BY <1>1, <3>1, <3>3, <3>4, <3>5, <3>6 DEF VictimInv, Victimized, Entered
  <2>2. ASSUME NEW q \in Procs, q = p \/ at[q] \notin Evicting \ {"victim"} PROVE Victimized(q)'
    BY <1>5, <2>2 DEF Victimized, Evicting, Others
  <2> QED BY <2>1, <2>2 DEF VictimInv
<1>15. SlotInv'
  BY <1>1 DEF SlotInv, swapVars
<1>16. EntryInv'
  BY <1>1, <1>9, EntriesKept DEF swapVars
<1>17. BackInv'
  BY <1>1, <1>5, <1>9 DEF BackInv, InSwapIn, Others
<1>18. UpdateInv'
  <2>1. ASSUME NEW q \in Procs, at'[q] = "update" PROVE Updates(q)'
    <3>1. q # p /\ at[q] = "update" /\ req'[q] = req[q]  BY <1>1, <1>5, <2>1 DEF Others
    <3> QED BY <1>1, <1>4, <2>1, <3>1 DEF UpdateInv, Updates, Entered
  <2> QED BY <2>1 DEF UpdateInv, Updates
<1> QED BY <1>6, <1>7, <1>8, <1>10, <1>11, <1>12, <1>13, <1>14, <1>15, <1>16, <1>17, <1>18

-----------------------------------------------------------------------------
(* The invariant, and what follows from it.                                *)

\* The tables are empty at first.
LEMMA InitGood ==
    ASSUME Init
    PROVE  VMInv
<1> USE DEF Init
<1>1. TypeInv
  <2>1. << >> \in Seq(FrameEntry) /\ << >> \in Seq(SwapEntry)  OBVIOUS
  <2>2. at \in [Procs -> Places]  BY DEF Places
  <2>3. req \in [Procs -> ReqRecords]  BY RequestType
  <2>4. page_entry \in [Procs -> PageTables]  BY EmptyTable
  <2>5. /\ mem \in [KPages -> Contents] /\ disk \in [Slots -> Contents]
        /\ wrote \in [Procs -> [UPages -> Contents]]
    BY DEF Contents
  <2>6. pte \in [Procs -> [UPages -> KPages \union {None}]]  OBVIOUS
  <2> QED BY <2>1, <2>2, <2>3, <2>4, <2>5, <2>6 DEF TypeInv
<1>2. \A p \in Procs : at[p] = "user" /\ \A u \in UPages : ~ Entered(p, u) /\ pte[p][u] = None
  BY EmptyTable DEF Entered
<1>3. LockInv
  BY <1>2, VirtualMemoryAssumption DEF LockInv, HoldsException, Working, Evicting
<1>4. NeedInv
  BY <1>2 DEF NeedInv, Needs, Working, Evicting
<1>5. PresentInv
  BY <1>2 DEF PresentInv
<1>6. MappedOnce
  BY <1>2 DEF MappedOnce
<1>7. HeldInv
  BY <1>2 DEF HeldInv, Held, Holding
<1>8. DOMAIN frametable = {} /\ DOMAIN swap_table = {}
  OBVIOUS
<1>9. TableInv /\ SlotInv
  BY <1>8 DEF TableInv, SlotInv
<1>10. VictimInv
  BY <1>2 DEF VictimInv, Victimized, Evicting
<1>11. EntryInv
  BY <1>2, <1>8 DEF EntryInv, Out, SwappedOut
<1>12. BackInv
  BY <1>2 DEF BackInv, InSwapIn
<1>13. UpdateInv
  BY <1>2 DEF UpdateInv, Updates
<1> QED BY <1>1, <1>3, <1>4, <1>5, <1>6, <1>7, <1>9, <1>10, <1>11, <1>12, <1>13
     DEF VMInv, VMGood, Wilds

\* A step of a process starts while wild is "none", and takes it to one of the events.
LEMMA WildStep ==
    ASSUME VMGood, wild = "none", NEW p \in Procs, Kernel(p)
    PROVE  wild' \in Wilds
<1>1. CASE FaultLook(p)  BY <1>1 DEF FaultLook, Bad, Wilds
<1>2. CASE Victim(p)
  <2>1. CASE frametable = << >>  BY <1>2, <2>1 DEF Victim, Bad, Wilds
  <2>2. CASE frametable # << >>
    BY <1>2, <2>2, HeadIsPage DEF Victim, Bad, Wilds
  <2> QED BY <2>1, <2>2
<1>3. CASE SwapOut(p)  BY <1>3 DEF SwapOut, Bad, Wilds
<1>4. CASE Evicted(p)  BY <1>4 DEF Evicted, Bad, Wilds
<1>5. CASE SwapIn(p)  BY <1>5 DEF SwapIn, Bad, Wilds
<1>6. CASE ExitDestroy(p)  BY <1>6 DEF ExitDestroy, Bad, Wilds
<1>7. CASE \/ FaultLock(p) \/ Get(p) \/ EvictLock(p) \/ Clear(p) \/ Flap(p) \/ Reflap(p)
           \/ Install(p) \/ InstallFails(p) \/ Update(p) \/ ExitFrames(p)
  BY <1>7 DEF FaultLock, Get, EvictLock, Clear, Flap, Reflap, Install, InstallFails, Update,
              ExitFrames, Wilds
<1>8. CASE Starved(p)  BY <1>8 DEF Starved, Bad, Wilds
<1> QED BY <1>1, <1>2, <1>3, <1>4, <1>5, <1>6, <1>7, <1>8 DEF Kernel

\* Every step of the kernel that follows no bad pointer keeps VMGood.
LEMMA KernelStep ==
    ASSUME VMGood, NEW p \in Procs, Kernel(p), wild' = "none"
    PROVE  VMGood'
<1>1. ~ Starved(p)  BY DEF Starved, Bad
<1> QED BY <1>1, FaultLockStep, FaultLookStep, GetStep, EvictLockStep, VictimStep, ClearStep,
           FlapStep, SwapOutStep, EvictedStep, SwapInStep, ReflapStep, InstallStep,
           InstallFailsStep, UpdateStep, ExitFramesStep, ExitDestroyStep DEF Kernel

\* VMGood depends on the variables only.
LEMMA GoodStutter ==
    ASSUME VMGood, UNCHANGED vars
    PROVE  VMGood'
<1> USE DEF VMGood, vars, tabVars, swapVars, lockVars
<1>1. TypeInv'  BY DEF TypeInv
<1>2. LockInv'  BY DEF LockInv, HoldsException
<1>3. NeedInv'  BY DEF NeedInv, Needs, Entered, SwappedOut
<1>4. PresentInv'  BY DEF PresentInv, PageAt, Entered
<1>5. MappedOnce'  BY DEF MappedOnce
<1>6. HeldInv'  BY DEF HeldInv, Held, Holding
<1>7. TableInv'  BY DEF TableInv
<1>8. VictimInv'  BY DEF VictimInv, Victimized, Entered, InSwapIn
<1>9. SlotInv'  BY DEF SlotInv
<1>10. EntryInv'
  <2>1. \A q \in Procs, u \in UPages : Out(q, u)' = Out(q, u)
    BY DEF Out, InSwapIn, InSwapOut, SwappedOut, Entered
  <2> QED BY <2>1, EntriesKept
<1>11. BackInv'  BY DEF BackInv, InSwapIn, InSwapOut
<1>12. UpdateInv'  BY DEF UpdateInv, Updates, Entered
<1> QED BY <1>1, <1>2, <1>3, <1>4, <1>5, <1>6, <1>7, <1>8, <1>9, <1>10, <1>11, <1>12

\* VMInv is inductive: page_fault(), page_swap_to_disk(), loading, exit and the program
\* keep the tables, frames, slots and locks in agreement, whatever the order of their
\* steps, up to the first event that wild stands for.
THEOREM MemoryInvariant == Spec => []VMInv
<1>1. Init => VMInv
  BY InitGood
<1>2. VMInv /\ [Next]_vars => VMInv'
  <2> SUFFICES ASSUME VMInv, [Next]_vars PROVE VMInv'
    OBVIOUS
  <2>1. CASE UNCHANGED vars
    <3>1. wild' = wild  BY <2>1 DEF vars
    <3> QED BY <2>1, <3>1, GoodStutter DEF VMInv
  <2>2. ASSUME NEW p \in Procs, Kernel(p) PROVE VMInv'
    <3>1. wild = "none"
      BY <2>2 DEF Kernel, FaultLock, FaultLook, Get, EvictLock, Victim, Clear, Flap, SwapOut,
                  Evicted, SwapIn, Reflap, Install, InstallFails, Starved, Update,
                  ExitFrames, ExitDestroy, At, Stopped
    <3> QED BY <2>2, <3>1, WildStep, KernelStep DEF VMInv
  <2>3. ASSUME NEW p \in Procs, Exit(p) PROVE VMInv'
    <3>1. wild = "none" /\ wild' = wild  BY <2>3 DEF Exit, At, Stopped
    <3> QED BY <2>3, <3>1, ExitStep DEF VMInv
  <2>4. ASSUME NEW p \in Procs, NEW u \in UPages, Load(p, u) PROVE VMInv'
    <3>1. wild = "none" /\ wild' = wild  BY <2>4 DEF Load, At, Stopped
    <3> QED BY <2>4, <3>1, LoadStep DEF VMInv
  <2>5. ASSUME NEW p \in Procs, NEW u \in UPages, Fault(p, u) PROVE VMInv'
    <3>1. wild = "none" /\ wild' = wild  BY <2>5 DEF Fault, At, Stopped
    <3> QED BY <2>5, <3>1, FaultStep DEF VMInv
  <2>6. ASSUME NEW p \in Procs, NEW u \in UPages, NEW x \in Values, Write(p, u, x) PROVE VMInv'
    <3>1. wild = "none" /\ wild' = wild  BY <2>6 DEF Write, At, Stopped
    <3> QED BY <2>6, <3>1, WriteStep DEF VMInv
  <2> QED BY <2>1, <2>2, <2>3, <2>4, <2>5, <2>6 DEF Next, Idle
<1> QED BY <1>1, <1>2, PTL DEF Spec

\* palloc_get_page(), eviction and exit, for any number of processes and frames: a frame
\* is mapped once or in the hands of one process, and not in the pool meanwhile.
THEOREM FramesAreOnce == Spec => []FramesOnce
<1>1. VMInv => FramesOnce
  <2> SUFFICES ASSUME VMGood
               PROVE  /\ \A x, y \in Present : pte[x[1]][x[2]] = pte[y[1]][y[2]] => x = y
                      /\ \A x \in Present : pte[x[1]][x[2]] \in used
                      /\ \A p \in Procs : Handled(p) =>
                            /\ req[p].kpage \in used
                            /\ \A x \in Present : pte[x[1]][x[2]] # req[p].kpage
                            /\ \A q \in Procs : Handled(q) /\ req[q].kpage = req[p].kpage => p = q
    BY DEF VMInv, FramesOnce
  <2>1. \A x \in Present : /\ x[1] \in Procs /\ x[2] \in UPages /\ x = <<x[1], x[2]>>
                           /\ pte[x[1]][x[2]] # None
    BY DEF Present
  <2>2. \A x, y \in Present : pte[x[1]][x[2]] = pte[y[1]][y[2]] => x = y
    BY <2>1 DEF VMGood, MappedOnce
  <2>3. \A x \in Present : pte[x[1]][x[2]] \in used
    BY <2>1 DEF VMGood, PresentInv, PageAt
  <2>4. \A p \in Procs : Handled(p) => Holding(p)
    BY DEF Handled, Holding
  <2> QED BY <2>1, <2>2, <2>3, <2>4 DEF VMGood, HeldInv, Held
<1> QED BY <1>1, MemoryInvariant, PTL

\* page_fault(), page_swap_to_disk() and the swap disk: through any number of evictions a
\* page that is present or about to be mapped again holds what its process wrote last.
THEOREM PagesKeepContents == Spec => []PagesHoldUnlessWild
<1>1. VMInv => PagesHoldUnlessWild
  BY DEF VMInv, VMGood, PagesHoldUnlessWild, PagesHold, PresentInv, PageAt, BackInv
<1> QED BY <1>1, MemoryInvariant, PTL

\* The swap disk: every page that is out has a slot of its own with its contents, and the
\* assertions of page_swap_to_disk() about its victim never fail.
THEOREM SlotsAreKept == Spec => []SlotsKeep
<1>1. VMInv => SlotsKeep
  <2> SUFFICES ASSUME VMInv PROVE SlotsKeep
    OBVIOUS
  <2>1. wild # "victim_assert"  BY DEF VMInv, Wilds
  <2>2. ASSUME wild = "none", NEW p \in Procs, NEW u \in UPages,
               SwappedOut(p, u), ~ InSwapIn(p, u), ~ InSwapOut(p, u)
        PROVE  \E i \in SwapEntries(p, page_entry[p][u].kpage) : disk[swap_table[i].slot] = wrote[p][u]
    <3>1. EntryInv /\ Out(p, u)  BY <2>2 DEF VMInv, VMGood, Out
    <3>2. PICK i \in DOMAIN swap_table : EntryOf(i, p, u)  BY <3>1 DEF EntryInv
    <3>3. swap_table[i].kpage = page_entry[p][u].kpage /\ disk[swap_table[i].slot] = wrote[p][u]
      BY <3>1, <3>2 DEF EntryInv, EntryOf
    <3> QED BY <3>2, <3>3 DEF SwapEntries, EntryOf
  <2>3. wild = "none" => SlotInv  BY DEF VMInv, VMGood
  <2> QED BY <2>1, <2>2, <2>3 DEF SlotsKeep, SlotInv
<1> QED BY <1>1, MemoryInvariant, PTL

-----------------------------------------------------------------------------
(* The kernel's allocators.                                                *)

\* What the variables of Malloc hold, as malloc() and free() get and leave it: s is the
\* state of the allocator and H the blocks its callers have.
Arena == [desc : Descs \union {Big}, free_cnt : Nat]
ArenaTables == UNION {[D -> Arena] : D \in SUBSET Nat}
Block == Nat \X Nat
Memory == [used : SUBSET Nat, arenas : ArenaTables, free : [Descs -> Seq(Block)]]
HandedOut == [block : Block, size : Nat \ {0}]

On(b, list) == \E i \in DOMAIN list : list[i] = b
Once(list) == \A i, j \in DOMAIN list : list[i] = list[j] => i = j
PageCount(a) == IF a.desc = Big THEN a.free_cnt ELSE 1
PagesOf(s, p) == p .. p + PageCount(s.arenas[p]) - 1
IsBlock(p, d, b) == b[1] = p /\ b[2] \in 0 .. blocks_per_arena(d) - 1
FreeIn(s, p) == {b \in Block : b[1] = p /\ On(b, s.free[s.arenas[p].desc])}

\* The pages in use are those of the arenas, which do not overlap.
PagesInv(s) ==
    /\ \A x \in Nat : x \in s.used <=> \E p \in DOMAIN s.arenas : x \in PagesOf(s, p)
    /\ \A p, q \in DOMAIN s.arenas : p # q => PagesOf(s, p) \intersect PagesOf(s, q) = {}
    /\ \A p \in DOMAIN s.arenas : PageCount(s.arenas[p]) > 0

\* A block a caller has is one of an arena, has the room asked for (unless the
\* size wrapped around), and is his alone.
Fits(s, h) ==
    LET a == s.arenas[h.block[1]] IN
    /\ h.block[1] \in DOMAIN s.arenas
    /\ a.desc = Big => h.block[2] = 0 /\ (Wraps(h.size) \/ h.size + ArenaSize <= PGSIZE * a.free_cnt)
    /\ a.desc # Big => IsBlock(h.block[1], a.desc, h.block) /\ h.size <= a.desc
HandedInv(s, H) ==
    /\ H \subseteq HandedOut /\ \A h \in H : Fits(s, h)
    /\ \A g, h \in H : g.block = h.block => g = h

\* The list of a descriptor has blocks of its arenas, each once.
FreeInv(s) ==
    \A d \in Descs :
        /\ Once(s.free[d])
        /\ \A b \in Block : On(b, s.free[d]) =>
              b[1] \in DOMAIN s.arenas /\ s.arenas[b[1]].desc = d /\ IsBlock(b[1], d, b)

\* A block of an arena is free or a caller has it, and free_cnt counts the free ones.
ShareInv(s, H) ==
    \A p \in DOMAIN s.arenas : s.arenas[p].desc # Big =>
        /\ s.arenas[p].free_cnt = Cardinality(FreeIn(s, p))
        /\ \A b \in Block : IsBlock(p, s.arenas[p].desc, b) =>
              (b \in FreeIn(s, p) <=> \A h \in H : h.block # b)

MemInv(s, H) == s \in Memory /\ PagesInv(s) /\ HandedInv(s, H) /\ FreeInv(s) /\ ShareInv(s, H)

\* Some caller has a block of every arena.
UsedInv(s, H) == \A p \in DOMAIN s.arenas : \E h \in H : h.block[1] = p
MallocInv == MemInv(State, handed) /\ UsedInv(State, handed)

-----------------------------------------------------------------------------
(* Numbers.                                                                *)

\* What division leaves.
LEMMA Division ==
    ASSUME NEW n \in Nat, NEW d \in Nat \ {0}
    PROVE  n \div d \in Nat /\ d * (n \div d) <= n /\ n < d * (n \div d) + d
OBVIOUS

\* The blocks of an arena fit in its page, and there is one at least.
LEMMA Room ==
    ASSUME NEW d \in Descs
    PROVE  /\ d \in Nat \ {0} /\ d # Big
           /\ blocks_per_arena(d) \in Nat \ {0}
           /\ ArenaSize + d * blocks_per_arena(d) <= PGSIZE
<1>1. d \in Nat \ {0} /\ 2 * d < PGSIZE
  BY MallocAssumption DEF Descs
<1>2. PGSIZE - ArenaSize \in Nat /\ d <= PGSIZE - ArenaSize /\ PGSIZE \in Nat /\ ArenaSize \in Nat
  BY <1>1, MallocAssumption
<1>3. PICK n : n = (PGSIZE - ArenaSize) \div d
  OBVIOUS
<1>4. n \in Nat /\ d * n <= PGSIZE - ArenaSize /\ PGSIZE - ArenaSize < d * n + d
  BY <1>1, <1>2, <1>3, Division
<1>5. n # 0
  <2>1. n = 0 => d * n = 0
    BY <1>1
  <2> QED
    BY <1>1, <1>2, <1>4, <2>1
<1>6. d * n \in Nat
  BY <1>1, <1>4
<1> QED
  BY <1>1, <1>2, <1>3, <1>4, <1>5, <1>6 DEF blocks_per_arena, Big

\* malloc() of a big block: enough pages, unless the sum wraps around.
LEMMA RoundUp ==
    ASSUME NEW size \in Nat \ {0}, NEW c, c = (Rounded(size) % 2 ^ SizeBits) \div PGSIZE
    PROVE  c \in Nat /\ (Wraps(size) \/ size + ArenaSize <= PGSIZE * c)
<1>1. PICK w, n : w = 2 ^ SizeBits /\ n = Rounded(size)
  OBVIOUS
<1>2. w \in Nat \ {0} /\ PGSIZE \in Nat \ {0} /\ n \in Nat /\ n = size + ArenaSize + PGSIZE - 1
  BY <1>1, MallocAssumption DEF Rounded
<1>3. PICK m : m = n % w
  OBVIOUS
<1>4. m \in Nat /\ (n < w => m = n)
  BY <1>2, <1>3
<1>5. c \in Nat /\ m < PGSIZE * c + PGSIZE
  BY <1>1, <1>2, <1>3, <1>4, Division
<1>6. PGSIZE * c \in Nat
  BY <1>2, <1>5
<1>7. n < w => size + ArenaSize <= PGSIZE * c
  BY <1>2, <1>4, <1>5, <1>6, MallocAssumption
<1>8. n < w \/ Wraps(size)
  BY <1>1, <1>2 DEF Wraps
<1> QED
  BY <1>5, <1>7, <1>8

\* palloc_get_multiple() finds pages nobody uses.
LEMMA Palloc ==
    ASSUME NEW s, NEW cnt \in Nat \ {0}, NEW p, p = palloc_get_multiple(s, cnt), p # NoMemory
    PROVE  p \in Nat \ {0} /\ (p .. p + cnt - 1) \intersect s.used = {}
<1>1. PICK fit : fit = {q \in 1 .. PoolPages - cnt + 1 : (q .. q + cnt - 1) \intersect s.used = {}}
  OBVIOUS
<1>2. fit # {} /\ p = CHOOSE q \in fit : \A r \in fit : q <= r
  BY <1>1 DEF palloc_get_multiple
<1>3. fit \in SUBSET Nat
  BY <1>1, MallocAssumption
<1>4. \E q \in fit : \A r \in fit : q <= r
  BY <1>2, <1>3, LeastElement
<1>5. p \in fit
  BY <1>2, <1>4
<1> QED
  BY <1>1, <1>5, MallocAssumption

-----------------------------------------------------------------------------
(* Lists.                                                                  *)

\* A table of arenas.
LEMMA ArenaTable ==
    ASSUME NEW x
    PROVE  x \in ArenaTables <=> DOMAIN x \subseteq Nat /\ x \in [DOMAIN x -> Arena]
BY DEF ArenaTables

\* Different members of a finite set of numbers have different ranks, and the ranks are
\* the numbers up to its size.
RankIn(S, i) == Cardinality({j \in S : j <= i})

\* The ranks in a finite set are a numbering of it.
LEMMA Ranks ==
    ASSUME NEW S, IsFiniteSet(S), S \in SUBSET Nat
    PROVE  /\ Cardinality(S) \in Nat
           /\ \A i \in S : RankIn(S, i) \in 1 .. Cardinality(S)
           /\ \A i, k \in S : RankIn(S, i) = RankIn(S, k) => i = k
           /\ \A n \in 1 .. Cardinality(S) : \E i \in S : RankIn(S, i) = n
<1>1. Cardinality(S) \in Nat
  BY FS_CardinalityType
<1>2. ASSUME NEW i \in S
      PROVE  /\ IsFiniteSet({j \in S : j <= i}) /\ RankIn(S, i) \in Nat
             /\ RankIn(S, i) <= Cardinality(S) /\ RankIn(S, i) # 0
  <2>1. PICK A : A = {j \in S : j <= i}
    OBVIOUS
  <2>2. A \in SUBSET S /\ i \in A
    BY <2>1
  <2>3. IsFiniteSet(A) /\ Cardinality(A) <= Cardinality(S)
    BY <2>2, FS_Subset
  <2>4. Cardinality(A) \in Nat /\ Cardinality(A) # 0
    BY <2>2, <2>3, FS_CardinalityType, FS_EmptySet
  <2> QED
    BY <2>1, <2>3, <2>4 DEF RankIn
<1>3. ASSUME NEW i \in S, NEW k \in S, i < k PROVE RankIn(S, i) # RankIn(S, k)
  <2>1. PICK A, B : A = {j \in S : j <= i} /\ B = {j \in S : j <= k}
    OBVIOUS
  <2>0. i \in Nat /\ k \in Nat /\ \A j \in S : j \in Nat
    OBVIOUS
  <2>a. \A j : (j \in A <=> j \in S /\ j <= i) /\ (j \in B <=> j \in S /\ j <= k)
    BY <2>1
  <2>b. k \in B /\ k \notin A
    BY <1>3, <2>0, <2>a
  <2>c. \A j \in S : j <= i => j <= k
    BY <1>3, <2>0
  <2>2. A \in SUBSET B /\ k \in B /\ k \notin A
    BY <2>a, <2>b, <2>c
  <2>3. IsFiniteSet(B) /\ A # B
    BY <1>2, <2>1, <2>2
  <2>4. Cardinality(B) # Cardinality(A)
    BY <2>2, <2>3, FS_Subset
  <2> QED
    BY <2>1, <2>4 DEF RankIn
<1>4. \A i, k \in S : RankIn(S, i) = RankIn(S, k) => i = k
  <2> SUFFICES ASSUME NEW i \in S, NEW k \in S, i # k PROVE RankIn(S, i) # RankIn(S, k)
    OBVIOUS
  <2>1. i < k \/ k < i
    OBVIOUS
  <2> QED
    BY <1>3, <2>1
<1>5. ASSUME NEW i \in S PROVE RankIn(S, i) \in 1 .. Cardinality(S)
  <2>1. PICK c : c = RankIn(S, i)
    OBVIOUS
  <2>2. c \in Nat /\ c <= Cardinality(S) /\ c # 0
    BY <1>2, <2>1
  <2> QED
    BY <1>1, <2>1, <2>2
<1>6. \A n \in 1 .. Cardinality(S) : \E i \in S : RankIn(S, i) = n
  <2>1. PICK f : f = [i \in S |-> RankIn(S, i)]
    OBVIOUS
  <2>2. PICK T : T = 1 .. Cardinality(S)
    OBVIOUS
  <2>3. f \in [S -> T] /\ \A i, k \in S : f[i] = f[k] => i = k
    BY <1>4, <1>5, <2>1, <2>2
  <2>4. f \in Injection(S, T)
    BY <2>3 DEF Injection, IsInjective
  <2>5. IsFiniteSet(T) /\ Cardinality(T) = Cardinality(S)
    BY <1>1, <2>2, FS_Interval
  <2>6. f \in Surjection(S, T)
    BY <2>4, <2>5, FS_Injection
  <2>7. \A n \in T : \E i \in S : f[i] = n
    BY <2>6 DEF Surjection
  <2> QED
    BY <2>1, <2>2, <2>7
<1> QED
  BY <1>1, <1>4, <1>5, <1>6

\* free(), when it gives an arena back: the list without the arena's blocks.
LEMMA Sifted ==
    ASSUME NEW list \in Seq(Block), NEW p, Once(list)
    PROVE  /\ WithoutArena(list, p) \in Seq(Block) /\ Once(WithoutArena(list, p))
           /\ \A b : On(b, WithoutArena(list, p)) <=> On(b, list) /\ b[1] # p
<1>1. PICK S : S = {i \in DOMAIN list : list[i][1] # p}
  OBVIOUS
<1>2. S \in SUBSET DOMAIN list /\ DOMAIN list = 1 .. Len(list) /\ Len(list) \in Nat
  BY <1>1
<1>3. IsFiniteSet(S) /\ S \in SUBSET Nat
  <2>1. IsFiniteSet(1 .. Len(list))
    BY <1>2, FS_Interval
  <2> QED
    BY <1>2, <2>1, FS_Subset
<1>4. PICK f : f = [k \in 1 .. Cardinality(S) |-> CHOOSE i \in S : RankIn(S, i) = k]
  OBVIOUS
<1>5. PICK n \in Nat : n = Cardinality(S)
  BY <1>3, Ranks
<1>6a. \A k \in 1 .. n : f[k] \in S /\ RankIn(S, f[k]) = k
  <2>1. \A k \in 1 .. n : \E i \in S : RankIn(S, i) = k
    BY <1>3, <1>5, Ranks
  <2> QED
    BY <1>4, <1>5, <2>1
<1>6. \A k \in 1 .. n : f[k] \in S
  BY <1>6a
<1>7. \A i \in S : \E k \in 1 .. n : f[k] = i
  <2> SUFFICES ASSUME NEW i \in S PROVE \E k \in 1 .. n : f[k] = i
    OBVIOUS
  <2>1. PICK k \in 1 .. n : k = RankIn(S, i)
    BY <1>3, <1>5, Ranks
  <2>2. f[k] \in S /\ RankIn(S, f[k]) = RankIn(S, i)
    BY <1>6a, <2>1
  <2>3. f[k] = i
    BY <1>3, <2>2, Ranks
  <2> QED
    BY <2>3
<1>8. PICK r : r = WithoutArena(list, p)
  OBVIOUS
<1>9. r = [k \in 1 .. n |-> list[f[k]]]
  BY <1>1, <1>4, <1>5, <1>8 DEF WithoutArena, block_to_arena, RankIn
<1>10. r \in Seq(Block) /\ DOMAIN r = 1 .. n /\ \A k \in 1 .. n : r[k] = list[f[k]]
  <2>1. \A k \in 1 .. n : list[f[k]] \in Block
    <3>1. \A i \in DOMAIN list : list[i] \in Block
      OBVIOUS
    <3> QED
      BY <1>2, <1>6, <3>1
  <2> QED
    BY <1>9, <2>1
<1>11. Once(r)
  <2> SUFFICES ASSUME NEW k \in 1 .. n, NEW m \in 1 .. n, r[k] = r[m] PROVE k = m
    BY <1>10 DEF Once
  <2>1. f[k] \in DOMAIN list /\ f[m] \in DOMAIN list /\ list[f[k]] = list[f[m]]
    BY <1>2, <1>6, <1>10
  <2>2. f[k] = f[m]
    BY <2>1 DEF Once
  <2> QED
    BY <1>6a, <2>2
<1>12. ASSUME NEW b, On(b, r) PROVE On(b, list) /\ b[1] # p
  <2>1. PICK k \in 1 .. n : b = list[f[k]]
    BY <1>10, <1>12 DEF On
  <2>2. f[k] \in DOMAIN list /\ list[f[k]][1] # p
    BY <1>1, <1>6
  <2> QED
    BY <2>1, <2>2 DEF On
<1>13. ASSUME NEW b, On(b, list), b[1] # p PROVE On(b, r)
  <2>1. PICK i \in DOMAIN list : list[i] = b
    BY <1>13 DEF On
  <2>2. PICK k \in 1 .. n : f[k] = i
    BY <1>1, <1>7, <1>13, <2>1
  <2> QED
    BY <1>10, <2>1, <2>2 DEF On
<1> QED
  BY <1>8, <1>10, <1>11, <1>12, <1>13

\* list_pop_front() on a free list.
LEMMA Popped ==
    ASSUME NEW list \in Seq(Block), Once(list), list # << >>
    PROVE  /\ Head(list) \in Block /\ On(Head(list), list)
           /\ Tail(list) \in Seq(Block) /\ Once(Tail(list))
           /\ \A b : On(b, Tail(list)) <=> On(b, list) /\ b # Head(list)
<1>1. PICK n \in Nat : n = Len(list)
  OBVIOUS
<1>2. DOMAIN list = 1 .. n /\ n > 0 /\ Head(list) = list[1]
  BY <1>1
<1>3. PICK r : r = Tail(list)
  OBVIOUS
<1>4. r \in Seq(Block) /\ DOMAIN r = 1 .. n - 1 /\ \A i \in 1 .. n - 1 : r[i] = list[i + 1]
  BY <1>1, <1>2, <1>3
<1>5. Once(r)
  <2> SUFFICES ASSUME NEW i \in 1 .. n - 1, NEW j \in 1 .. n - 1, r[i] = r[j] PROVE i = j
    BY <1>4 DEF Once
  <2>1. list[i + 1] = list[j + 1] /\ i + 1 \in DOMAIN list /\ j + 1 \in DOMAIN list
    BY <1>2, <1>4
  <2> QED
    BY <2>1 DEF Once
<1>6. ASSUME NEW b, On(b, r) PROVE On(b, list) /\ b # Head(list)
  <2>1. PICK i \in 1 .. n - 1 : b = list[i + 1]
    BY <1>4, <1>6 DEF On
  <2>2. i + 1 \in DOMAIN list /\ 1 \in DOMAIN list /\ i + 1 # 1
    BY <1>2
  <2> QED
    BY <1>2, <2>1, <2>2 DEF On, Once
<1>7. ASSUME NEW b, On(b, list), b # Head(list) PROVE On(b, r)
  <2>1. PICK i \in 1 .. n : b = list[i]
    BY <1>2, <1>7 DEF On
  <2>2. i - 1 \in 1 .. n - 1 /\ (i - 1) + 1 = i
    BY <1>2, <1>7, <2>1
  <2> QED
    BY <1>4, <2>1, <2>2 DEF On
<1>8. Head(list) \in Block /\ On(Head(list), list)
  BY <1>2 DEF On
<1> QED
  BY <1>3, <1>4, <1>5, <1>6, <1>7, <1>8

\* list_push_front() on a free list.
LEMMA Pushed ==
    ASSUME NEW list \in Seq(Block), Once(list), NEW x \in Block, ~ On(x, list)
    PROVE  /\ <<x>> \o list \in Seq(Block) /\ Once(<<x>> \o list)
           /\ \A b : On(b, <<x>> \o list) <=> On(b, list) \/ b = x
<1>1. PICK n \in Nat : n = Len(list)
  OBVIOUS
<1>2. PICK r : r = <<x>> \o list
  OBVIOUS
<1>3. r \in Seq(Block) /\ DOMAIN r = 1 .. n + 1 /\ DOMAIN list = 1 .. n
  BY <1>1, <1>2
<1>4. r[1] = x /\ \A i \in 1 .. n : r[i + 1] = list[i]
  BY <1>1, <1>2
<1>5. \A i \in 1 .. n + 1 : i = 1 \/ (i - 1 \in 1 .. n /\ (i - 1) + 1 = i)
  OBVIOUS
<1>6. \A i \in 1 .. n + 1 : r[i] = x <=> i = 1
  <2> SUFFICES ASSUME NEW i \in 1 .. n + 1, i # 1 PROVE r[i] # x
    BY <1>4
  <2>1. i - 1 \in DOMAIN list /\ r[i] = list[i - 1]
    BY <1>3, <1>4, <1>5
  <2> QED
    BY <2>1 DEF On
<1>7. Once(r)
  <2> SUFFICES ASSUME NEW i \in 1 .. n + 1, NEW j \in 1 .. n + 1, r[i] = r[j] PROVE i = j
    BY <1>3 DEF Once
  <2>1. CASE i = 1 \/ j = 1
    BY <1>6, <2>1
  <2>2. CASE i # 1 /\ j # 1
    <3>1. i - 1 \in 1 .. n /\ j - 1 \in 1 .. n /\ list[i - 1] = list[j - 1]
      BY <1>4, <1>5, <2>2
    <3>2. i - 1 = j - 1
      BY <1>3, <3>1 DEF Once
    <3> QED
      BY <3>2
  <2> QED
    BY <2>1, <2>2
<1>8. ASSUME NEW b, On(b, r), b # x PROVE On(b, list)
  <2>1. PICK i \in 1 .. n + 1 : b = r[i]
    BY <1>3, <1>8 DEF On
  <2>2. i - 1 \in 1 .. n /\ (i - 1) + 1 = i
    BY <1>4, <1>5, <1>8, <2>1
  <2>3. r[(i - 1) + 1] = list[i - 1]
    BY <1>4, <2>2
  <2> QED
    BY <1>3, <2>1, <2>2, <2>3 DEF On
<1>9. ASSUME NEW b PROVE On(b, list) \/ b = x => On(b, r)
  <2>1. 1 \in 1 .. n + 1 /\ \A i \in 1 .. n : i + 1 \in 1 .. n + 1
    OBVIOUS
  <2> QED
    BY <1>3, <1>4, <2>1 DEF On
<1> QED
  BY <1>2, <1>3, <1>7, <1>8, <1>9

-----------------------------------------------------------------------------
(* The tables of arenas and pages.                                         *)

BlocksOf(p, d) == {b \in Block : IsBlock(p, d, b)}

\* How many blocks an arena has.
LEMMA BlockCount ==
    ASSUME NEW p \in Nat, NEW d \in Descs
    PROVE  IsFiniteSet(BlocksOf(p, d)) /\ Cardinality(BlocksOf(p, d)) = blocks_per_arena(d)
<1>1. PICK n \in Nat : n = blocks_per_arena(d)
  BY Room
<1>2. PICK S : S = 0 .. n - 1
  OBVIOUS
<1>3. IsFiniteSet(S) /\ Cardinality(S) = n
  BY <1>2, FS_Interval
<1>4. PICK f : f = [i \in S |-> <<p, i>>]
  OBVIOUS
<1>5. PICK T : T = BlocksOf(p, d)
  OBVIOUS
<1>6. \A b : b \in T <=> b \in Block /\ b[1] = p /\ b[2] \in S
  BY <1>1, <1>2, <1>5 DEF BlocksOf, IsBlock
<1>7. \A i \in S : <<p, i>> \in T
  BY <1>2, <1>6 DEF Block
<1>8. f \in [S -> T] /\ \A i, j \in S : f[i] = f[j] => i = j
  BY <1>4, <1>7
<1>9. \A b \in T : \E i \in S : f[i] = b
  <2> SUFFICES ASSUME NEW b \in T PROVE f[b[2]] = b /\ b[2] \in S
    OBVIOUS
  <2>1. b = <<b[1], b[2]>>
    BY <1>6 DEF Block
  <2> QED
    BY <1>4, <1>6, <2>1
<1>10. f \in Injection(S, T) /\ f \in Surjection(S, T)
  BY <1>8, <1>9 DEF Injection, IsInjective, Surjection
<1>11. ExistsBijection(S, T)
  BY <1>10 DEF ExistsBijection, Bijection
<1> QED
  BY <1>1, <1>3, <1>5, <1>11, FS_Bijection

\* t has one arena more, or less, than s.
Adds(s, t, p, a) ==
    /\ p \in Nat \ DOMAIN s.arenas /\ DOMAIN t.arenas = DOMAIN s.arenas \union {p}
    /\ t.arenas[p] = a /\ \A q \in DOMAIN s.arenas : t.arenas[q] = s.arenas[q]
    /\ PageCount(a) \in Nat \ {0} /\ (p .. p + PageCount(a) - 1) \intersect s.used = {}
    /\ t.used = s.used \union (p .. p + PageCount(a) - 1)
Drops(s, t, p) ==
    /\ p \in DOMAIN s.arenas /\ DOMAIN t.arenas = DOMAIN s.arenas \ {p}
    /\ \A q \in DOMAIN s.arenas : q # p => t.arenas[q] = s.arenas[q]
    /\ t.used = s.used \ PagesOf(s, p)

\* A page that begins an arena is in use.
LEMMA ArenaInUse ==
    ASSUME NEW s \in Memory, PagesInv(s), NEW p \in DOMAIN s.arenas
    PROVE  p \in Nat /\ PageCount(s.arenas[p]) \in Nat \ {0} /\ p \in PagesOf(s, p) /\ p \in s.used
<1>1. DOMAIN s.arenas \subseteq Nat /\ s.arenas[p] \in Arena
  BY ArenaTable DEF Memory
<1>2. PageCount(s.arenas[p]) \in Nat \ {0}
  BY <1>1 DEF PagesInv, PageCount, Arena
<1>3. p \in Nat /\ p \in PagesOf(s, p)
  BY <1>1, <1>2 DEF PagesOf
<1> QED
  BY <1>2, <1>3 DEF PagesInv

\* palloc_get_multiple() keeps the pages apart.
LEMMA PagesAdded ==
    ASSUME NEW s \in Memory, PagesInv(s), NEW t, NEW p, NEW a, Adds(s, t, p, a)
    PROVE  PagesInv(t)
<1>1. \A q \in DOMAIN s.arenas : PagesOf(t, q) = PagesOf(s, q) /\ PageCount(t.arenas[q]) > 0
  BY DEF Adds, PagesOf, PagesInv
<1>2. PagesOf(t, p) = p .. p + PageCount(a) - 1 /\ PageCount(t.arenas[p]) > 0
  BY DEF Adds, PagesOf
<1>3. DOMAIN t.arenas = DOMAIN s.arenas \union {p}
  BY DEF Adds
<1>4. \A q \in DOMAIN s.arenas : \A x \in PagesOf(s, q) : x \in Nat /\ x \in s.used
  <2> SUFFICES ASSUME NEW q \in DOMAIN s.arenas, NEW x \in PagesOf(s, q) PROVE x \in Nat /\ x \in s.used
    OBVIOUS
  <2>1. x \in Nat
    BY ArenaInUse DEF PagesOf
  <2> QED
    BY <2>1 DEF PagesInv
<1>5. \A q \in DOMAIN s.arenas : PagesOf(s, q) \intersect PagesOf(t, p) = {}
  BY <1>2, <1>4 DEF Adds
<1>6. \A q, r \in DOMAIN t.arenas : q # r => PagesOf(t, q) \intersect PagesOf(t, r) = {}
  BY <1>1, <1>3, <1>5 DEF PagesInv
<1>7. ASSUME NEW x \in Nat PROVE x \in t.used <=> \E q \in DOMAIN t.arenas : x \in PagesOf(t, q)
  <2>1. x \in t.used <=> x \in s.used \/ x \in PagesOf(t, p)
    BY <1>2 DEF Adds
  <2>2. x \in s.used <=> \E q \in DOMAIN s.arenas : x \in PagesOf(s, q)
    BY DEF PagesInv
  <2> QED
    BY <1>1, <1>3, <2>1, <2>2
<1> QED
  BY <1>1, <1>2, <1>3, <1>6, <1>7 DEF PagesInv

\* palloc_free_multiple() keeps the pages apart.
LEMMA PagesDropped ==
    ASSUME NEW s \in Memory, PagesInv(s), NEW t, NEW p, Drops(s, t, p)
    PROVE  PagesInv(t)
<1>1. \A q \in DOMAIN t.arenas : /\ PagesOf(t, q) = PagesOf(s, q) /\ PageCount(t.arenas[q]) > 0
                                 /\ q \in DOMAIN s.arenas /\ q # p
  BY DEF Drops, PagesOf, PagesInv
<1>2. \A q \in DOMAIN t.arenas : PagesOf(s, q) \intersect PagesOf(s, p) = {}
  BY <1>1 DEF Drops, PagesInv
<1>3. \A q, r \in DOMAIN t.arenas : q # r => PagesOf(t, q) \intersect PagesOf(t, r) = {}
  BY <1>1 DEF PagesInv
<1>4. ASSUME NEW x \in Nat PROVE x \in t.used <=> \E q \in DOMAIN t.arenas : x \in PagesOf(t, q)
  <2>1. x \in t.used <=> x \in s.used /\ x \notin PagesOf(s, p)
    BY DEF Drops
  <2>2. x \in s.used <=> \E q \in DOMAIN s.arenas : x \in PagesOf(s, q)
    BY DEF PagesInv
  <2>3. \A q \in DOMAIN s.arenas : q = p \/ q \in DOMAIN t.arenas
    BY DEF Drops
  <2> QED
    BY <1>1, <1>2, <2>1, <2>2, <2>3
<1> QED
  BY <1>1, <1>3, <1>4 DEF PagesInv

\* malloc() sets up an arena in pages nobody uses.
LEMMA ArenaMade ==
    ASSUME NEW s \in Memory, PagesInv(s), NEW d \in Descs \union {Big}, NEW n \in Nat, NEW c \in Nat \ {0},
           NEW p, p = palloc_get_multiple(s, c), p # NoMemory, NEW t, t = NewArena(s, p, d, n, c),
           NEW a, a = [desc |-> d, free_cnt |-> n], PageCount(a) = c
    PROVE  t \in Memory /\ Adds(s, t, p, a) /\ t.free = s.free /\ a \in Arena
<1>1. p \in Nat \ {0} /\ (p .. p + c - 1) \intersect s.used = {}
  BY Palloc
<1>2. p \notin DOMAIN s.arenas
  <2>1. p \in p .. p + c - 1
    BY <1>1
  <2> QED
    BY <1>1, <2>1, ArenaInUse
<1>3. a \in Arena
  BY DEF Arena
<1>4. s.arenas \in ArenaTables /\ s.used \in SUBSET Nat
  BY DEF Memory
<1>5. PICK D : D = DOMAIN s.arenas
  OBVIOUS
<1>6. D \subseteq Nat /\ s.arenas \in [D -> Arena]
  BY <1>4, <1>5, ArenaTable
<1>7. PICK A : A = [q \in D \union {p} |-> IF q = p THEN a ELSE s.arenas[q]]
  OBVIOUS
<1>8. A \in [D \union {p} -> Arena] /\ D \union {p} \in SUBSET Nat
  BY <1>1, <1>3, <1>6, <1>7
<1>9. A \in ArenaTables /\ DOMAIN A = D \union {p}
  BY <1>7, <1>8 DEF ArenaTables
<1>10. t = [s EXCEPT !.used = @ \union (p .. p + c - 1), !.arenas = A]
  BY <1>5, <1>7 DEF NewArena
<1>11. t.used = s.used \union (p .. p + c - 1) /\ t.arenas = A /\ t.free = s.free
  BY <1>10 DEF Memory
<1>12. t \in Memory
  <2>1. s.used \union (p .. p + c - 1) \in SUBSET Nat
    BY <1>1, <1>4
  <2> QED
    BY <1>9, <1>10, <2>1 DEF Memory
<1>13. A[p] = a /\ \A q \in D : A[q] = s.arenas[q]
  BY <1>2, <1>5, <1>7
<1>14. Adds(s, t, p, a)
  BY <1>1, <1>2, <1>5, <1>9, <1>11, <1>13 DEF Adds
<1> QED
  BY <1>3, <1>11, <1>12, <1>14

\* free() gives its pages back.
LEMMA ArenaGone ==
    ASSUME NEW s \in Memory, PagesInv(s), NEW p \in DOMAIN s.arenas, NEW c, c = PageCount(s.arenas[p]),
           NEW t, t = FreeArena(s, p, c)
    PROVE  t \in Memory /\ Drops(s, t, p) /\ t.free = s.free
<1>1. s.arenas \in ArenaTables /\ s.used \in SUBSET Nat
  BY DEF Memory
<1>2. PICK D : D = DOMAIN s.arenas
  OBVIOUS
<1>3. D \subseteq Nat /\ s.arenas \in [D -> Arena]
  BY <1>1, <1>2, ArenaTable
<1>4. PICK A : A = [q \in D \ {p} |-> s.arenas[q]]
  OBVIOUS
<1>5. A \in [D \ {p} -> Arena] /\ D \ {p} \in SUBSET Nat
  BY <1>3, <1>4
<1>6. A \in ArenaTables /\ DOMAIN A = D \ {p} /\ \A q \in D : q # p => A[q] = s.arenas[q]
  BY <1>4, <1>5 DEF ArenaTables
<1>7. PICK U : U = s.used \ (p .. p + c - 1)
  OBVIOUS
<1>8. t = [s EXCEPT !.used = U, !.arenas = A]
  BY <1>2, <1>4, <1>7 DEF FreeArena, palloc_free_multiple, Memory
<1>9. t.used = U /\ t.arenas = A /\ t.free = s.free
  BY <1>8 DEF Memory
<1>10. t \in Memory
  BY <1>1, <1>6, <1>7, <1>8 DEF Memory
<1>11. Drops(s, t, p)
  BY <1>2, <1>6, <1>7, <1>9 DEF Drops, PagesOf
<1> QED
  BY <1>9, <1>10, <1>11

-----------------------------------------------------------------------------
(* What malloc() and free() do to the blocks.                              *)

\* What happens to the free lists: an arena's blocks are added, a block is taken or put
\* back, an arena's blocks are taken out.
Lists(t) == \A e \in Descs : Once(t.free[e])
Fills(s, t, p, d) ==
    \A e \in Descs : \A b \in Block : On(b, t.free[e]) <=> On(b, s.free[e]) \/ (e = d /\ IsBlock(p, d, b))
Pops(s, t, x) ==
    \A e \in Descs : \A b \in Block : On(b, t.free[e]) <=> On(b, s.free[e]) /\ b # x
Pushes(s, t, d, x) ==
    \A e \in Descs : \A b \in Block : On(b, t.free[e]) <=> On(b, s.free[e]) \/ (e = d /\ b = x)
Sifts(s, t, p) ==
    \A e \in Descs : \A b \in Block : On(b, t.free[e]) <=> On(b, s.free[e]) /\ b[1] # p

\* What an arena has, in a state of the allocator.
LEMMA ArenaTypes ==
    ASSUME NEW s \in Memory, NEW p \in DOMAIN s.arenas
    PROVE  p \in Nat /\ s.arenas[p] \in Arena /\ s.arenas[p].desc \in Descs \union {Big}
           /\ s.arenas[p].free_cnt \in Nat
BY ArenaTable DEF Memory, Arena

\* A new arena, all of whose blocks are free.
LEMMA Filled ==
    ASSUME NEW s, NEW H, MemInv(s, H), NEW t \in Memory, NEW p, NEW a \in Arena, Adds(s, t, p, a),
           a.desc # Big => a.free_cnt = blocks_per_arena(a.desc), Lists(t), Fills(s, t, p, a.desc)
    PROVE  MemInv(t, H)
<1>1. s \in Memory /\ PagesInv(s) /\ HandedInv(s, H) /\ FreeInv(s) /\ ShareInv(s, H)
  BY DEF MemInv
<1>2. /\ p \in Nat /\ p \notin DOMAIN s.arenas /\ DOMAIN t.arenas = DOMAIN s.arenas \union {p}
      /\ t.arenas[p] = a /\ \A q \in DOMAIN s.arenas : t.arenas[q] = s.arenas[q]
  BY DEF Adds
<1>3. PagesInv(t)
  BY <1>1, PagesAdded
<1>4. HandedInv(t, H)
  <2>1. ASSUME NEW h \in H PROVE Fits(t, h)
    <3>1. Fits(s, h)
      BY <1>1 DEF HandedInv
    <3> QED
      BY <1>2, <3>1 DEF Fits
  <2> QED
    BY <1>1, <2>1 DEF HandedInv
<1>5. ASSUME NEW e \in Descs, NEW b \in Block, On(b, s.free[e])
      PROVE  b[1] \in DOMAIN s.arenas /\ s.arenas[b[1]].desc = e /\ IsBlock(b[1], e, b)
  BY <1>1, <1>5 DEF FreeInv
<1>6. FreeInv(t)
  <2> SUFFICES ASSUME NEW e \in Descs, NEW b \in Block, On(b, t.free[e])
               PROVE  b[1] \in DOMAIN t.arenas /\ t.arenas[b[1]].desc = e /\ IsBlock(b[1], e, b)
    BY DEF FreeInv, Lists
  <2>1. On(b, s.free[e]) \/ (e = a.desc /\ IsBlock(p, a.desc, b))
    BY DEF Fills
  <2>2. CASE On(b, s.free[e])
    BY <1>2, <1>5, <2>2
  <2>3. CASE e = a.desc /\ IsBlock(p, a.desc, b)
    <3>1. b[1] = p
      BY <2>3 DEF IsBlock
    <3> QED
      BY <1>2, <2>3, <3>1
  <2> QED
    BY <2>1, <2>2, <2>3
<1>7. ASSUME NEW q \in DOMAIN s.arenas, s.arenas[q].desc # Big
      PROVE  /\ t.arenas[q].free_cnt = Cardinality(FreeIn(t, q))
             /\ \A b \in Block : IsBlock(q, t.arenas[q].desc, b) =>
                  (b \in FreeIn(t, q) <=> \A h \in H : h.block # b)
  <2>1. q # p /\ t.arenas[q] = s.arenas[q] /\ s.arenas[q].desc \in Descs
    BY <1>1, <1>2, <1>7, ArenaTypes
  <2>2. \A b \in Block : b \in FreeIn(t, q) <=> b \in FreeIn(s, q)
    BY <2>1 DEF FreeIn, Fills, IsBlock
  <2>3. FreeIn(t, q) = FreeIn(s, q)
    BY <2>2 DEF FreeIn
  <2> QED
    BY <1>1, <1>7, <2>1, <2>3 DEF ShareInv
<1>8. ASSUME a.desc # Big
      PROVE  /\ a.free_cnt = Cardinality(FreeIn(t, p))
             /\ \A b \in Block : IsBlock(p, a.desc, b) => (b \in FreeIn(t, p) <=> \A h \in H : h.block # b)
  <2>1. a.desc \in Descs
    BY <1>8 DEF Arena
  <2>2. \A b \in Block : b \in FreeIn(t, p) <=> IsBlock(p, a.desc, b)
    <3> SUFFICES ASSUME NEW b \in Block PROVE b[1] = p /\ On(b, t.free[a.desc]) <=> IsBlock(p, a.desc, b)
      BY <1>2 DEF FreeIn
    <3>1. b[1] = p => ~ On(b, s.free[a.desc])
      BY <1>2, <1>5, <2>1
    <3>2. IsBlock(p, a.desc, b) => b[1] = p
      BY DEF IsBlock
    <3> QED
      BY <2>1, <3>1, <3>2 DEF Fills
  <2>3. FreeIn(t, p) = BlocksOf(p, a.desc)
    BY <2>2 DEF FreeIn, BlocksOf
  <2>4. a.free_cnt = Cardinality(FreeIn(t, p))
    BY <1>2, <1>8, <2>1, <2>3, BlockCount
  <2>5. \A b \in Block : IsBlock(p, a.desc, b) => \A h \in H : h.block # b
    BY <1>1, <1>2 DEF IsBlock, HandedInv, Fits
  <2> QED
    BY <2>2, <2>4, <2>5
<1>9. ShareInv(t, H)
  BY <1>2, <1>7, <1>8 DEF ShareInv
<1> QED
  BY <1>3, <1>4, <1>6, <1>9 DEF MemInv

\* t has the arenas of s; free_cnt of one of them is n.
Counts(s, t, p, n) ==
    /\ p \in DOMAIN s.arenas /\ s.arenas[p].desc # Big /\ DOMAIN t.arenas = DOMAIN s.arenas
    /\ t.arenas[p] = [desc |-> s.arenas[p].desc, free_cnt |-> n]
    /\ \A q \in DOMAIN s.arenas : q # p => t.arenas[q] = s.arenas[q]
    /\ t.used = s.used

\* free_cnt of small blocks has no part in the pages, nor in what fits.
LEMMA Counted ==
    ASSUME NEW s \in Memory, PagesInv(s), NEW t \in Memory, NEW p, NEW n, Counts(s, t, p, n)
    PROVE  /\ PagesInv(t) /\ \A q \in DOMAIN s.arenas : t.arenas[q].desc = s.arenas[q].desc
           /\ \A h : h.block[1] \in DOMAIN s.arenas => (Fits(t, h) <=> Fits(s, h))
<1>1. DOMAIN t.arenas = DOMAIN s.arenas /\ \A q \in DOMAIN s.arenas : t.arenas[q].desc = s.arenas[q].desc
  BY DEF Counts
<1>2. \A q \in DOMAIN s.arenas : PageCount(t.arenas[q]) = PageCount(s.arenas[q])
  BY DEF Counts, PageCount
<1>3. \A q \in DOMAIN s.arenas : PagesOf(t, q) = PagesOf(s, q)
  BY <1>2 DEF PagesOf
<1>4. PagesInv(t)
  BY <1>1, <1>2, <1>3 DEF PagesInv, Counts
<1>5. \A q \in DOMAIN s.arenas : s.arenas[q].desc = Big => t.arenas[q] = s.arenas[q]
  BY DEF Counts
<1>6. ASSUME NEW h, h.block[1] \in DOMAIN s.arenas PROVE Fits(t, h) <=> Fits(s, h)
  BY <1>1, <1>5, <1>6 DEF Fits
<1> QED
  BY <1>1, <1>4, <1>6

\* A free block that malloc() hands out.
LEMMA Taken ==
    ASSUME NEW s, NEW H, MemInv(s, H), NEW t \in Memory, NEW d \in Descs, NEW x \in Block, On(x, s.free[d]),
           NEW size \in Nat \ {0}, size <= d, Counts(s, t, x[1], s.arenas[x[1]].free_cnt - 1),
           Lists(t), Pops(s, t, x), NEW g, g = [block |-> x, size |-> size]
    PROVE  MemInv(t, H \union {g}) /\ \A h \in H : h.block # x
<1>1. s \in Memory /\ PagesInv(s) /\ HandedInv(s, H) /\ FreeInv(s) /\ ShareInv(s, H)
  BY DEF MemInv
<1>2. PICK p : p = x[1]
  OBVIOUS
<1>3. p \in DOMAIN s.arenas /\ s.arenas[p].desc = d /\ IsBlock(p, d, x) /\ d # Big
  BY <1>1, <1>2, Room DEF FreeInv
<1>4. DOMAIN t.arenas = DOMAIN s.arenas /\ \A q \in DOMAIN s.arenas : q # p => t.arenas[q] = s.arenas[q]
  BY <1>2 DEF Counts
<1>5. t.arenas[p].desc = d /\ t.arenas[p].free_cnt = s.arenas[p].free_cnt - 1
  BY <1>2, <1>3 DEF Counts
<1>6. PagesInv(t) /\ \A q \in DOMAIN s.arenas : t.arenas[q].desc = s.arenas[q].desc
  BY <1>1, Counted
<1>7. x \in FreeIn(s, p)
  BY <1>2, <1>3 DEF FreeIn
<1>8. \A h \in H : h.block # x
  BY <1>1, <1>3, <1>7 DEF ShareInv
<1>9. HandedInv(t, H \union {g})
  <2>1. \A h \in H : Fits(s, h) /\ h.block[1] \in DOMAIN s.arenas
    BY <1>1 DEF HandedInv, Fits
  <2>2. \A h \in H : Fits(t, h)
    BY <1>1, <2>1, Counted
  <2>3. g.block = x /\ g.size = size /\ g \in HandedOut
    BY DEF HandedOut
  <2>4. Fits(t, g)
    BY <1>2, <1>3, <1>4, <1>5, <2>3 DEF Fits
  <2> QED
    BY <1>1, <1>8, <2>2, <2>3, <2>4 DEF HandedInv
<1>10. FreeInv(t)
  BY <1>1, <1>4, <1>6 DEF FreeInv, Lists, Pops
<1>11. ASSUME NEW q \in DOMAIN s.arenas, s.arenas[q].desc # Big
       PROVE  \A b : b \in FreeIn(t, q) <=> b \in FreeIn(s, q) /\ b # x
  <2>1. s.arenas[q].desc \in Descs /\ t.arenas[q].desc = s.arenas[q].desc
    BY <1>1, <1>6, <1>11, ArenaTypes
  <2> QED
    BY <2>1 DEF FreeIn, Pops
<1>12. ASSUME NEW q \in DOMAIN s.arenas, s.arenas[q].desc # Big
       PROVE  t.arenas[q].free_cnt = Cardinality(FreeIn(t, q))
  <2>1. CASE q = p
    <3>1. PICK A, B : A = FreeIn(s, p) /\ B = FreeIn(t, p)
      OBVIOUS
    <3>2. \A b : b \in B <=> b \in A /\ b # x
      BY <1>11, <1>12, <2>1, <3>1
    <3>3. A \in SUBSET BlocksOf(p, d) /\ p \in Nat
      BY <1>1, <1>3, <3>1, ArenaTypes DEF FreeIn, BlocksOf, FreeInv
    <3>4. IsFiniteSet(A)
      BY <3>3, BlockCount, FS_Subset
    <3>5. B = A \ {x}
      BY <3>2
    <3>6. Cardinality(A \ {x}) = Cardinality(A) - 1
      BY <1>7, <3>1, <3>4, FS_RemoveElement
    <3>7. s.arenas[p].free_cnt = Cardinality(A)
      BY <1>1, <1>3, <3>1 DEF ShareInv
    <3> QED
      BY <1>5, <2>1, <3>1, <3>5, <3>6, <3>7
  <2>2. CASE q # p
    <3>1. \A b : b \in FreeIn(s, q) => b # x
      BY <1>2, <2>2 DEF FreeIn
    <3>2. FreeIn(t, q) = FreeIn(s, q)
      BY <1>11, <1>12, <3>1
    <3> QED
      BY <1>1, <1>4, <1>12, <2>2, <3>2 DEF ShareInv
  <2> QED
    BY <2>1, <2>2
<1>13. ASSUME NEW q \in DOMAIN s.arenas, s.arenas[q].desc # Big, NEW b \in Block,
              IsBlock(q, s.arenas[q].desc, b)
       PROVE  b \in FreeIn(t, q) <=> \A h \in H \union {g} : h.block # b
  <2>1. b \in FreeIn(s, q) <=> \A h \in H : h.block # b
    BY <1>1, <1>13 DEF ShareInv
  <2>2. b \in FreeIn(t, q) <=> b \in FreeIn(s, q) /\ b # x
    BY <1>11, <1>13
  <2>3. g.block = x
    OBVIOUS
  <2> QED
    BY <2>1, <2>2, <2>3
<1>14. ShareInv(t, H \union {g})
  BY <1>4, <1>6, <1>12, <1>13 DEF ShareInv
<1> QED
  BY <1>6, <1>8, <1>9, <1>10, <1>14 DEF MemInv

\* A block that free() puts on its list.
LEMMA Put ==
    ASSUME NEW s, NEW H, MemInv(s, H), NEW t \in Memory, NEW g \in H, NEW p, p = g.block[1],
           NEW d \in Descs, p \in DOMAIN s.arenas => s.arenas[p].desc = d,
           Counts(s, t, p, s.arenas[p].free_cnt + 1), Lists(t), Pushes(s, t, d, g.block)
    PROVE  MemInv(t, H \ {g})
<1>1. s \in Memory /\ PagesInv(s) /\ HandedInv(s, H) /\ FreeInv(s) /\ ShareInv(s, H)
  BY DEF MemInv
<1>2. PICK x : x = g.block
  OBVIOUS
<1>3. p \in DOMAIN s.arenas /\ s.arenas[p].desc = d /\ IsBlock(p, d, x) /\ d # Big
  BY <1>1, <1>2, Room DEF HandedInv, Fits
<1>4. DOMAIN t.arenas = DOMAIN s.arenas /\ \A q \in DOMAIN s.arenas : q # p => t.arenas[q] = s.arenas[q]
  BY DEF Counts
<1>5. t.arenas[p].desc = d /\ t.arenas[p].free_cnt = s.arenas[p].free_cnt + 1
  BY <1>3 DEF Counts
<1>6. PagesInv(t) /\ \A q \in DOMAIN s.arenas : t.arenas[q].desc = s.arenas[q].desc
  BY <1>1, Counted
<1>7. x \in Block /\ x \notin FreeIn(s, p)
  <2>1. x \in Block
    BY <1>1, <1>2 DEF HandedInv, HandedOut
  <2> QED
    BY <1>1, <1>2, <1>3, <2>1 DEF ShareInv
<1>8. \A h \in H : h.block = x => h = g
  BY <1>1, <1>2 DEF HandedInv
<1>9. HandedInv(t, H \ {g})
  <2>1. \A h \in H : Fits(s, h) /\ h.block[1] \in DOMAIN s.arenas
    BY <1>1 DEF HandedInv, Fits
  <2>2. \A h \in H : Fits(t, h)
    BY <1>1, <2>1, Counted
  <2> QED
    BY <1>1, <2>2 DEF HandedInv
<1>10. FreeInv(t)
  <2> SUFFICES ASSUME NEW e \in Descs, NEW b \in Block, On(b, t.free[e])
               PROVE  b[1] \in DOMAIN t.arenas /\ t.arenas[b[1]].desc = e /\ IsBlock(b[1], e, b)
    BY DEF FreeInv, Lists
  <2>1. On(b, s.free[e]) \/ (e = d /\ b = x)
    BY <1>2 DEF Pushes
  <2>2. CASE On(b, s.free[e])
    BY <1>1, <1>4, <1>6, <2>2 DEF FreeInv
  <2>3. CASE e = d /\ b = x
    BY <1>2, <1>3, <1>4, <1>5, <2>3
  <2> QED
    BY <2>1, <2>2, <2>3
<1>11. ASSUME NEW q \in DOMAIN s.arenas, s.arenas[q].desc # Big
       PROVE  \A b : b \in FreeIn(t, q) <=> b \in FreeIn(s, q) \/ (q = p /\ b = x)
  <2>1. s.arenas[q].desc \in Descs /\ t.arenas[q].desc = s.arenas[q].desc
    BY <1>1, <1>6, <1>11, ArenaTypes
  <2>2. \A b : b \in FreeIn(t, q) <=> b \in Block /\ b[1] = q /\ On(b, t.free[s.arenas[q].desc])
    BY <2>1 DEF FreeIn
  <2>3. \A b : b \in FreeIn(s, q) <=> b \in Block /\ b[1] = q /\ On(b, s.free[s.arenas[q].desc])
    BY DEF FreeIn
  <2>4. \A b \in Block : On(b, t.free[s.arenas[q].desc])
                           <=> On(b, s.free[s.arenas[q].desc]) \/ (s.arenas[q].desc = d /\ b = x)
    BY <1>2, <2>1 DEF Pushes
  <2> QED
    BY <1>2, <1>3, <1>7, <2>2, <2>3, <2>4
<1>12. ASSUME NEW q \in DOMAIN s.arenas, s.arenas[q].desc # Big
       PROVE  t.arenas[q].free_cnt = Cardinality(FreeIn(t, q))
  <2>1. CASE q = p
    <3>1. PICK A, B : A = FreeIn(s, p) /\ B = FreeIn(t, p)
      OBVIOUS
    <3>2. \A b : b \in B <=> b \in A \/ b = x
      BY <1>11, <1>12, <2>1, <3>1
    <3>3. A \in SUBSET BlocksOf(p, d) /\ p \in Nat
      BY <1>1, <1>3, <3>1, ArenaTypes DEF FreeIn, BlocksOf, FreeInv
    <3>4. IsFiniteSet(A)
      BY <3>3, BlockCount, FS_Subset
    <3>5. B = A \union {x}
      BY <3>2
    <3>6. Cardinality(A \union {x}) = Cardinality(A) + 1
      BY <1>7, <3>1, <3>4, FS_AddElement
    <3>7. s.arenas[p].free_cnt = Cardinality(A)
      BY <1>1, <1>3, <3>1 DEF ShareInv
    <3> QED
      BY <1>5, <2>1, <3>1, <3>5, <3>6, <3>7
  <2>2. CASE q # p
    <3>1. FreeIn(t, q) = FreeIn(s, q)
      BY <1>11, <1>12, <2>2
    <3> QED
      BY <1>1, <1>4, <1>12, <2>2, <3>1 DEF ShareInv
  <2> QED
    BY <2>1, <2>2
<1>13. ASSUME NEW q \in DOMAIN s.arenas, s.arenas[q].desc # Big, NEW b \in Block,
              IsBlock(q, s.arenas[q].desc, b)
       PROVE  b \in FreeIn(t, q) <=> \A h \in H \ {g} : h.block # b
  <2>1. b \in FreeIn(s, q) <=> \A h \in H : h.block # b
    BY <1>1, <1>13 DEF ShareInv
  <2>2. b \in FreeIn(t, q) <=> b \in FreeIn(s, q) \/ (q = p /\ b = x)
    BY <1>11, <1>13
  <2>3. b = x => q = p
    BY <1>2, <1>3, <1>13 DEF IsBlock
  <2> QED
    BY <1>2, <1>8, <2>1, <2>2, <2>3
<1>14. ShareInv(t, H \ {g})
  BY <1>4, <1>6, <1>12, <1>13 DEF ShareInv
<1> QED
  BY <1>6, <1>9, <1>10, <1>14 DEF MemInv

\* An arena of which nobody has a block, and that free() gives back.
LEMMA Dropped ==
    ASSUME NEW s, NEW H, MemInv(s, H), NEW t \in Memory, NEW p, Drops(s, t, p),
           \A h \in H : h.block[1] # p, Lists(t), Sifts(s, t, p)
    PROVE  MemInv(t, H)
<1>1. s \in Memory /\ PagesInv(s) /\ HandedInv(s, H) /\ FreeInv(s) /\ ShareInv(s, H)
  BY DEF MemInv
<1>2. DOMAIN t.arenas = DOMAIN s.arenas \ {p} /\ \A q \in DOMAIN t.arenas : t.arenas[q] = s.arenas[q]
  BY DEF Drops
<1>3. PagesInv(t)
  BY <1>1, PagesDropped
<1>4. HandedInv(t, H)
  <2>1. ASSUME NEW h \in H PROVE Fits(t, h)
    <3>1. Fits(s, h) /\ h.block[1] # p
      BY <1>1 DEF HandedInv
    <3>2. h.block[1] \in DOMAIN t.arenas
      BY <1>2, <3>1 DEF Fits
    <3> QED
      BY <1>2, <3>1, <3>2 DEF Fits
  <2> QED
    BY <1>1, <2>1 DEF HandedInv
<1>5. FreeInv(t)
  BY <1>1, <1>2 DEF FreeInv, Lists, Sifts
<1>6. ASSUME NEW q \in DOMAIN t.arenas, t.arenas[q].desc # Big
      PROVE  FreeIn(t, q) = FreeIn(s, q) /\ q \in DOMAIN s.arenas /\ t.arenas[q] = s.arenas[q]
  <2>1. q # p /\ q \in DOMAIN s.arenas /\ t.arenas[q] = s.arenas[q] /\ s.arenas[q].desc \in Descs
    BY <1>1, <1>2, <1>6, ArenaTypes
  <2>2. \A b \in Block : b \in FreeIn(t, q) <=> b \in FreeIn(s, q)
    BY <2>1 DEF FreeIn, Sifts
  <2>3. FreeIn(t, q) = FreeIn(s, q)
    BY <2>2 DEF FreeIn
  <2> QED
    BY <2>1, <2>3
<1>7. ShareInv(t, H)
  BY <1>1, <1>6 DEF ShareInv
<1> QED
  BY <1>3, <1>4, <1>5, <1>7 DEF MemInv

\* When all the blocks of an arena are counted as free, nobody has one.
LEMMA AllFree ==
    ASSUME NEW s, NEW H, MemInv(s, H), NEW p \in DOMAIN s.arenas, NEW d \in Descs, s.arenas[p].desc = d
    PROVE  /\ s.arenas[p].free_cnt <= blocks_per_arena(d)
           /\ s.arenas[p].free_cnt >= blocks_per_arena(d) => \A h \in H : h.block[1] # p
           /\ s.arenas[p].free_cnt < blocks_per_arena(d) => \E h \in H : h.block[1] = p
<1>1. s \in Memory /\ HandedInv(s, H) /\ FreeInv(s) /\ ShareInv(s, H) /\ d # Big
  BY Room DEF MemInv
<1>2. PICK A, B : A = FreeIn(s, p) /\ B = BlocksOf(p, d)
  OBVIOUS
<1>3. A \in SUBSET B /\ p \in Nat
  BY <1>1, <1>2, ArenaTypes DEF FreeIn, BlocksOf, FreeInv
<1>4. IsFiniteSet(B) /\ Cardinality(B) = blocks_per_arena(d)
  BY <1>2, <1>3, BlockCount
<1>5. IsFiniteSet(A) /\ Cardinality(A) <= Cardinality(B) /\ (Cardinality(A) = Cardinality(B) => A = B)
  BY <1>3, <1>4, FS_Subset
<1>6. Cardinality(A) \in Nat /\ Cardinality(B) \in Nat
  BY <1>4, <1>5, FS_CardinalityType
<1>7. s.arenas[p].free_cnt = Cardinality(A)
  BY <1>1, <1>2 DEF ShareInv
<1>8. \A b \in B : b \in A <=> \A h \in H : h.block # b
  BY <1>1, <1>2 DEF ShareInv, BlocksOf
<1>9. ASSUME s.arenas[p].free_cnt >= blocks_per_arena(d), NEW h \in H, h.block[1] = p PROVE FALSE
  <2>1. A = B
    BY <1>4, <1>5, <1>6, <1>7, <1>9
  <2>2. h.block \in Block /\ IsBlock(p, d, h.block)
    BY <1>1, <1>9 DEF HandedInv, HandedOut, Fits
  <2>3. h.block \in B
    BY <1>2, <2>2 DEF BlocksOf
  <2> QED
    BY <1>8, <2>1, <2>3
<1>10. ASSUME s.arenas[p].free_cnt < blocks_per_arena(d) PROVE \E h \in H : h.block[1] = p
  <2>1. A # B
    BY <1>4, <1>6, <1>7, <1>10
  <2>2. PICK b \in B : b \notin A
    BY <1>3, <2>1
  <2>3. PICK h \in H : h.block = b
    BY <1>8, <2>2
  <2>4. b[1] = p
    BY <1>2, <2>2 DEF BlocksOf, IsBlock
  <2> QED
    BY <2>3, <2>4
<1> QED
  BY <1>4, <1>5, <1>6, <1>7, <1>9, <1>10

-----------------------------------------------------------------------------
(* malloc() and free().                                                    *)

\* The list of a new arena.
LEMMA NewList ==
    ASSUME NEW p \in Nat, NEW d \in Descs, NEW n, n = blocks_per_arena(d), NEW list,
           list = [i \in 1 .. n |-> arena_to_block(p, i - 1)]
    PROVE  /\ list \in Seq(Block) /\ Once(list) /\ list # << >>
           /\ \A b \in Block : On(b, list) <=> IsBlock(p, d, b)
<1>1. n \in Nat \ {0}
  BY Room
<1>2. DOMAIN list = 1 .. n /\ \A i \in 1 .. n : list[i] = <<p, i - 1>>
  BY DEF arena_to_block
<1>3. \A i \in 1 .. n : list[i] \in Block
  BY <1>1, <1>2 DEF Block
<1>4. list \in Seq(Block) /\ list # << >>
  <2>1. \A i \in 1 .. n : arena_to_block(p, i - 1) \in Block
    BY <1>2, <1>3
  <2>2. list \in Seq(Block)
    BY <1>1, <2>1
  <2>3. Len(list) # 0
    BY <1>1, <1>2, <2>2
  <2> QED
    BY <2>2, <2>3
<1>5. Once(list)
  BY <1>1, <1>2 DEF Once
<1>6. ASSUME NEW b \in Block PROVE On(b, list) <=> IsBlock(p, d, b)
  <2>1. b = <<b[1], b[2]>> /\ b[2] \in Nat
    BY DEF Block
  <2>2. On(b, list) => IsBlock(p, d, b)
    BY <1>1, <1>2 DEF On, IsBlock
  <2>3. ASSUME IsBlock(p, d, b) PROVE On(b, list)
    <3>1. b[1] = p /\ b[2] + 1 \in 1 .. n /\ (b[2] + 1) - 1 = b[2]
      BY <1>1, <2>1, <2>3 DEF IsBlock
    <3>2. list[b[2] + 1] = b
      BY <1>2, <2>1, <3>1
    <3> QED
      BY <1>2, <3>1, <3>2 DEF On
  <2> QED
    BY <2>2, <2>3
<1> QED
  BY <1>4, <1>5, <1>6

FillsPage(s, f, p, d, n) ==
    f = [NewArena(s, p, d, n, 1) EXCEPT !.free[d] = [i \in 1 .. n |-> arena_to_block(p, i - 1)]]
PageWanted(s, p, d, n) ==
    /\ d \in Descs /\ n = blocks_per_arena(d) /\ s.free[d] = << >>
    /\ p = palloc_get_multiple(s, 1) /\ p # NoMemory
PageReady(s, f, p, d) ==
    /\ f.free[d] # << >> /\ DOMAIN f.arenas = DOMAIN s.arenas \union {p}
    /\ \A b \in Block : On(b, f.free[d]) => b[1] = p

\* malloc(): a page for the blocks of d.
LEMMA PageFilled ==
    ASSUME NEW s, NEW H, MemInv(s, H), NEW p, NEW d, NEW n, PageWanted(s, p, d, n),
           NEW f, FillsPage(s, f, p, d, n)
    PROVE  MemInv(f, H) /\ PageReady(s, f, p, d)
<1>0. /\ d \in Descs /\ n = blocks_per_arena(d) /\ s.free[d] = << >>
      /\ p = palloc_get_multiple(s, 1) /\ p # NoMemory
  BY DEF PageWanted
<1>1. s \in Memory /\ PagesInv(s) /\ FreeInv(s)
  BY DEF MemInv
<1>2. n \in Nat \ {0} /\ d # Big
  BY <1>0, Room
<1>3. PICK m : m = NewArena(s, p, d, n, 1)
  OBVIOUS
<1>4. PICK a : a = [desc |-> d, free_cnt |-> n]
  OBVIOUS
<1>5. PageCount(a) = 1 /\ a.desc = d /\ a.free_cnt = n
  BY <1>2, <1>4 DEF PageCount
<1>6. m \in Memory /\ Adds(s, m, p, a) /\ m.free = s.free /\ a \in Arena
  <2>1. 1 \in Nat \ {0} /\ n \in Nat /\ d \in Descs \union {Big}
    BY <1>0, <1>2
  <2> QED
    BY <1>0, <1>1, <1>3, <1>4, <1>5, <2>1, ArenaMade
<1>7. p \in Nat
  BY <1>6 DEF Adds
<1>8. PICK list : list = [i \in 1 .. n |-> arena_to_block(p, i - 1)]
  OBVIOUS
<1>9. /\ list \in Seq(Block) /\ Once(list) /\ list # << >>
      /\ \A b \in Block : On(b, list) <=> IsBlock(p, d, b)
  BY <1>0, <1>7, <1>8, NewList
<1>10. m.free \in [Descs -> Seq(Block)]
  BY <1>6 DEF Memory
<1>11. PICK F : F = [m.free EXCEPT ![d] = list]
  OBVIOUS
<1>F. F \in [Descs -> Seq(Block)] /\ F[d] = list /\ \A e \in Descs : e # d => F[e] = m.free[e]
  BY <1>0, <1>9, <1>10, <1>11
<1>f. f = [m EXCEPT !.free = F]
  BY <1>3, <1>8, <1>11 DEF FillsPage
<1>12. /\ f.used = m.used /\ f.arenas = m.arenas /\ f.free = F
       /\ f.free[d] = list /\ \A e \in Descs : e # d => f.free[e] = s.free[e]
  <2>1. f.used = m.used /\ f.arenas = m.arenas /\ f.free = F
    BY <1>6, <1>f DEF Memory
  <2> QED
    BY <1>0, <1>6, <1>F, <2>1
<1>13. f \in Memory
  BY <1>6, <1>F, <1>f DEF Memory
<1>14. Adds(s, f, p, a)
  BY <1>6, <1>12 DEF Adds
<1>15. Lists(f)
  BY <1>1, <1>9, <1>12 DEF Lists, FreeInv
<1>16. Fills(s, f, p, a.desc)
  <2>1. \A b : ~ On(b, s.free[d])
    BY <1>0 DEF On
  <2> QED
    BY <1>5, <1>9, <1>12, <2>1 DEF Fills
<1>a. (a.desc # Big => a.free_cnt = blocks_per_arena(a.desc)) /\ a \in Arena
  BY <1>0, <1>5, <1>6
<1>17. MemInv(f, H)
  BY <1>a, <1>13, <1>14, <1>15, <1>16, Filled
<1>18. DOMAIN f.arenas = DOMAIN s.arenas \union {p}
  BY <1>14 DEF Adds
<1> QED
  BY <1>9, <1>12, <1>17, <1>18 DEF IsBlock, PageReady

TakesBlock(s, t, d, x) ==
    t = [s EXCEPT !.free[d] = Tail(@), !.arenas[block_to_arena(x)].free_cnt = @ - 1]
BlockReady(s, d, size, x, g) ==
    /\ d \in Descs /\ size \in Nat \ {0} /\ size <= d /\ s.free[d] # << >>
    /\ x = Head(s.free[d]) /\ g = [block |-> x, size |-> size]
BlockHanded(s, H, t, d, x) ==
    /\ x \in Block /\ On(x, s.free[d])
    /\ (\A h \in H : h.block # x) /\ DOMAIN t.arenas = DOMAIN s.arenas

\* malloc(): the first block of the list of d.
LEMMA BlockTaken ==
    ASSUME NEW s, NEW H, MemInv(s, H), NEW d, NEW size, NEW x, NEW g, BlockReady(s, d, size, x, g),
           NEW t, TakesBlock(s, t, d, x)
    PROVE  MemInv(t, H \union {g}) /\ BlockHanded(s, H, t, d, x)
<1>0. /\ d \in Descs /\ size \in Nat \ {0} /\ size <= d /\ s.free[d] # << >>
      /\ x = Head(s.free[d]) /\ g = [block |-> x, size |-> size]
  BY DEF BlockReady
<1>1. s \in Memory /\ PagesInv(s) /\ FreeInv(s) /\ ShareInv(s, H)
  BY DEF MemInv
<1>2. s.free[d] \in Seq(Block) /\ Once(s.free[d])
  BY <1>0, <1>1 DEF Memory, FreeInv
<1>3. x \in Block /\ On(x, s.free[d])
  BY <1>0, <1>2, Popped
<1>4. PICK list : list = Tail(s.free[d])
  OBVIOUS
<1>5. list \in Seq(Block) /\ Once(list) /\ \A b : On(b, list) <=> On(b, s.free[d]) /\ b # x
  BY <1>0, <1>2, <1>4, Popped
<1>6. PICK p : p = x[1]
  OBVIOUS
<1>7. p \in DOMAIN s.arenas /\ s.arenas[p].desc = d /\ d # Big /\ IsBlock(p, d, x)
  BY <1>0, <1>1, <1>3, <1>6, Room DEF FreeInv
<1>8. s.arenas[p] \in Arena /\ s.arenas[p].free_cnt \in Nat /\ p \in Nat
  BY <1>0, <1>1, <1>7, ArenaTypes
<1>9. PICK n : n = s.arenas[p].free_cnt - 1
  OBVIOUS
<1>10. n \in Nat
  <2>1. s.arenas[p].free_cnt = Cardinality(FreeIn(s, p)) /\ x \in FreeIn(s, p)
    BY <1>0, <1>1, <1>3, <1>6, <1>7 DEF ShareInv, FreeIn
  <2>2. FreeIn(s, p) \in SUBSET BlocksOf(p, d)
    BY <1>0, <1>1, <1>7 DEF FreeIn, BlocksOf, FreeInv
  <2>3. IsFiniteSet(FreeIn(s, p))
    BY <1>0, <1>8, <2>2, BlockCount, FS_Subset
  <2>4. Cardinality(FreeIn(s, p)) # 0
    BY <2>1, <2>3, FS_EmptySet
  <2> QED
    BY <1>0, <1>8, <1>9, <2>1, <2>4
<1>11. PICK A : A = [s.arenas EXCEPT ![p].free_cnt = n]
  OBVIOUS
<1>12. PICK D : D = DOMAIN s.arenas
  OBVIOUS
<1>13. D \subseteq Nat /\ s.arenas \in [D -> Arena]
  BY <1>0, <1>1, <1>12, ArenaTable DEF Memory
<1>14. /\ A \in [D -> Arena] /\ A[p] = [desc |-> d, free_cnt |-> n] /\ \A q \in D : q # p => A[q] = s.arenas[q]
  <2>1. A = [s.arenas EXCEPT ![p] = [desc |-> d, free_cnt |-> n]]
    <3>1. [s.arenas[p] EXCEPT !.free_cnt = n] = [desc |-> d, free_cnt |-> n]
      BY <1>0, <1>7, <1>8 DEF Arena
    <3> QED
      BY <1>0, <1>11, <3>1
  <2>2. [desc |-> d, free_cnt |-> n] \in Arena
    BY <1>0, <1>10 DEF Arena
  <2> QED
    BY <1>0, <1>7, <1>12, <1>13, <2>1, <2>2
<1>15. A \in ArenaTables /\ DOMAIN A = D
  BY <1>0, <1>13, <1>14 DEF ArenaTables
<1>F. PICK F : F = [s.free EXCEPT ![d] = list]
  OBVIOUS
<1>G. F \in [Descs -> Seq(Block)] /\ F[d] = list /\ \A e \in Descs : e # d => F[e] = s.free[e]
  BY <1>0, <1>1, <1>5, <1>F DEF Memory
<1>16. t = [s EXCEPT !.free = F, !.arenas = A]
  BY <1>0, <1>1, <1>4, <1>6, <1>9, <1>11, <1>F DEF TakesBlock, block_to_arena, Memory
<1>17. /\ t.used = s.used /\ t.arenas = A /\ t.free = F
       /\ t.free[d] = list /\ \A e \in Descs : e # d => t.free[e] = s.free[e]
  <2>1. t.used = s.used /\ t.arenas = A /\ t.free = F
    BY <1>0, <1>1, <1>16 DEF Memory
  <2> QED
    BY <1>0, <1>G, <2>1
<1>18. t \in Memory
  BY <1>0, <1>1, <1>G, <1>15, <1>16 DEF Memory
<1>19. Counts(s, t, p, n)
  BY <1>0, <1>7, <1>12, <1>14, <1>15, <1>17 DEF Counts
<1>20. Lists(t)
  BY <1>0, <1>1, <1>5, <1>17 DEF Lists, FreeInv
<1>21. Pops(s, t, x)
  <2>1. \A e \in Descs : e # d => ~ On(x, s.free[e])
    BY <1>0, <1>1, <1>3, <1>6, <1>7 DEF FreeInv
  <2> QED
    BY <1>0, <1>5, <1>17, <2>1 DEF Pops
<1>22. Counts(s, t, x[1], s.arenas[x[1]].free_cnt - 1)
  BY <1>0, <1>6, <1>9, <1>19
<1>23. MemInv(t, H \union {g}) /\ \A h \in H : h.block # x
  BY <1>0, <1>3, <1>18, <1>20, <1>21, <1>22, Taken
<1> QED
  BY <1>0, <1>3, <1>12, <1>15, <1>17, <1>23 DEF BlockHanded

\* What malloc(size) returns: no memory, or a block nobody has.
Gave(s, H, r, size) ==
    LET G == H \union {[block |-> r.block, size |-> size]} IN
    /\ r.block \in Block /\ (\A h \in H : h.block # r.block)
    /\ MemInv(r.state, G) /\ UsedInv(r.state, G)

\* malloc(): a block of the list of d, or of a new arena.
LEMMA SmallGiven ==
    ASSUME NEW s, NEW H, MemInv(s, H), UsedInv(s, H), NEW d \in Descs, NEW size \in Nat \ {0}, size <= d,
           NEW r, r = MallocSmall(s, d)
    PROVE  (r.block = NoMemory /\ r.state = s) \/ Gave(s, H, r, size)
<1>1. ASSUME NEW f, MemInv(f, H), NEW x, NEW g, BlockReady(f, d, size, x, g), NEW t, TakesBlock(f, t, d, x),
             \A p \in DOMAIN f.arenas : p \in DOMAIN s.arenas \/ \A b \in Block : On(b, f.free[d]) => b[1] = p
      PROVE  Gave(s, H, [state |-> t, block |-> x], size)
  <2>1. MemInv(t, H \union {g}) /\ BlockHanded(f, H, t, d, x)
    BY <1>1, BlockTaken
  <2>2. /\ x \in Block /\ On(x, f.free[d])
        /\ (\A h \in H : h.block # x) /\ DOMAIN t.arenas = DOMAIN f.arenas
    BY <2>1 DEF BlockHanded
  <2>3. g = [block |-> x, size |-> size] /\ g.block = x
    BY <1>1 DEF BlockReady
  <2>4. ASSUME NEW p \in DOMAIN t.arenas PROVE \E h \in H \union {g} : h.block[1] = p
    <3>1. CASE p \in DOMAIN s.arenas
      BY <3>1 DEF UsedInv
    <3>2. CASE p \notin DOMAIN s.arenas
      <4>1. x[1] = p
        BY <1>1, <2>2, <3>2
      <4> QED
        BY <2>3, <4>1
    <3> QED
      BY <3>1, <3>2
  <2>5. UsedInv(t, H \union {g})
    BY <2>4 DEF UsedInv
  <2>6. PICK q : q = [state |-> t, block |-> x]
    OBVIOUS
  <2>7. q.state = t /\ q.block = x
    BY <2>6
  <2>8. Gave(s, H, q, size)
    BY <2>1, <2>2, <2>3, <2>5, <2>7 DEF Gave
  <2> QED
    BY <2>6, <2>8
<1>2. CASE s.free[d] # << >>
  <2>1. PICK x : x = Head(s.free[d])
    OBVIOUS
  <2>2. PICK t : TakesBlock(s, t, d, x)
    BY DEF TakesBlock
  <2>3. r = [state |-> t, block |-> x]
    BY <1>2, <2>1, <2>2 DEF MallocSmall, TakesBlock
  <2>4. PICK g : BlockReady(s, d, size, x, g)
    BY <1>2, <2>1 DEF BlockReady
  <2>5. Gave(s, H, r, size)
    BY <1>1, <2>2, <2>3, <2>4
  <2> QED
    BY <2>5
<1>3. CASE s.free[d] = << >> /\ palloc_get_multiple(s, 1) = NoMemory
  <2>1. r = [state |-> s, block |-> NoMemory]
    BY <1>3 DEF MallocSmall
  <2> QED
    BY <2>1
<1>4. CASE s.free[d] = << >> /\ palloc_get_multiple(s, 1) # NoMemory
  <2>1. PICK p : p = palloc_get_multiple(s, 1)
    OBVIOUS
  <2>2. PICK n : n = blocks_per_arena(d)
    OBVIOUS
  <2>3. PICK f : FillsPage(s, f, p, d, n)
    BY DEF FillsPage
  <2>4. PageWanted(s, p, d, n)
    BY <1>4, <2>1, <2>2 DEF PageWanted
  <2>5. MemInv(f, H) /\ PageReady(s, f, p, d)
    BY <2>3, <2>4, PageFilled
  <2>6. PICK x : x = Head(f.free[d])
    OBVIOUS
  <2>7. PICK t : TakesBlock(f, t, d, x)
    BY DEF TakesBlock
  <2>8. r = [state |-> t, block |-> x]
    <3>1. t = [f EXCEPT !.free[d] = Tail(@), !.arenas[block_to_arena(x)].free_cnt = @ - 1]
      BY <2>7 DEF TakesBlock
    <3>2. f = [NewArena(s, p, d, n, 1) EXCEPT !.free[d] = [i \in 1 .. n |-> arena_to_block(p, i - 1)]]
      BY <2>3 DEF FillsPage
    <3>3. ~ (s.free[d] # << >>) /\ ~ (s.free[d] = << >> /\ p = NoMemory)
      BY <1>4, <2>1
    <3> QED
      BY <2>1, <2>2, <2>6, <3>1, <3>2, <3>3, Zenon DEF MallocSmall
  <2>9. PICK g : BlockReady(f, d, size, x, g)
    BY <2>5, <2>6 DEF BlockReady, PageReady
  <2>10. \A q \in DOMAIN f.arenas : q \in DOMAIN s.arenas \/ \A b \in Block : On(b, f.free[d]) => b[1] = q
    BY <2>5 DEF PageReady
  <2>11. Gave(s, H, r, size)
    BY <1>1, <2>5, <2>7, <2>8, <2>9, <2>10
  <2> QED
    BY <2>11
<1> QED
  BY <1>2, <1>3, <1>4

\* malloc(): a big block, in pages of its own.
LEMMA BigGiven ==
    ASSUME NEW s, NEW H, MemInv(s, H), UsedInv(s, H), NEW size \in Nat \ {0}, NEW r, r = MallocBig(s, size)
    PROVE  (r.block = NoMemory /\ r.state = s) \/ Gave(s, H, r, size)
<1>1. s \in Memory /\ PagesInv(s) /\ HandedInv(s, H) /\ FreeInv(s)
  BY DEF MemInv
<1>2. PICK c : c = (Rounded(size) % 2 ^ SizeBits) \div PGSIZE
  OBVIOUS
<1>4. PICK p : p = palloc_get_multiple(s, c)
  OBVIOUS
<1>5. CASE p = NoMemory
  <2>1. r = [state |-> s, block |-> NoMemory]
    BY <1>2, <1>4, <1>5 DEF MallocBig
  <2> QED
    BY <2>1
<1>6. CASE p # NoMemory
  <2>0. c \in Nat \ {0} /\ (Wraps(size) \/ size + ArenaSize <= PGSIZE * c)
    <3>1. c # 0
      BY <1>4, <1>6 DEF palloc_get_multiple
    <3> QED
      BY <1>2, <3>1, RoundUp
  <2>1. PICK t : t = NewArena(s, p, Big, c, c)
    OBVIOUS
  <2>2. PICK x : x = <<p, 0>>
    OBVIOUS
  <2>3. r.state = t /\ r.block = x
    <3>1. r = [state |-> t, block |-> x]
      BY <1>2, <1>4, <1>6, <2>1, <2>2 DEF MallocBig, arena_to_block
    <3> QED
      BY <3>1
  <2>4. PICK a : a = [desc |-> Big, free_cnt |-> c]
    OBVIOUS
  <2>5. PageCount(a) = c /\ a.desc = Big /\ a.free_cnt = c
    BY <2>4 DEF PageCount
  <2>6. t \in Memory /\ Adds(s, t, p, a) /\ t.free = s.free /\ a \in Arena
    <3>1. Big \in Descs \union {Big} /\ c \in Nat
      BY <2>0
    <3> QED
      BY <1>1, <1>4, <1>6, <2>0, <2>1, <2>4, <2>5, <3>1, ArenaMade
  <2>7. Lists(t) /\ Fills(s, t, p, a.desc)
    BY <1>1, <2>5, <2>6, Room DEF Lists, Fills, FreeInv
  <2>8. MemInv(t, H)
    BY <2>5, <2>6, <2>7, Filled
  <2>9. /\ p \in Nat /\ p \notin DOMAIN s.arenas /\ DOMAIN t.arenas = DOMAIN s.arenas \union {p}
        /\ t.arenas[p] = a
    BY <2>6 DEF Adds
  <2>10. x \in Block /\ x[1] = p /\ x[2] = 0
    BY <2>2, <2>9 DEF Block
  <2>11. \A h \in H : h.block # x
    BY <1>1, <2>9, <2>10 DEF HandedInv, Fits
  <2>12. PICK g : g = [block |-> x, size |-> size]
    OBVIOUS
  <2>13. g \in HandedOut /\ g.block = x /\ g.size = size
    BY <2>10, <2>12 DEF HandedOut
  <2>14. Fits(t, g)
    BY <2>0, <2>5, <2>9, <2>10, <2>13 DEF Fits
  <2>15. HandedInv(t, H \union {g})
    BY <2>8, <2>11, <2>13, <2>14 DEF HandedInv, MemInv
  <2>16. ShareInv(t, H \union {g})
    <3> SUFFICES ASSUME NEW q \in DOMAIN t.arenas, t.arenas[q].desc # Big
                 PROVE  /\ t.arenas[q].free_cnt = Cardinality(FreeIn(t, q))
                        /\ \A b \in Block : IsBlock(q, t.arenas[q].desc, b) =>
                              (b \in FreeIn(t, q) <=> \A h \in H \union {g} : h.block # b)
      BY DEF ShareInv
    <3>1. /\ t.arenas[q].free_cnt = Cardinality(FreeIn(t, q))
          /\ \A b \in Block : IsBlock(q, t.arenas[q].desc, b) =>
                (b \in FreeIn(t, q) <=> \A h \in H : h.block # b)
      BY <2>8 DEF MemInv, ShareInv
    <3>2. \A b \in Block : IsBlock(q, t.arenas[q].desc, b) => g.block # b
      BY <2>5, <2>9, <2>10, <2>13 DEF IsBlock
    <3> QED
      BY <3>1, <3>2
  <2>17. MemInv(t, H \union {g})
    BY <2>8, <2>15, <2>16 DEF MemInv
  <2>18. UsedInv(t, H \union {g})
    BY <2>9, <2>10, <2>13 DEF UsedInv
  <2>19. Gave(s, H, r, size)
    BY <2>3, <2>10, <2>11, <2>12, <2>17, <2>18 DEF Gave
  <2> QED
    BY <2>19
<1> QED
  BY <1>5, <1>6

\* malloc(): without memory it changes nothing, and otherwise the block is the caller's.
LEMMA Given ==
    ASSUME NEW s, NEW H, MemInv(s, H), UsedInv(s, H), NEW size \in Nat, NEW r, r = malloc(s, size)
    PROVE  (r.block = NoMemory /\ r.state = s) \/ Gave(s, H, r, size)
<1>1. PICK fit : fit = {d \in Descs : d >= size}
  OBVIOUS
<1>2. CASE size = 0
  <2>1. r = [state |-> s, block |-> NoMemory]
    BY <1>2 DEF malloc
  <2> QED
    BY <2>1
<1>3. CASE size # 0 /\ fit = {}
  <2>1. r = MallocBig(s, size)
    BY <1>1, <1>3 DEF malloc
  <2>2. size \in Nat \ {0}
    BY <1>3
  <2> QED
    BY <2>1, <2>2, BigGiven
<1>4. CASE size # 0 /\ fit # {}
  <2>1. PICK d : d = CHOOSE e \in fit : \A k \in fit : e <= k
    OBVIOUS
  <2>2. r = MallocSmall(s, d)
    BY <1>1, <1>4, <2>1 DEF malloc
  <2>3. fit \in SUBSET Nat
    BY <1>1, Room
  <2>4. \E e \in fit : \A k \in fit : e <= k
    BY <1>4, <2>3, LeastElement
  <2>5. d \in fit
    BY <2>1, <2>4
  <2>6. d \in Descs /\ size <= d /\ size \in Nat \ {0}
    BY <1>1, <1>4, <2>3, <2>5
  <2> QED
    BY <2>2, <2>6, SmallGiven
<1> QED
  BY <1>2, <1>3, <1>4

PutsBlock(s, t, p, d, x) == t = [s EXCEPT !.free[d] = <<x>> \o @, !.arenas[p].free_cnt = @ + 1]
SmallBlock(s, H, g, p, d) ==
    g \in H /\ p = g.block[1] /\ s.arenas[p].desc = d /\ d # Big
ArenaKept(s, t, p, d) ==
    p \in DOMAIN t.arenas /\ t.arenas[p].desc = d /\ d \in Descs /\ DOMAIN t.arenas = DOMAIN s.arenas

\* free(): the block goes to the front of its list.
LEMMA BlockPut ==
    ASSUME NEW s, NEW H, MemInv(s, H), NEW g, NEW p, NEW d, SmallBlock(s, H, g, p, d),
           NEW t, PutsBlock(s, t, p, d, g.block)
    PROVE  MemInv(t, H \ {g}) /\ ArenaKept(s, t, p, d)
<1>0. g \in H /\ p = g.block[1] /\ s.arenas[p].desc = d /\ d # Big
  BY DEF SmallBlock
<1>1. s \in Memory /\ PagesInv(s) /\ HandedInv(s, H) /\ FreeInv(s) /\ ShareInv(s, H)
  BY DEF MemInv
<1>2. p \in DOMAIN s.arenas /\ IsBlock(p, d, g.block)
  BY <1>0, <1>1 DEF HandedInv, Fits
<1>3. s.arenas[p] \in Arena /\ s.arenas[p].free_cnt \in Nat /\ p \in Nat /\ d \in Descs
  BY <1>0, <1>1, <1>2, ArenaTypes
<1>4. PICK x : x = g.block
  OBVIOUS
<1>5. x \in Block
  BY <1>0, <1>1, <1>4 DEF HandedInv, HandedOut
<1>6. ~ On(x, s.free[d])
  <2>1. x \notin FreeIn(s, p)
    BY <1>0, <1>1, <1>2, <1>4, <1>5 DEF ShareInv
  <2> QED
    BY <1>0, <1>4, <1>5, <2>1 DEF FreeIn
<1>7. s.free[d] \in Seq(Block) /\ Once(s.free[d])
  BY <1>1, <1>3 DEF Memory, FreeInv
<1>8. PICK list : list = <<x>> \o s.free[d]
  OBVIOUS
<1>9. list \in Seq(Block) /\ Once(list) /\ \A b : On(b, list) <=> On(b, s.free[d]) \/ b = x
  BY <1>5, <1>6, <1>7, <1>8, Pushed
<1>10. PICK n : n = s.arenas[p].free_cnt + 1
  OBVIOUS
<1>11. PICK A : A = [s.arenas EXCEPT ![p].free_cnt = n]
  OBVIOUS
<1>12. PICK D : D = DOMAIN s.arenas
  OBVIOUS
<1>13. D \subseteq Nat /\ s.arenas \in [D -> Arena]
  BY <1>1, <1>12, ArenaTable DEF Memory
<1>14. /\ A \in [D -> Arena] /\ A[p] = [desc |-> d, free_cnt |-> n] /\ \A q \in D : q # p => A[q] = s.arenas[q]
  <2>1. A = [s.arenas EXCEPT ![p] = [desc |-> d, free_cnt |-> n]]
    <3>1. [s.arenas[p] EXCEPT !.free_cnt = n] = [desc |-> d, free_cnt |-> n]
      BY <1>0, <1>3 DEF Arena
    <3> QED
      BY <1>11, <3>1
  <2>2. [desc |-> d, free_cnt |-> n] \in Arena
    BY <1>3, <1>10 DEF Arena
  <2> QED
    BY <1>2, <1>12, <1>13, <2>1, <2>2
<1>15. A \in ArenaTables /\ DOMAIN A = D
  BY <1>13, <1>14 DEF ArenaTables
<1>F. PICK F : F = [s.free EXCEPT ![d] = list]
  OBVIOUS
<1>G. F \in [Descs -> Seq(Block)] /\ F[d] = list /\ \A e \in Descs : e # d => F[e] = s.free[e]
  BY <1>1, <1>3, <1>9, <1>F DEF Memory
<1>16. t = [s EXCEPT !.free = F, !.arenas = A]
  BY <1>1, <1>4, <1>8, <1>10, <1>11, <1>F DEF PutsBlock, Memory
<1>17. /\ t.used = s.used /\ t.arenas = A /\ t.free = F
       /\ t.free[d] = list /\ \A e \in Descs : e # d => t.free[e] = s.free[e]
  <2>1. t.used = s.used /\ t.arenas = A /\ t.free = F
    BY <1>1, <1>16 DEF Memory
  <2> QED
    BY <1>G, <2>1
<1>18. t \in Memory
  BY <1>1, <1>G, <1>15, <1>16 DEF Memory
<1>19. Counts(s, t, p, s.arenas[p].free_cnt + 1)
  BY <1>0, <1>2, <1>10, <1>12, <1>14, <1>15, <1>17 DEF Counts
<1>20. Lists(t)
  BY <1>1, <1>3, <1>9, <1>17 DEF Lists, FreeInv
<1>21. Pushes(s, t, d, g.block)
  BY <1>4, <1>9, <1>17 DEF Pushes
<1>22. MemInv(t, H \ {g})
  <2>1. p \in DOMAIN s.arenas => s.arenas[p].desc = d
    BY <1>0
  <2> QED
    BY <1>0, <1>3, <1>18, <1>19, <1>20, <1>21, <2>1, Put
<1> QED
  BY <1>2, <1>3, <1>12, <1>14, <1>15, <1>17, <1>22 DEF ArenaKept

DropsArena(s, u, p, d) == u = FreeArena([s EXCEPT !.free[d] = WithoutArena(@, p)], p, 1)

\* free(): an arena with no block in use goes back to the pool.
LEMMA ArenaDropped ==
    ASSUME NEW s, NEW H, MemInv(s, H), NEW d \in Descs, NEW p \in DOMAIN s.arenas, s.arenas[p].desc = d,
           \A h \in H : h.block[1] # p, NEW u, DropsArena(s, u, p, d)
    PROVE  MemInv(u, H) /\ DOMAIN u.arenas = DOMAIN s.arenas \ {p}
<1>1. s \in Memory /\ PagesInv(s) /\ FreeInv(s) /\ d # Big
  BY Room DEF MemInv
<1>2. s.free[d] \in Seq(Block) /\ Once(s.free[d]) /\ s.free \in [Descs -> Seq(Block)]
  BY <1>1 DEF Memory, FreeInv
<1>3. PICK list : list = WithoutArena(s.free[d], p)
  OBVIOUS
<1>4. list \in Seq(Block) /\ Once(list) /\ \A b : On(b, list) <=> On(b, s.free[d]) /\ b[1] # p
  BY <1>2, <1>3, Sifted
<1>5. PICK F : F = [s.free EXCEPT ![d] = list]
  OBVIOUS
<1>6. F \in [Descs -> Seq(Block)] /\ F[d] = list /\ \A e \in Descs : e # d => F[e] = s.free[e]
  BY <1>2, <1>4, <1>5
<1>7. PICK m : m = [s EXCEPT !.free = F]
  OBVIOUS
<1>8. m.used = s.used /\ m.arenas = s.arenas /\ m.free = F
  BY <1>1, <1>7 DEF Memory
<1>9. m \in Memory
  BY <1>1, <1>6, <1>7 DEF Memory
<1>10. PagesInv(m)
  <2>1. \A q : PagesOf(m, q) = PagesOf(s, q)
    BY <1>8 DEF PagesOf
  <2> QED
    BY <1>1, <1>8, <2>1 DEF PagesInv
<1>11. PageCount(m.arenas[p]) = 1 /\ p \in DOMAIN m.arenas
  BY <1>1, <1>8 DEF PageCount
<1>12. u = FreeArena(m, p, 1)
  BY <1>3, <1>5, <1>7 DEF DropsArena
<1>13. u \in Memory /\ Drops(m, u, p) /\ u.free = F
  BY <1>8, <1>9, <1>10, <1>11, <1>12, ArenaGone
<1>14. Drops(s, u, p)
  BY <1>8, <1>13 DEF Drops, PagesOf
<1>15. Lists(u)
  BY <1>1, <1>4, <1>6, <1>13 DEF Lists, FreeInv
<1>16. Sifts(s, u, p)
  <2>1. ASSUME NEW e \in Descs, e # d, NEW b \in Block, On(b, s.free[e]) PROVE b[1] # p
    BY <1>1, <2>1 DEF FreeInv
  <2> QED
    BY <1>4, <1>6, <1>13, <2>1 DEF Sifts
<1>17. MemInv(u, H)
  BY <1>13, <1>14, <1>15, <1>16, Dropped
<1> QED
  BY <1>14, <1>17 DEF Drops

\* free(): the block is no longer the caller's, and what an arena without blocks in use
\* has goes back to the pool.
LEMMA FreedBlock ==
    ASSUME NEW s, NEW H, MemInv(s, H), NEW g \in H, NEW G, G = H \ {g},
           UsedInv(s, H), NEW u, u = free_block(s, g.block)
    PROVE  MemInv(u, G) /\ UsedInv(u, G)
<1>0. PICK p : p = g.block[1]
  OBVIOUS
<1>1. s \in Memory /\ PagesInv(s) /\ HandedInv(s, H) /\ FreeInv(s) /\ ShareInv(s, H)
  BY DEF MemInv
<1>2. Fits(s, g) /\ p \in DOMAIN s.arenas
  BY <1>0, <1>1 DEF HandedInv, Fits
<1>3. s.arenas[p] \in Arena /\ s.arenas[p].desc \in Descs \union {Big} /\ s.arenas[p].free_cnt \in Nat
  BY <1>1, <1>2, ArenaTypes
<1>4. PICK d : d = s.arenas[p].desc
  OBVIOUS
<1>5. \A q \in DOMAIN s.arenas : q # p => \E h \in G : h.block[1] = q
  BY <1>0 DEF UsedInv
<1>6. CASE d = Big
  <2>1. u = FreeArena(s, p, s.arenas[p].free_cnt)
    BY <1>0, <1>4, <1>6 DEF free_block, block_to_arena
  <2>2. PageCount(s.arenas[p]) = s.arenas[p].free_cnt
    BY <1>4, <1>6 DEF PageCount
  <2>3. u \in Memory /\ Drops(s, u, p) /\ u.free = s.free
    BY <1>1, <1>2, <2>1, <2>2, ArenaGone
  <2>4. ASSUME NEW h \in H, h.block[1] = p PROVE h = g
    <3>1. h.block[2] = 0 /\ g.block[2] = 0 /\ h.block \in Block /\ g.block \in Block
      BY <1>0, <1>1, <1>4, <1>6, <2>4 DEF HandedInv, HandedOut, Fits
    <3>2. h.block = g.block
      BY <1>0, <2>4, <3>1 DEF Block
    <3> QED
      BY <1>1, <3>2 DEF HandedInv
  <2>5. \A h \in G : h.block[1] # p
    BY <2>4
  <2>6. HandedInv(s, G)
    BY <1>1 DEF HandedInv
  <2>7. ShareInv(s, G)
    <3> SUFFICES ASSUME NEW q \in DOMAIN s.arenas, s.arenas[q].desc # Big
                 PROVE  /\ s.arenas[q].free_cnt = Cardinality(FreeIn(s, q))
                        /\ \A b \in Block : IsBlock(q, s.arenas[q].desc, b) =>
                              (b \in FreeIn(s, q) <=> \A h \in G : h.block # b)
      BY DEF ShareInv
    <3>1. /\ s.arenas[q].free_cnt = Cardinality(FreeIn(s, q))
          /\ \A b \in Block : IsBlock(q, s.arenas[q].desc, b) =>
                (b \in FreeIn(s, q) <=> \A h \in H : h.block # b)
      BY <1>1 DEF ShareInv
    <3>2. \A b \in Block : IsBlock(q, s.arenas[q].desc, b) => g.block # b
      BY <1>0, <1>4, <1>6 DEF IsBlock
    <3> QED
      BY <3>1, <3>2
  <2>8. MemInv(s, G)
    BY <1>1, <2>6, <2>7 DEF MemInv
  <2>9. Lists(u) /\ Sifts(s, u, p)
    <3>1. ASSUME NEW e \in Descs, NEW b \in Block, On(b, s.free[e]) PROVE b[1] # p
      <4>1. s.arenas[b[1]].desc = e
        BY <1>1, <3>1 DEF FreeInv
      <4>2. e # Big
        BY Room
      <4> QED
        BY <1>4, <1>6, <4>1, <4>2
    <3> QED
      BY <1>1, <2>3, <3>1 DEF Lists, Sifts, FreeInv
  <2>10. MemInv(u, G)
    BY <2>3, <2>5, <2>8, <2>9, Dropped
  <2>11. UsedInv(u, G)
    BY <1>5, <2>3 DEF UsedInv, Drops
  <2> QED
    BY <2>10, <2>11
<1>7. CASE d # Big
  <2>0. SmallBlock(s, H, g, p, d)
    BY <1>0, <1>4, <1>7 DEF SmallBlock
  <2>1. PICK t : PutsBlock(s, t, p, d, g.block)
    BY DEF PutsBlock
  <2>2. /\ MemInv(t, G) /\ p \in DOMAIN t.arenas /\ t.arenas[p].desc = d /\ d \in Descs
        /\ DOMAIN t.arenas = DOMAIN s.arenas
    <3>1. MemInv(t, H \ {g}) /\ ArenaKept(s, t, p, d)
      BY <2>0, <2>1, BlockPut
    <3> QED
      BY <3>1 DEF ArenaKept
  <2>3. PICK v : DropsArena(t, v, p, d)
    BY DEF DropsArena
  <2>4. u = IF t.arenas[p].free_cnt < blocks_per_arena(d) THEN t ELSE v
    <3> DEFINE P == block_to_arena(g.block)
               D == s.arenas[P].desc
               T == [s EXCEPT !.free[D] = <<g.block>> \o @, !.arenas[P].free_cnt = @ + 1]
               V == FreeArena([T EXCEPT !.free[D] = WithoutArena(@, P)], P, 1)
    <3>1. P = p /\ D = d
      BY <1>0, <1>4 DEF block_to_arena
    <3>2. D # Big
      BY <1>7, <3>1
    <3>3. u = IF T.arenas[P].free_cnt < blocks_per_arena(D) THEN T ELSE V
      BY <3>2, Zenon DEF free_block
    <3> HIDE DEF P, D
    <3>4. T = t
      BY <2>1, <3>1 DEF PutsBlock
    <3> HIDE DEF T
    <3>5. V = v
      BY <2>3, <3>1, <3>4 DEF DropsArena
    <3> HIDE DEF V
    <3> QED
      BY <3>1, <3>3, <3>4, <3>5
  <2>5. blocks_per_arena(d) \in Nat /\ t.arenas[p].free_cnt \in Nat
    <3>1. t \in Memory
      BY <2>2 DEF MemInv
    <3> QED
      BY <2>2, <3>1, Room, ArenaTypes
  <2>6. CASE t.arenas[p].free_cnt < blocks_per_arena(d)
    <3>1. u = t
      BY <2>4, <2>6
    <3>2. \E h \in G : h.block[1] = p
      BY <2>2, <2>6, AllFree
    <3>3. UsedInv(t, G)
      BY <1>5, <2>2, <3>2 DEF UsedInv
    <3> QED
      BY <2>2, <3>1, <3>3
  <2>7. CASE t.arenas[p].free_cnt >= blocks_per_arena(d)
    <3>1. u = v
      BY <2>4, <2>5, <2>7
    <3>2. \A h \in G : h.block[1] # p
      BY <2>2, <2>7, AllFree
    <3>3. MemInv(v, G) /\ DOMAIN v.arenas = DOMAIN t.arenas \ {p}
      BY <2>2, <2>3, <3>2, ArenaDropped
    <3>4. UsedInv(v, G)
      BY <1>5, <2>2, <3>3 DEF UsedInv
    <3> QED
      BY <3>1, <3>3, <3>4
  <2> QED
    BY <2>5, <2>6, <2>7
<1> QED
  BY <1>6, <1>7

-----------------------------------------------------------------------------
(* The calls.                                                              *)

\* At first no page is in use.
LEMMA MallocInvInit == MallocInit => MallocInv
<1> SUFFICES ASSUME MallocInit PROVE MallocInv
  OBVIOUS
<1>1. PICK s : s = State
  OBVIOUS
<1>2. used_map = {} /\ arenas = << >> /\ free_list = [d \in Descs |-> << >>] /\ handed = {}
  BY DEF MallocInit, malloc_init
<1>3. s.used = {} /\ s.arenas = << >> /\ s.free = [d \in Descs |-> << >>]
  BY <1>1, <1>2 DEF State
<1>4. DOMAIN s.arenas = {}
  BY <1>3
<1>5. \A d \in Descs : s.free[d] = << >> /\ DOMAIN s.free[d] = {}
  BY <1>3
<1>6. s \in Memory
  <2>1. arenas \in ArenaTables
    <3>1. << >> \in Seq(Arena) /\ DOMAIN (<< >>) = {}
      OBVIOUS
    <3>2. << >> \in [{} -> Arena] /\ {} \in SUBSET Nat
      BY <3>1
    <3> QED
      BY <1>2, <3>2 DEF ArenaTables
  <2>2. free_list \in [Descs -> Seq(Block)]
    BY <1>2
  <2> QED
    BY <1>1, <1>2, <2>1, <2>2 DEF State, Memory
<1>7. PagesInv(s)
  BY <1>3, <1>4 DEF PagesInv
<1>8. HandedInv(s, {}) /\ ShareInv(s, {}) /\ UsedInv(s, {})
  BY <1>4 DEF HandedInv, ShareInv, UsedInv
<1>9. FreeInv(s)
  BY <1>5 DEF FreeInv, Once, On
<1> QED
  BY <1>1, <1>2, <1>6, <1>7, <1>8, <1>9 DEF MallocInv, MemInv

\* The variables after a call.
LEMMA Became ==
    ASSUME NEW m, m \in Memory, Become(m)
    PROVE  State' = m
BY DEF Memory, Become, State

\* malloc() and calloc().
LEMMA InvMalloc ==
    ASSUME MallocInv, NEW size \in Nat, Give(malloc(State, size), size)
    PROVE  MallocInv'
<1>1. PICK s, H : s = State /\ H = handed
  OBVIOUS
<1>2. MemInv(s, H) /\ UsedInv(s, H)
  BY <1>1 DEF MallocInv
<1>3. PICK r : r = malloc(s, size)
  OBVIOUS
<1>4. Become(r.state) /\ handed' = H \union Hand(r, size)
  BY <1>1, <1>3 DEF Give
<1>5. (r.block = NoMemory /\ r.state = s) \/ Gave(s, H, r, size)
  BY <1>2, <1>3, Given
<1>6. CASE r.block = NoMemory /\ r.state = s
  <2>1. handed' = H
    BY <1>4, <1>6 DEF Hand
  <2>2. State' = s
    BY <1>2, <1>4, <1>6, Became DEF MemInv
  <2> QED
    BY <1>2, <2>1, <2>2 DEF MallocInv
<1>7. CASE Gave(s, H, r, size)
  <2>1. PICK g : g = [block |-> r.block, size |-> size]
    OBVIOUS
  <2>2. r.block \in Block /\ MemInv(r.state, H \union {g}) /\ UsedInv(r.state, H \union {g})
    BY <1>7, <2>1 DEF Gave
  <2>3. handed' = H \union {g}
    BY <1>4, <2>1, <2>2, MallocAssumption DEF Hand, Block
  <2>4. State' = r.state
    BY <1>4, <2>2, Became DEF MemInv
  <2> QED
    BY <2>2, <2>3, <2>4 DEF MallocInv
<1> QED
  BY <1>5, <1>6, <1>7

\* free().
LEMMA InvFree ==
    ASSUME MallocInv, NEW g \in handed, DoFree(g)
    PROVE  MallocInv'
<1>1. PICK s, H : s = State /\ H = handed
  OBVIOUS
<1>2. MemInv(s, H) /\ UsedInv(s, H)
  BY <1>1 DEF MallocInv
<1>3. PICK u : u = free_block(s, g.block)
  OBVIOUS
<1>4. PICK G : G = H \ {g}
  OBVIOUS
<1>5. Become(u) /\ handed' = G
  BY <1>1, <1>3, <1>4 DEF DoFree
<1>8. MemInv(u, G) /\ UsedInv(u, G)
  BY <1>1, <1>2, <1>3, <1>4, FreedBlock
<1>9. State' = u
  BY <1>5, <1>8, Became DEF MemInv
<1> QED
  BY <1>5, <1>8, <1>9 DEF MallocInv

\* realloc(): the new block is the caller's before the old one is given up.
LEMMA InvRealloc ==
    ASSUME MallocInv, NEW g \in handed, NEW size \in Nat, realloc(g, size)
    PROVE  MallocInv'
<1>1. PICK s, H : s = State /\ H = handed
  OBVIOUS
<1>2. MemInv(s, H) /\ UsedInv(s, H)
  BY <1>1 DEF MallocInv
<1>3. PICK r : r = malloc(s, size)
  OBVIOUS
<1>4. CASE size = 0
  <2>1. DoFree(g)
    BY <1>4 DEF realloc
  <2> QED
    BY <2>1, InvFree
<1>5. CASE size # 0 /\ r.block = NoMemory
  <2>1. UNCHANGED mallocVars
    BY <1>1, <1>3, <1>5 DEF realloc
  <2>2. State' = s /\ handed' = H
    BY <1>1, <2>1 DEF mallocVars, State
  <2> QED
    BY <1>2, <2>2 DEF MallocInv
<1>6. CASE size # 0 /\ r.block # NoMemory
  <2>1. Gave(s, H, r, size)
    BY <1>2, <1>3, <1>6, Given
  <2>2. PICK m : m = r.state
    OBVIOUS
  <2>3. PICK n : n = [block |-> r.block, size |-> size]
    OBVIOUS
  <2>4. PICK N : N = H \union {n}
    OBVIOUS
  <2>5. (\A h \in H : h.block # r.block) /\ MemInv(m, N) /\ UsedInv(m, N)
    BY <2>1, <2>2, <2>3, <2>4 DEF Gave
  <2>6. PICK u : u = free_block(m, g.block)
    OBVIOUS
  <2>7. Become(u) /\ handed' = (H \ {g}) \union {n}
    BY <1>1, <1>3, <1>6, <2>2, <2>3, <2>6 DEF realloc, Hand
  <2>8. PICK G : G = N \ {g}
    OBVIOUS
  <2>9. handed' = G
    <3>1. g # n
      BY <1>1, <2>3, <2>5
    <3> QED
      BY <2>4, <2>7, <2>8, <3>1
  <2>10. g \in N
    BY <1>1, <2>4
  <2>13. MemInv(u, G) /\ UsedInv(u, G)
    BY <2>5, <2>6, <2>8, <2>10, FreedBlock
  <2>14. State' = u
    BY <2>7, <2>13, Became DEF MemInv
  <2> QED
    BY <2>9, <2>13, <2>14 DEF MallocInv
<1> QED
  BY <1>4, <1>5, <1>6

\* Every call keeps the invariant.
LEMMA MallocInvNext == MallocInv /\ [MallocNext]_mallocVars => MallocInv'
<1> SUFFICES ASSUME MallocInv, [MallocNext]_mallocVars PROVE MallocInv'
  OBVIOUS
<1>0. Requests \subseteq Nat
  BY MallocAssumption
<1>1. ASSUME NEW size \in Requests, DoMalloc(size) PROVE MallocInv'
  BY <1>0, <1>1, InvMalloc DEF DoMalloc
<1>2. ASSUME UNCHANGED mallocVars PROVE MallocInv'
  <2>1. State' = State /\ handed' = handed
    BY <1>2 DEF mallocVars, State
  <2> QED
    BY <2>1 DEF MallocInv
<1>3. ASSUME NEW n \in Requests, NEW m \in Requests, calloc(n, m) PROVE MallocInv'
  <2>1. PICK size : size = (n * m) % (2 ^ SizeBits)
    OBVIOUS
  <2>2. size \in Nat
    <3>1. PICK w : w = 2 ^ SizeBits
      OBVIOUS
    <3>2. w \in Nat \ {0}
      BY <3>1, MallocAssumption
    <3>3. n * m \in Nat
      BY <1>0
    <3>4. (n * m) % w \in Nat
      BY <3>2, <3>3
    <3> QED
      BY <2>1, <3>1, <3>4
  <2>3. UNCHANGED mallocVars \/ Give(malloc(State, size), size)
    BY <1>3, <2>1 DEF calloc
  <2> QED
    BY <1>2, <2>2, <2>3, InvMalloc
<1>4. ASSUME NEW h \in handed, DoFree(h) PROVE MallocInv'
  BY <1>4, InvFree
<1>5. ASSUME NEW h \in handed, NEW size \in Requests, realloc(h, size) PROVE MallocInv'
  BY <1>0, <1>5, InvRealloc
<1> QED
  BY <1>1, <1>2, <1>3, <1>4, <1>5 DEF MallocNext

\* Every state of the allocator satisfies the invariant.
THEOREM MallocInvariant == MallocSpec => []MallocInv
BY MallocInvInit, MallocInvNext, PTL DEF MallocSpec

-----------------------------------------------------------------------------
(* Bytes.                                                                  *)

\* What a product keeps of an order.
LEMMA Monotone ==
    ASSUME NEW k \in Nat, NEW a \in Nat, NEW b \in Nat, a <= b
    PROVE  k * a <= k * b /\ k * a \in Nat /\ k * b \in Nat
<1>1. PICK e \in Nat : b = a + e
  <2>1. b - a \in Nat /\ b = a + (b - a)
    OBVIOUS
  <2> QED
    BY <2>1
<1>2. k * b = k * a + k * e
  BY <1>1
<1>3. k * a \in Nat /\ k * e \in Nat /\ k * b \in Nat
  BY <1>1
<1> QED
  BY <1>2, <1>3

\* The page of a byte.
LEMMA PageOfByte ==
    ASSUME NEW p \in Nat, NEW c \in Nat, NEW x \in Nat, PGSIZE * p <= x, x < PGSIZE * (p + c)
    PROVE  x \div PGSIZE \in p .. p + c - 1
<1>1. PGSIZE \in Nat \ {0}
  BY MallocAssumption
<1>2. PICK q : q = x \div PGSIZE
  OBVIOUS
<1>3. q \in Nat /\ PGSIZE * q <= x /\ x < PGSIZE * q + PGSIZE
  BY <1>1, <1>2, Division
<1>4. PGSIZE * (q + 1) = PGSIZE * q + PGSIZE
  BY <1>1, <1>3
<1>5. PGSIZE * q \in Nat /\ PGSIZE * p \in Nat /\ PGSIZE * (p + c) \in Nat /\ PGSIZE * (q + 1) \in Nat
  <2>1. p + c \in Nat /\ q + 1 \in Nat
    BY <1>3
  <2> QED
    BY <1>1, <1>3, <2>1, Monotone
<1>6. q + 1 <= p => PGSIZE * (q + 1) <= PGSIZE * p
  BY <1>1, <1>3, Monotone
<1>7. p + c <= q => PGSIZE * (p + c) <= PGSIZE * q
  BY <1>1, <1>3, Monotone
<1>8. ~ (q + 1 <= p) /\ ~ (p + c <= q)
  BY <1>3, <1>4, <1>5, <1>6, <1>7
<1> QED
  BY <1>2, <1>3, <1>8

\* How much of a block is its caller's.
LEMMA UsableRoom ==
    ASSUME MallocInv, NEW h \in handed, NEW a, a = arenas[h.block[1]]
    PROVE  /\ Usable(h) \in Nat /\ Usable(h) <= h.size
           /\ a.desc = Big => Usable(h) + ArenaSize <= PGSIZE * a.free_cnt
           /\ a.desc # Big => Usable(h) <= a.desc
           /\ Wraps(h.size) \/ h.size <= block_size(State, h.block)
<1>1. PICK s, p : s = State /\ p = h.block[1]
  OBVIOUS
<1>2. s.arenas = arenas
  BY <1>1 DEF State
<1>3. s \in Memory /\ PagesInv(s) /\ HandedInv(s, handed)
  BY <1>1 DEF MallocInv, MemInv
<1>4. Fits(s, h) /\ h.size \in Nat \ {0} /\ p \in DOMAIN arenas
  BY <1>1, <1>2, <1>3 DEF HandedInv, HandedOut, Fits
<1>5. a.desc \in Descs \union {Big} /\ a.free_cnt \in Nat
  BY <1>1, <1>2, <1>3, <1>4, ArenaTypes
<1>6. PICK z : z = block_size(State, h.block)
  OBVIOUS
<1>7. z = IF a.desc # Big THEN a.desc ELSE PGSIZE * a.free_cnt - ArenaSize
  BY <1>1, <1>2, <1>6 DEF block_size, block_to_arena
<1>8. Usable(h) = IF h.size <= z THEN h.size ELSE z
  BY <1>6 DEF Usable
<1>9. CASE a.desc # Big
  <2>1. a.desc \in Nat /\ h.size <= a.desc
    BY <1>1, <1>2, <1>4, <1>5, <1>9, Room DEF Fits
  <2> QED
    BY <1>4, <1>6, <1>7, <1>8, <1>9, <2>1
<1>10. CASE a.desc = Big
  <2>1. PICK c, n : c = a.free_cnt /\ n = PGSIZE * c
    OBVIOUS
  <2>2. c \in Nat \ {0}
    BY <1>1, <1>2, <1>3, <1>4, <1>5, <1>10, <2>1 DEF PagesInv, PageCount
  <2>3. PGSIZE \in Nat /\ ArenaSize \in Nat /\ ArenaSize <= PGSIZE
    BY MallocAssumption
  <2>4. n \in Nat /\ PGSIZE <= n
    <3>1. PGSIZE * 1 <= PGSIZE * c /\ PGSIZE * c \in Nat
      BY <2>2, <2>3, Monotone
    <3> QED
      BY <2>1, <2>3, <3>1
  <2>5. z = n - ArenaSize /\ z \in Nat
    BY <1>7, <1>10, <2>1, <2>3, <2>4
  <2>6. Wraps(h.size) \/ h.size + ArenaSize <= n
    BY <1>1, <1>2, <1>4, <1>10, <2>1 DEF Fits
  <2> QED
    BY <1>4, <1>6, <1>8, <1>10, <2>1, <2>3, <2>4, <2>5, <2>6
<1> QED
  BY <1>9, <1>10

\* The bytes of a block lie in the pages of its arena.
LEMMA Extent ==
    ASSUME MallocInv, NEW h \in handed
    PROVE  /\ h.block[1] \in DOMAIN arenas /\ Start(h.block) \in Nat
           /\ PGSIZE * h.block[1] <= Start(h.block)
           /\ Start(h.block) + Usable(h) <= PGSIZE * (h.block[1] + PageCount(arenas[h.block[1]]))
<1>1. PICK s : s = State
  OBVIOUS
<1>2. s.arenas = arenas /\ s.used = used_map /\ s.free = free_list
  BY <1>1 DEF State
<1>3. s \in Memory /\ PagesInv(s) /\ HandedInv(s, handed)
  BY <1>1 DEF MallocInv, MemInv
<1>4. PICK p, i : p = h.block[1] /\ i = h.block[2]
  OBVIOUS
<1>5. Fits(s, h) /\ h \in HandedOut
  BY <1>3 DEF HandedInv
<1>6. p \in DOMAIN arenas /\ p \in Nat /\ i \in Nat
  BY <1>2, <1>3, <1>4, <1>5, ArenaTypes DEF Fits, HandedOut, Block
<1>7. PICK a : a = arenas[p]
  OBVIOUS
<1>8. a.desc \in Descs \union {Big} /\ a.free_cnt \in Nat
  BY <1>2, <1>3, <1>6, <1>7, ArenaTypes
<1>13. /\ Usable(h) \in Nat
       /\ a.desc = Big => Usable(h) + ArenaSize <= PGSIZE * a.free_cnt
       /\ a.desc # Big => Usable(h) <= a.desc
  BY <1>4, <1>7, UsableRoom
<1>9. PGSIZE \in Nat /\ ArenaSize \in Nat
  BY MallocAssumption
<1>10. PGSIZE * p \in Nat /\ p * PGSIZE = PGSIZE * p
  BY <1>6, <1>9
<1>11. CASE a.desc = Big
  <2>1. h.block[2] = 0 /\ Usable(h) + ArenaSize <= PGSIZE * a.free_cnt /\ PageCount(a) = a.free_cnt
    BY <1>2, <1>4, <1>5, <1>7, <1>11, <1>13 DEF Fits, PageCount
  <2>2. Start(h.block) = PGSIZE * p + ArenaSize
    BY <1>4, <1>7, <1>9, <1>10, <1>11, <2>1 DEF Start
  <2>3. PGSIZE * (p + a.free_cnt) = PGSIZE * p + PGSIZE * a.free_cnt /\ PGSIZE * a.free_cnt \in Nat
    BY <1>6, <1>8, <1>9
  <2> QED
    BY <1>4, <1>6, <1>7, <1>9, <1>10, <1>13, <2>1, <2>2, <2>3
<1>12. CASE a.desc # Big
  <2>1. PICK d \in Descs : d = a.desc
    BY <1>8, <1>12
  <2>2. PICK n : n = blocks_per_arena(d)
    OBVIOUS
  <2>3. d \in Nat \ {0} /\ n \in Nat \ {0} /\ ArenaSize + d * n <= PGSIZE
    BY <2>2, Room
  <2>4. i \in 0 .. n - 1 /\ Usable(h) <= d /\ PageCount(a) = 1
    BY <1>2, <1>4, <1>5, <1>7, <1>12, <1>13, <2>1, <2>2 DEF Fits, IsBlock, PageCount
  <2>5. d * (i + 1) <= d * n /\ d * n \in Nat
    BY <1>6, <2>3, <2>4, Monotone
  <2>6. d * (i + 1) = d * i + d /\ d * i \in Nat /\ i * d = d * i
    BY <1>6, <2>3
  <2>7. Start(h.block) = PGSIZE * p + ArenaSize + d * i
    BY <1>4, <1>7, <1>10, <1>12, <2>1, <2>6 DEF Start
  <2>8. PGSIZE * (p + 1) = PGSIZE * p + PGSIZE
    BY <1>6, <1>9
  <2> QED
    BY <1>4, <1>6, <1>7, <1>9, <1>10, <1>13, <2>3, <2>4, <2>5, <2>6, <2>7, <2>8
<1> QED
  BY <1>11, <1>12

\* The bytes of two callers are apart.
LEMMA Apart ==
    ASSUME MallocInv, NEW g \in handed, NEW h \in handed, g # h, NEW x, x \in Bytes(g), x \in Bytes(h)
    PROVE  FALSE
<1>1. PICK s : s = State
  OBVIOUS
<1>2. s.arenas = arenas /\ s.used = used_map /\ s.free = free_list
  BY <1>1 DEF State
<1>3. s \in Memory /\ PagesInv(s) /\ HandedInv(s, handed)
  BY <1>1 DEF MallocInv, MemInv
<1>4. \A k \in handed : Usable(k) \in Nat /\ k.block \in Block /\ Fits(s, k)
  BY <1>3, UsableRoom DEF HandedInv, HandedOut
<1>5. ASSUME NEW k \in handed, x \in Bytes(k) PROVE x \in Nat /\ x \div PGSIZE \in PagesOf(s, k.block[1])
  <2>1. PICK p, c : p = k.block[1] /\ c = PageCount(arenas[k.block[1]])
    OBVIOUS
  <2>2. /\ p \in DOMAIN arenas /\ Start(k.block) \in Nat
        /\ PGSIZE * p <= Start(k.block) /\ Start(k.block) + Usable(k) <= PGSIZE * (p + c)
    BY <2>1, Extent
  <2>3. p \in Nat /\ c \in Nat
    BY <1>2, <1>3, <2>1, <2>2, ArenaInUse
  <2>4. x \in Nat /\ Start(k.block) <= x /\ x < Start(k.block) + Usable(k)
    BY <1>4, <1>5, <2>2 DEF Bytes
  <2>5. PGSIZE * p \in Nat /\ PGSIZE * (p + c) \in Nat
    BY <2>3, MallocAssumption
  <2>6. PGSIZE * p <= x /\ x < PGSIZE * (p + c)
    BY <1>4, <2>2, <2>4, <2>5
  <2>7. x \div PGSIZE \in p .. p + c - 1
    BY <2>3, <2>4, <2>6, PageOfByte
  <2> QED
    BY <1>2, <2>1, <2>4, <2>7 DEF PagesOf
<1>6. x \in Nat /\ x \div PGSIZE \in PagesOf(s, g.block[1]) /\ x \div PGSIZE \in PagesOf(s, h.block[1])
  BY <1>5
<1>7. PICK p : p = g.block[1]
  OBVIOUS
<1>8. p \in DOMAIN s.arenas /\ h.block[1] \in DOMAIN s.arenas
  BY <1>4, <1>7 DEF Fits
<1>9. p = h.block[1]
  BY <1>3, <1>6, <1>7, <1>8 DEF PagesInv
<1>10. PICK i, j : i = g.block[2] /\ j = h.block[2]
  OBVIOUS
<1>11. i \in Nat /\ j \in Nat /\ p \in Nat /\ g.block = <<p, i>> /\ h.block = <<p, j>>
  <2>1. \A b \in Block : b[1] \in Nat /\ b[2] \in Nat /\ b = <<b[1], b[2]>>
    BY DEF Block
  <2>2. g.block \in Block /\ h.block \in Block
    BY <1>4
  <2> QED
    BY <1>7, <1>9, <1>10, <2>1, <2>2
<1>12. i # j
  BY <1>3, <1>11 DEF HandedInv
<1>13. s.arenas[p].desc # Big
  <2>1. s.arenas[p].desc = Big => i = 0
    BY <1>4, <1>7, <1>10 DEF Fits
  <2>2. s.arenas[p].desc = Big => j = 0
    BY <1>4, <1>9, <1>10 DEF Fits
  <2> QED
    BY <1>12, <2>1, <2>2
<1>14. PICK d \in Descs : d = arenas[p].desc
  BY <1>2, <1>3, <1>8, <1>13, ArenaTypes
<1>15. d \in Nat \ {0} /\ d # Big
  BY Room
<1>16. Usable(g) <= d /\ Usable(h) <= d /\ Usable(g) \in Nat /\ Usable(h) \in Nat
  BY <1>2, <1>4, <1>7, <1>9, <1>13, <1>14, UsableRoom
<1>17. PICK z : z = PGSIZE * p + ArenaSize
  OBVIOUS
<1>18. z \in Nat
  BY <1>11, <1>17, MallocAssumption
<1>19. d * i \in Nat /\ d * j \in Nat /\ i * d = d * i /\ j * d = d * j
  BY <1>11, <1>15
<1>20. Start(g.block) = z + d * i /\ Start(h.block) = z + d * j
  <2>1. p * PGSIZE = PGSIZE * p
    BY <1>11, MallocAssumption
  <2> QED
    BY <1>7, <1>9, <1>10, <1>14, <1>15, <1>17, <1>19, <2>1 DEF Start
<1>21. z + d * i <= x /\ x < z + d * i + d /\ z + d * j <= x /\ x < z + d * j + d
  BY <1>6, <1>15, <1>16, <1>18, <1>19, <1>20 DEF Bytes
<1>22. d * (i + 1) = d * i + d /\ d * (j + 1) = d * j + d
  BY <1>11, <1>15
<1>23. i + 1 <= j => d * (i + 1) <= d * j
  BY <1>11, <1>15, Monotone
<1>24. j + 1 <= i => d * (j + 1) <= d * i
  BY <1>11, <1>15, Monotone
<1>25. i + 1 <= j \/ j + 1 <= i
  BY <1>11, <1>12
<1> QED
  BY <1>6, <1>15, <1>18, <1>19, <1>21, <1>22, <1>23, <1>24, <1>25

\* A block is on a free list.
LEMMA OnFreeLists ==
    ASSUME MallocInv, NEW s, s = State, NEW b
    PROVE  b \in OnFree <=> b \in Block /\ \E d \in Descs : On(b, s.free[d])
<1>1. s.free = free_list /\ free_list \in [Descs -> Seq(Block)]
  BY DEF MallocInv, MemInv, Memory, State
<1>2. b \in OnFree <=> \E d \in Descs : \E i \in DOMAIN free_list[d] : free_list[d][i] = b
  BY DEF OnFree
<1>3. \A d \in Descs : \A i \in DOMAIN free_list[d] : free_list[d][i] \in Block
  <2> SUFFICES ASSUME NEW d \in Descs, NEW i \in DOMAIN free_list[d] PROVE free_list[d][i] \in Block
    OBVIOUS
  <2>1. PICK list \in Seq(Block) : list = free_list[d]
    BY <1>1
  <2> QED
    BY <2>1
<1> QED
  BY <1>1, <1>2, <1>3 DEF On

\* The invariant says what BlocksExact does.
LEMMA BlocksKnown == MallocInv => BlocksExact
<1> SUFFICES ASSUME MallocInv PROVE BlocksExact
  OBVIOUS
<1>1. PICK s : s = State
  OBVIOUS
<1>2. s.arenas = arenas /\ s.used = used_map /\ s.free = free_list
  BY <1>1 DEF State
<1>3. /\ s \in Memory /\ PagesInv(s) /\ HandedInv(s, handed) /\ FreeInv(s) /\ ShareInv(s, handed)
      /\ UsedInv(s, handed)
  BY <1>1 DEF MallocInv, MemInv
<1>4. \A b : b \in OnFree <=> b \in Block /\ \E d \in Descs : On(b, s.free[d])
  BY <1>1, OnFreeLists
<1>5. \A b \in OnFree : /\ b \in Block /\ b[1] \in DOMAIN arenas /\ arenas[b[1]].desc \in Descs
                        /\ On(b, s.free[arenas[b[1]].desc]) /\ IsBlock(b[1], arenas[b[1]].desc, b)
  BY <1>2, <1>3, <1>4 DEF FreeInv
<1>6. \A h \in handed : /\ Fits(s, h) /\ h.block \in Block /\ Usable(h) \in Nat
                        /\ h.block[1] \in DOMAIN arenas
  BY <1>2, <1>3, UsableRoom DEF HandedInv, HandedOut, Fits
<1>7. \A h \in handed : block_to_arena(h.block) \in DOMAIN arenas
  BY <1>6 DEF block_to_arena
<1>8. ASSUME NEW h \in handed, NEW x \in Bytes(h) PROVE x \div PGSIZE \in used_map
  <2>1. PICK p, c : p = h.block[1] /\ c = PageCount(arenas[h.block[1]])
    OBVIOUS
  <2>2. /\ p \in DOMAIN arenas /\ Start(h.block) \in Nat
        /\ PGSIZE * p <= Start(h.block) /\ Start(h.block) + Usable(h) <= PGSIZE * (p + c)
    BY <2>1, Extent
  <2>3. p \in Nat /\ c \in Nat
    BY <1>2, <1>3, <2>1, <2>2, ArenaInUse
  <2>4. x \in Nat /\ Start(h.block) <= x /\ x < Start(h.block) + Usable(h)
    BY <1>6, <1>8, <2>2 DEF Bytes
  <2>5. PGSIZE * p \in Nat /\ PGSIZE * (p + c) \in Nat
    BY <2>3, MallocAssumption
  <2>6. PGSIZE * p <= x /\ x < PGSIZE * (p + c)
    BY <1>6, <2>2, <2>4, <2>5
  <2>7. PICK q : q = x \div PGSIZE
    OBVIOUS
  <2>8. q \in p .. p + c - 1
    BY <2>3, <2>4, <2>6, <2>7, PageOfByte
  <2>9. q \in Nat /\ q \in PagesOf(s, p)
    BY <1>2, <2>1, <2>3, <2>8 DEF PagesOf
  <2>10. q \in s.used
    BY <1>2, <1>3, <2>2, <2>9 DEF PagesInv
  <2> QED
    BY <1>2, <2>7, <2>10
<1>9. \A g, h \in handed : g # h => Bytes(g) \intersect Bytes(h) = {}
  BY Apart
<1>10. ASSUME NEW h \in handed PROVE (h.size <= block_size(State, h.block) \/ Wraps(h.size)) /\ h.block \notin OnFree
  <2>1. PICK p, a : p = h.block[1] /\ a = s.arenas[p]
    OBVIOUS
  <2>2. p \in DOMAIN s.arenas /\ a.desc \in Descs \union {Big} /\ a.free_cnt \in Nat
    BY <1>2, <1>3, <1>6, <2>1, ArenaTypes
  <2>5. h.size <= block_size(State, h.block) \/ Wraps(h.size)
    BY UsableRoom
  <2>6. ASSUME h.block \in OnFree PROVE FALSE
    <3>1. a.desc \in Descs /\ On(h.block, s.free[a.desc]) /\ IsBlock(p, a.desc, h.block)
      BY <1>2, <1>5, <2>1, <2>6
    <3>2. a.desc # Big /\ h.block \in FreeIn(s, p)
      BY <1>6, <2>1, <3>1, Room DEF FreeIn
    <3>3. PICK x \in Block : x = h.block
      BY <1>6
    <3>4. x \in FreeIn(s, p) <=> \A k \in handed : k.block # x
      BY <1>3, <2>1, <2>2, <3>1, <3>2, <3>3 DEF ShareInv
    <3> QED
      BY <3>2, <3>3, <3>4
  <2> QED
    BY <2>5, <2>6
<1>11. \A d \in Descs : \A i, j \in DOMAIN free_list[d] : free_list[d][i] = free_list[d][j] => i = j
  BY <1>2, <1>3 DEF FreeInv, Once
<1>12. ASSUME NEW b \in OnFree
       PROVE  b \in UNION {{<<p, i>> : i \in 0 .. blocks_per_arena(arenas[p].desc) - 1} :
                             p \in {q \in DOMAIN arenas : arenas[q].desc # Big}}
  <2>1. PICK p, i : p = b[1] /\ i = b[2]
    OBVIOUS
  <2>2. b = <<p, i>> /\ p \in DOMAIN arenas /\ arenas[p].desc \in Descs
        /\ i \in 0 .. blocks_per_arena(arenas[p].desc) - 1
    BY <1>5, <2>1 DEF Block, IsBlock
  <2>3. arenas[p].desc # Big
    BY <2>2, Room
  <2>4. p \in {q \in DOMAIN arenas : arenas[q].desc # Big}
    BY <2>2, <2>3
  <2>5. b \in {<<p, k>> : k \in 0 .. blocks_per_arena(arenas[p].desc) - 1}
    BY <2>2
  <2> QED
    BY <2>4, <2>5
<1>13. \A p \in DOMAIN arenas : \E h \in handed : h.block[1] = p
  BY <1>2, <1>3 DEF UsedInv
<1>14. ASSUME NEW p \in DOMAIN arenas, arenas[p].desc # Big
       PROVE  arenas[p].free_cnt = Cardinality({b \in OnFree : b[1] = p})
  <2>1. PICK d \in Descs : d = s.arenas[p].desc
    BY <1>2, <1>3, <1>14, ArenaTypes
  <2>2. \A b : b \in FreeIn(s, p) <=> b \in OnFree /\ b[1] = p
    BY <1>2, <1>4, <1>5, <2>1 DEF FreeIn
  <2>3. FreeIn(s, p) = {b \in OnFree : b[1] = p}
    BY <2>2
  <2> QED
    BY <1>2, <1>3, <1>14, <2>3 DEF ShareInv
<1>15. used_map = UNION {p .. p + (IF arenas[p].desc = Big THEN arenas[p].free_cnt ELSE 1) - 1 :
                           p \in DOMAIN arenas}
  <2>1. \A p \in DOMAIN arenas :
           p .. p + (IF arenas[p].desc = Big THEN arenas[p].free_cnt ELSE 1) - 1 = PagesOf(s, p)
    BY <1>2 DEF PagesOf, PageCount
  <2>2. \A x : x \in used_map <=> \E p \in DOMAIN arenas : x \in PagesOf(s, p)
    <3>1. used_map \subseteq Nat
      BY <1>2, <1>3 DEF Memory
    <3>2. \A p \in DOMAIN arenas : \A x \in PagesOf(s, p) : x \in Nat
      <4> SUFFICES ASSUME NEW p \in DOMAIN arenas, NEW x \in PagesOf(s, p) PROVE x \in Nat
        OBVIOUS
      <4>1. p \in Nat /\ PageCount(s.arenas[p]) \in Nat
        BY <1>2, <1>3, ArenaInUse
      <4> QED
        BY <4>1 DEF PagesOf
    <3> QED
      BY <1>2, <1>3, <3>1, <3>2 DEF PagesInv
  <2>3. PICK U : U = UNION {PagesOf(s, p) : p \in DOMAIN arenas}
    OBVIOUS
  <2>4. used_map = U
    BY <2>2, <2>3
  <2>5. U = UNION {p .. p + (IF arenas[p].desc = Big THEN arenas[p].free_cnt ELSE 1) - 1 : p \in DOMAIN arenas}
    BY <2>1, <2>3
  <2> QED
    BY <2>4, <2>5
<1> QED
  BY <1>7, <1>8, <1>9, <1>10, <1>11, <1>12, <1>13, <1>14, <1>15 DEF BlocksExact

\* malloc(), calloc(), realloc() and free(): the blocks callers have do not overlap, lie
\* in pages in use, are on no free list and as large as asked for, unless the size is so
\* large that it wraps around; the lists and counters have the others.
THEOREM BlocksAreExact == MallocSpec => []BlocksExact
BY MallocInvariant, BlocksKnown, PTL

-----------------------------------------------------------------------------
(* The bitmap.                                                             *)

\* What the elements hold, and that no bit beyond the last one is 1.
BitMaps == [Elements -> SUBSET (0 .. ElemBits - 1)]
InRange(b) == \A e \in Elements : \A k \in b[e] : e * ElemBits + k < BitCnt
IsBitmap(b) == b \in BitMaps /\ InRange(b)
BitmapInv == IsBitmap(bits) /\ bfile \in BitMaps

Place(i) == i % ElemBits

\* The element and the place in it of a bit.
LEMMA BitPlace ==
    ASSUME NEW i \in 0 .. BitCnt - 1
    PROVE  /\ elem_idx(i) \in Elements /\ Place(i) \in 0 .. ElemBits - 1
           /\ (elem_idx(i) * ElemBits) + Place(i) = i
<1>1. ElemBits \in Nat \ {0} /\ BitCnt \in Nat /\ i \in Nat /\ i < BitCnt
  BY BitmapAssumption
<1>2. PICK q, n : q = i \div ElemBits /\ n = (BitCnt + ElemBits - 1) \div ElemBits
  OBVIOUS
<1>3. q \in Nat /\ ElemBits * q <= i
  BY <1>1, <1>2, Division
<1>4. n \in Nat /\ BitCnt + ElemBits - 1 < ElemBits * n + ElemBits
  <2>1. BitCnt + ElemBits - 1 \in Nat
    BY <1>1
  <2> QED
    BY <1>1, <1>2, <2>1, Division
<1>5. n <= q => ElemBits * n <= ElemBits * q
  BY <1>1, <1>3, <1>4, Monotone
<1>6. ElemBits * n \in Nat /\ ElemBits * q \in Nat
  BY <1>1, <1>3, <1>4
<1>7. q < n
  BY <1>1, <1>3, <1>4, <1>5, <1>6
<1>8. i % ElemBits \in 0 .. ElemBits - 1 /\ ((i \div ElemBits) * ElemBits) + (i % ElemBits) = i
  BY <1>1
<1> QED
  BY <1>2, <1>3, <1>4, <1>7, <1>8 DEF Elements, elem_cnt, elem_idx, Place

\* Different bits have different places.
LEMMA BitsApart ==
    ASSUME NEW i \in 0 .. BitCnt - 1, NEW j \in 0 .. BitCnt - 1, elem_idx(i) = elem_idx(j), Place(i) = Place(j)
    PROVE  i = j
<1>1. (elem_idx(i) * ElemBits) + Place(i) = i /\ (elem_idx(j) * ElemBits) + Place(j) = j
  BY BitPlace
<1> QED
  BY <1>1

\* bitmap_test() reads the bit.
LEMMA BitTested ==
    ASSUME NEW b, NEW i
    PROVE  /\ bitmap_test(b, i) \in BOOLEAN /\ BitAt(b, i) \in BOOLEAN
           /\ bitmap_test(b, i) = BitAt(b, i) /\ (BitAt(b, i) <=> Place(i) \in b[elem_idx(i)])
BY DEF bitmap_test, BitAt, elem_idx, bit_mask, Place

\* bitmap_mark(), bitmap_reset() and bitmap_flip(): x is what the bit's element becomes.
WritesBit(b, c, i, v) ==
    \A j \in 0 .. BitCnt - 1 : BitAt(c, j) <=> IF j = i THEN v ELSE BitAt(b, j)
Becomes(b, x, i) == x = b[elem_idx(i)] \union {Place(i)} \/ x = b[elem_idx(i)] \ {Place(i)}
WritesElem(b, c, i, x) == c = [b EXCEPT ![elem_idx(i)] = x]

\* Writing one bit leaves the others.
LEMMA BitWritten ==
    ASSUME NEW b, IsBitmap(b), NEW i \in 0 .. BitCnt - 1, NEW x, Becomes(b, x, i), NEW c, WritesElem(b, c, i, x)
    PROVE  IsBitmap(c) /\ WritesBit(b, c, i, Place(i) \in x)
<1>1. PICK q, k : q = elem_idx(i) /\ k = Place(i)
  OBVIOUS
<1>2. q \in Elements /\ k \in 0 .. ElemBits - 1 /\ (q * ElemBits) + k = i /\ i < BitCnt
  <2>1. i < BitCnt
    BY BitmapAssumption
  <2> QED
    BY <1>1, <2>1, BitPlace
<1>3. b \in BitMaps /\ InRange(b)
  BY DEF IsBitmap
<1>4. x = b[q] \union {k} \/ x = b[q] \ {k}
  BY <1>1 DEF Becomes
<1>5. x \in SUBSET (0 .. ElemBits - 1)
  BY <1>2, <1>3, <1>4 DEF BitMaps
<1>6. c \in BitMaps /\ c[q] = x /\ \A e \in Elements : e # q => c[e] = b[e]
  BY <1>1, <1>2, <1>3, <1>5 DEF BitMaps, WritesElem
<1>7. InRange(c)
  <2> SUFFICES ASSUME NEW e \in Elements, NEW m \in c[e] PROVE e * ElemBits + m < BitCnt
    BY DEF InRange
  <2>1. m \in b[e] \/ (e = q /\ m = k)
    BY <1>4, <1>6
  <2>2. CASE m \in b[e]
    BY <1>3, <2>2 DEF InRange
  <2>3. CASE e = q /\ m = k
    BY <1>2, <2>3
  <2> QED
    BY <2>1, <2>2, <2>3
<1>8. ASSUME NEW j \in 0 .. BitCnt - 1 PROVE BitAt(c, j) <=> IF j = i THEN k \in x ELSE BitAt(b, j)
  <2>1. BitAt(c, j) <=> Place(j) \in c[elem_idx(j)]
    BY BitTested
  <2>2. BitAt(b, j) <=> Place(j) \in b[elem_idx(j)]
    BY BitTested
  <2>3. CASE j = i
    BY <1>1, <1>6, <2>1, <2>3
  <2>4. CASE j # i
    <3>1. elem_idx(j) \in Elements
      BY BitPlace
    <3>2. CASE elem_idx(j) # q
      BY <1>6, <2>1, <2>2, <2>4, <3>1, <3>2
    <3>3. CASE elem_idx(j) = q
      <4>1. Place(j) # k
        BY <1>1, <2>4, <3>3, BitsApart
      <4>2. Place(j) \in x <=> Place(j) \in b[q]
        BY <1>4, <4>1
      <4> QED
        BY <1>6, <2>1, <2>2, <2>4, <3>3, <4>2
    <3> QED
      BY <3>2, <3>3
  <2> QED
    BY <2>3, <2>4
<1> QED
  BY <1>1, <1>6, <1>7, <1>8 DEF IsBitmap, WritesBit

\* bitmap_set() writes one bit.
LEMMA BitSet ==
    ASSUME NEW b, IsBitmap(b), NEW i \in 0 .. BitCnt - 1, NEW v \in BOOLEAN, NEW c, c = bitmap_set(b, i, v)
    PROVE  IsBitmap(c) /\ WritesBit(b, c, i, v)
<1>1. CASE v
  <2>1. PICK x : x = b[elem_idx(i)] \union {Place(i)}
    OBVIOUS
  <2>2. Becomes(b, x, i) /\ Place(i) \in x
    BY <2>1 DEF Becomes
  <2>3. WritesElem(b, c, i, x)
    BY <1>1, <2>1 DEF bitmap_set, bitmap_mark, bit_mask, WritesElem, Place
  <2>4. IsBitmap(c) /\ WritesBit(b, c, i, Place(i) \in x)
    BY <2>2, <2>3, BitWritten
  <2> QED
    BY <1>1, <2>2, <2>4 DEF WritesBit
<1>2. CASE ~ v
  <2>1. PICK x : x = b[elem_idx(i)] \ {Place(i)}
    OBVIOUS
  <2>2. Becomes(b, x, i) /\ Place(i) \notin x
    BY <2>1 DEF Becomes
  <2>3. WritesElem(b, c, i, x)
    BY <1>2, <2>1 DEF bitmap_set, bitmap_reset, bit_mask, WritesElem, Place
  <2>4. IsBitmap(c) /\ WritesBit(b, c, i, Place(i) \in x)
    BY <2>2, <2>3, BitWritten
  <2> QED
    BY <1>2, <2>2, <2>4 DEF WritesBit
<1> QED
  BY <1>1, <1>2

\* bitmap_flip() keeps a bitmap a bitmap.
LEMMA BitFlipped ==
    ASSUME NEW b, IsBitmap(b), NEW i \in 0 .. BitCnt - 1, NEW c, c = bitmap_flip(b, i)
    PROVE  IsBitmap(c)
<1>1. PICK q, k : q = elem_idx(i) /\ k = Place(i)
  OBVIOUS
<1>2. PICK x : x = (b[q] \ {k}) \union ({k} \ b[q])
  OBVIOUS
<1>3. WritesElem(b, c, i, x)
  BY <1>1, <1>2 DEF bitmap_flip, bit_mask, WritesElem, Place
<1>4. x = b[q] \union {k} \/ x = b[q] \ {k}
  <2>1. CASE k \in b[q]
    BY <1>2, <2>1
  <2>2. CASE k \notin b[q]
    BY <1>2, <2>2
  <2> QED
    BY <2>1, <2>2
<1>5. Becomes(b, x, i)
  BY <1>1, <1>4 DEF Becomes
<1> QED
  BY <1>3, <1>5, BitWritten

\* The steps of bitmap_set_multiple().
SetStep(b, start, v, f, n) == IF n = 0 THEN b ELSE bitmap_set(f[n - 1], start + n - 1, v)
Solves(b, start, v, cnt, f) == f = [n \in 0 .. cnt |-> SetStep(b, start, v, f, n)]

\* Its recursion has a solution.
LEMMA MultipleDefined ==
    ASSUME NEW b, NEW start, NEW v, NEW cnt \in Nat
    PROVE  \E f : Solves(b, start, v, cnt, f)
<1> DEFINE Ok(m) == \E f : f = [n \in 0 .. m |-> SetStep(b, start, v, f, n)]
<1> DEFINE Fails == {m \in Nat : ~ Ok(m)}
<1>1. Ok(0)
  <2> DEFINE f == [n \in 0 .. 0 |-> b]
  <2>1. f = [n \in 0 .. 0 |-> SetStep(b, start, v, f, n)]
    BY DEF SetStep
  <2> QED
    BY <2>1
<1>2. ASSUME NEW m \in Nat, Ok(m) PROVE Ok(m + 1)
  <2>1. PICK f : f = [n \in 0 .. m |-> SetStep(b, start, v, f, n)]
    BY <1>2
  <2> DEFINE g == [n \in 0 .. m + 1 |-> IF n <= m THEN f[n] ELSE SetStep(b, start, v, f, m + 1)]
  <2>2. \A n \in 0 .. m + 1 : g[n] = SetStep(b, start, v, g, n)
    <3> TAKE n \in 0 .. m + 1
    <3>1. CASE n <= m
      <4>1. n \in 0 .. m /\ (n # 0 => n - 1 \in 0 .. m)
        BY <3>1
      <4>2. f[n] = SetStep(b, start, v, f, n)
        BY <2>1, <4>1
      <4>3. SetStep(b, start, v, g, n) = SetStep(b, start, v, f, n)
        BY <4>1 DEF SetStep
      <4> QED
        BY <4>1, <4>2, <4>3
    <3>2. CASE n = m + 1
      BY <2>1, <3>2 DEF SetStep
    <3> QED
      BY <3>1, <3>2
  <2>3. g = [n \in 0 .. m + 1 |-> SetStep(b, start, v, g, n)]
    <3> DEFINE h == [n \in 0 .. m + 1 |-> SetStep(b, start, v, g, n)]
    <3>1. \A n \in 0 .. m + 1 : h[n] = SetStep(b, start, v, g, n)
      OBVIOUS
    <3>2. g = [n \in 0 .. m + 1 |-> g[n]] /\ h = [n \in 0 .. m + 1 |-> h[n]]
      OBVIOUS
    <3> HIDE DEF g, h
    <3>3. g = h
      BY <2>2, <3>1, <3>2
    <3> QED
      BY <3>3 DEF h
  <2> QED
    BY <2>3
<1>3. ASSUME Fails # {} PROVE FALSE
  <2>1. PICK m \in Fails : \A k \in Fails : m <= k
    <3> HIDE DEF Fails
    <3>1. Fails \in SUBSET Nat
      BY DEF Fails
    <3> QED
      BY <1>3, <3>1, LeastElement
  <2>2. m # 0 /\ m \in Nat
    BY <1>1
  <2>3. m - 1 \in Nat /\ m - 1 \notin Fails
    BY <2>1, <2>2
  <2>4. Ok(m - 1)
    BY <2>3
  <2> HIDE DEF Ok
  <2>5. Ok((m - 1) + 1) /\ (m - 1) + 1 = m
    BY <1>2, <2>2, <2>3, <2>4
  <2> QED
    BY <2>1, <2>5
<1>4. Ok(cnt)
  BY <1>3
<1> QED
  BY <1>4 DEF Solves

\* What bitmap_set_multiple() returns is that of its last step.
LEMMA MultipleSteps ==
    ASSUME NEW b, NEW start, NEW v, NEW cnt \in Nat
    PROVE  \E f : /\ bitmap_set_multiple(b, start, cnt, v) = f[cnt]
                 /\ \A n \in 0 .. cnt : f[n] = SetStep(b, start, v, f, n)
<1>0. \E f : Solves(b, start, v, cnt, f)
  BY MultipleDefined
<1> DEFINE F(f) == [n \in 0 .. cnt |-> SetStep(b, start, v, f, n)]
<1> DEFINE set == CHOOSE f : f = F(f)
<1>1. set = F(set)
  <2>1. \E f : f = F(f)
    BY <1>0 DEF Solves
  <2> HIDE DEF F
  <2> QED
    BY <2>1
<1>2. bitmap_set_multiple(b, start, cnt, v) = set[cnt]
  BY Zenon DEF bitmap_set_multiple, SetStep
<1>3. \A n \in 0 .. cnt : set[n] = SetStep(b, start, v, set, n)
  <2> DEFINE k2 == set
  <2>1. k2 = F(k2)
    BY <1>1
  <2> HIDE DEF k2
  <2>2. \A n \in 0 .. cnt : k2[n] = SetStep(b, start, v, k2, n)
    BY <2>1
  <2> QED
    BY <2>2 DEF k2
<1> QED
  BY <1>2, <1>3

WritesAll(b, c, start, cnt, v) ==
    \A j \in 0 .. BitCnt - 1 : BitAt(c, j) <=> IF j \in start .. start + cnt - 1 THEN v ELSE BitAt(b, j)

\* bitmap_set_multiple() writes the bits of the group and no other.
LEMMA MultipleSet ==
    ASSUME NEW b, IsBitmap(b), NEW start \in Nat, NEW cnt \in Nat, start + cnt <= BitCnt, NEW v \in BOOLEAN,
           NEW c, c = bitmap_set_multiple(b, start, cnt, v)
    PROVE  IsBitmap(c) /\ WritesAll(b, c, start, cnt, v)
<1>1. PICK f : /\ c = f[cnt]
               /\ \A n \in 0 .. cnt : f[n] = SetStep(b, start, v, f, n)
  BY MultipleSteps
<1> DEFINE Ok(n) == IsBitmap(f[n]) /\ WritesAll(b, f[n], start, n, v)
<1> DEFINE Fails == {n \in 0 .. cnt : ~ Ok(n)}
<1>2. Ok(0)
  <2>1. f[0] = b
    BY <1>1 DEF SetStep
  <2>2. \A j \in 0 .. BitCnt - 1 : j \notin start .. start + 0 - 1
    OBVIOUS
  <2> QED
    BY <2>1, <2>2 DEF WritesAll
<1>3. ASSUME NEW n \in 0 .. cnt, n # 0, Ok(n - 1) PROVE Ok(n)
  <2>1. PICK x, i : x = f[n - 1] /\ i = start + n - 1
    OBVIOUS
  <2>2. i \in 0 .. BitCnt - 1
    BY <1>3, <2>1, BitmapAssumption
  <2>3. IsBitmap(x) /\ WritesAll(b, x, start, n - 1, v)
    BY <1>3, <2>1
  <2>4. PICK y : y = f[n]
    OBVIOUS
  <2>5. y = bitmap_set(x, i, v)
    BY <1>1, <1>3, <2>1, <2>4 DEF SetStep
  <2>6. IsBitmap(y) /\ WritesBit(x, y, i, v)
    BY <2>2, <2>3, <2>5, BitSet
  <2>7. ASSUME NEW j \in 0 .. BitCnt - 1
        PROVE  BitAt(y, j) <=> IF j \in start .. start + n - 1 THEN v ELSE BitAt(b, j)
    <3>1. BitAt(y, j) <=> IF j = i THEN v ELSE BitAt(x, j)
      BY <2>6 DEF WritesBit
    <3>2. BitAt(x, j) <=> IF j \in start .. start + (n - 1) - 1 THEN v ELSE BitAt(b, j)
      BY <2>3 DEF WritesAll
    <3>3. j \in start .. start + n - 1 <=> j = i \/ j \in start .. start + (n - 1) - 1
      BY <1>3, <2>1
    <3> QED
      BY <3>1, <3>2, <3>3
  <2>8. WritesAll(b, y, start, n, v)
    BY <2>7 DEF WritesAll
  <2> QED
    BY <2>4, <2>6, <2>8
<1>4. ASSUME Fails # {} PROVE FALSE
  <2>1. PICK m \in Fails : \A k \in Fails : m <= k
    <3> HIDE DEF Fails
    <3>1. Fails \in SUBSET Nat
      BY DEF Fails
    <3> QED
      BY <1>4, <3>1, LeastElement
  <2>2. m # 0 /\ m \in 0 .. cnt
    BY <1>2
  <2>3. m - 1 \in 0 .. cnt /\ m - 1 \notin Fails
    BY <2>1, <2>2
  <2>4. Ok(m - 1)
    BY <2>3
  <2> HIDE DEF Ok
  <2>5. Ok(m)
    BY <1>3, <2>2, <2>4
  <2> QED
    BY <2>1, <2>5
<1>5. Ok(cnt)
  <2>1. cnt \in 0 .. cnt
    OBVIOUS
  <2> HIDE DEF Ok
  <2> QED
    BY <1>4, <2>1
<1> QED
  BY <1>1, <1>5

\* bitmap_read() clears what the file holds beyond the last bit.
LEMMA BitmapRead ==
    ASSUME NEW f \in BitMaps, NEW c, c = bitmap_read(f)
    PROVE  IsBitmap(c)
<1>1. ElemBits \in Nat \ {0} /\ BitCnt \in Nat
  BY BitmapAssumption
<1>2. PICK n : n = elem_cnt(BitCnt)
  OBVIOUS
<1>3. n \in Nat /\ ElemBits * n <= BitCnt + ElemBits - 1
  <2>1. BitCnt + ElemBits - 1 \in Nat
    BY <1>1
  <2> QED
    BY <1>1, <1>2, <2>1, Division DEF elem_cnt
<1>4. Elements = 0 .. n - 1
  BY <1>2 DEF Elements
<1>5. c = [f EXCEPT ![n - 1] = f[n - 1] \intersect last_mask]
  BY <1>2 DEF bitmap_read
<1>6. c \in BitMaps /\ \A e \in Elements : c[e] = IF e = n - 1 THEN f[e] \intersect last_mask ELSE f[e]
  BY <1>3, <1>4, <1>5 DEF BitMaps
<1>7. ASSUME NEW e \in Elements, NEW k \in c[e] PROVE e * ElemBits + k < BitCnt
  <2>1. e \in Nat /\ e <= n - 1 /\ k \in Nat /\ k < ElemBits
    BY <1>1, <1>3, <1>4, <1>6, <1>7 DEF BitMaps
  <2>2. e * ElemBits = ElemBits * e /\ ElemBits * e \in Nat /\ ElemBits * (e + 1) = ElemBits * e + ElemBits
    BY <1>1, <2>1
  <2>3. CASE e # n - 1
    <3>1. ElemBits * (e + 1) <= ElemBits * (n - 1) /\ ElemBits * (n - 1) = ElemBits * n - ElemBits
      <4>1. e + 1 \in Nat /\ n - 1 \in Nat /\ e + 1 <= n - 1
        BY <1>3, <2>1, <2>3
      <4>2. ElemBits * (n - 1) = ElemBits * n - ElemBits
        BY <1>1, <1>3
      <4> QED
        BY <1>1, <4>1, <4>2, Monotone
    <3>2. ElemBits * n \in Nat
      BY <1>1, <1>3
    <3> QED
      BY <1>1, <1>3, <2>1, <2>2, <3>1, <3>2
  <2>4. CASE e = n - 1
    <3>1. PICK q, r : q = BitCnt \div ElemBits /\ r = BitCnt % ElemBits
      OBVIOUS
    <3>2. q \in Nat /\ r \in 0 .. ElemBits - 1 /\ BitCnt = ElemBits * q + r
      BY <1>1, <3>1
    <3>3. k \in last_mask
      BY <1>6, <1>7, <2>4
    <3>4. r # 0 => k < r
      BY <2>1, <3>1, <3>2, <3>3 DEF last_mask
    <3>5. ElemBits * n = ElemBits * e + ElemBits
      <4>1. e + 1 = n
        BY <1>3, <2>4
      <4> QED
        BY <2>2, <4>1
    <3>6. ElemBits * e < BitCnt
      BY <1>1, <1>3, <2>2, <3>5
    <3>7. ElemBits * q \in Nat
      BY <1>1, <3>2
    <3>8. q + 1 <= e => ElemBits * (q + 1) <= ElemBits * e
      BY <1>1, <2>1, <3>2, Monotone
    <3>9. ElemBits * (q + 1) = ElemBits * q + ElemBits
      BY <1>1, <3>2
    <3>10. e <= q
      BY <1>1, <2>1, <2>2, <3>2, <3>6, <3>7, <3>8, <3>9
    <3>11. CASE r # 0
      <4>1. ElemBits * e <= ElemBits * q
        BY <1>1, <2>1, <3>2, <3>10, Monotone
      <4> QED
        BY <2>1, <2>2, <3>2, <3>4, <3>7, <3>11, <4>1
    <3>12. CASE r = 0
      <4>1. e # q
        BY <3>2, <3>6, <3>7, <3>12
      <4>2. e + 1 \in Nat /\ e + 1 <= q
        BY <2>1, <3>2, <3>10, <4>1
      <4>3. ElemBits * (e + 1) <= ElemBits * q
        BY <1>1, <3>2, <4>2, Monotone
      <4> QED
        BY <1>1, <2>1, <2>2, <3>2, <3>7, <3>12, <4>3
    <3> QED
      BY <3>11, <3>12
  <2> QED
    BY <2>3, <2>4
<1> QED
  BY <1>6, <1>7 DEF IsBitmap, InRange

IsGroupOf(b, i, cnt, v) == i + cnt <= BitCnt /\ \A j \in i .. i + cnt - 1 : BitAt(b, j) = v
Finds(b, start, cnt, v, i) ==
    \/ i = BITMAP_ERROR /\ \A j \in start .. BitCnt : ~ IsGroupOf(b, j, cnt, v)
    \/ i \in Nat /\ i >= start /\ IsGroupOf(b, i, cnt, v) /\ \A j \in start .. i - 1 : ~ IsGroupOf(b, j, cnt, v)

\* bitmap_scan(): the first group of cnt bits that are v, if there is one.
LEMMA Scanned ==
    ASSUME NEW b, NEW start \in Nat, NEW cnt \in Nat, NEW v \in BOOLEAN,
           NEW i, i = bitmap_scan(b, start, cnt, v)
    PROVE  Finds(b, start, cnt, v, i)
<1>0. BitCnt \in Nat
  BY BitmapAssumption
<1>1. PICK found : found = {j \in start .. BitCnt - cnt : ~ bitmap_contains(b, j, cnt, ~ v)}
  OBVIOUS
<1>2. ASSUME NEW j \in Nat, j >= start PROVE j \in found <=> IsGroupOf(b, j, cnt, v)
  <2>1. ~ bitmap_contains(b, j, cnt, ~ v) <=> \A k \in j .. j + cnt - 1 : ~ (bitmap_test(b, k) = ~ v)
    BY DEF bitmap_contains
  <2>2. \A k : ~ (bitmap_test(b, k) = ~ v) <=> BitAt(b, k) = v
    <3> SUFFICES ASSUME NEW k PROVE ~ (bitmap_test(b, k) = ~ v) <=> BitAt(b, k) = v
      OBVIOUS
    <3>1. bitmap_test(b, k) \in BOOLEAN /\ BitAt(b, k) \in BOOLEAN /\ bitmap_test(b, k) = BitAt(b, k)
      BY BitTested
    <3> QED
      BY <3>1
  <2>3. ~ bitmap_contains(b, j, cnt, ~ v) <=> \A k \in j .. j + cnt - 1 : BitAt(b, k) = v
    BY <2>1, <2>2
  <2>4. j \in start .. BitCnt - cnt <=> j + cnt <= BitCnt
    BY <1>0, <1>2
  <2> QED
    BY <1>1, <2>3, <2>4 DEF IsGroupOf
<1>3. found \in SUBSET Nat /\ \A j \in found : j >= start
  BY <1>0, <1>1
<1>4. CASE found = {}
  <2>1. i = BITMAP_ERROR
    BY <1>1, <1>4 DEF bitmap_scan
  <2>2. \A j \in start .. BitCnt : j \in Nat /\ j >= start
    BY <1>0 DEF Solves
  <2> QED
    BY <1>2, <1>4, <2>1, <2>2 DEF Finds
<1>5. CASE found # {}
  <2>1. ~ (cnt > BitCnt)
    BY <1>0, <1>1, <1>5
  <2>2. i = CHOOSE j \in found : \A k \in found : j <= k
    BY <1>1, <1>5, <2>1 DEF bitmap_scan
  <2>3. \E j \in found : \A k \in found : j <= k
    BY <1>3, <1>5, LeastElement
  <2>4. i \in found /\ \A k \in found : i <= k
    BY <2>2, <2>3
  <2>5. i \in Nat /\ i >= start /\ IsGroupOf(b, i, cnt, v)
    BY <1>2, <1>3, <2>4
  <2>6. \A j \in start .. i - 1 : j \in Nat /\ j >= start /\ ~ (i <= j)
    BY <2>5
  <2> QED
    BY <1>2, <2>4, <2>5, <2>6 DEF Finds
<1> QED
  BY <1>4, <1>5

\* bitmap_scan_and_flip(): a group that is found is changed, and nothing else.
LEMMA ScannedAndFlipped ==
    ASSUME NEW b, IsBitmap(b), NEW start \in Nat, NEW cnt \in Nat, NEW v \in BOOLEAN,
           NEW i, i = bitmap_scan(b, start, cnt, v), NEW c, c = bitmap_scan_and_flip(b, start, cnt, v)
    PROVE  /\ IsBitmap(c) /\ (i = BITMAP_ERROR => c = b)
           /\ i # BITMAP_ERROR => WritesAll(b, c, i, cnt, ~ v)
<1>1. Finds(b, start, cnt, v, i)
  BY Scanned
<1>2. CASE i = BITMAP_ERROR
  <2>1. c = b
    BY <1>2 DEF bitmap_scan_and_flip
  <2> QED
    BY <1>2, <2>1
<1>3. CASE i # BITMAP_ERROR
  <2>1. i \in Nat /\ i + cnt <= BitCnt
    BY <1>1, <1>3 DEF Finds, IsGroupOf
  <2>2. PICK w \in BOOLEAN : w = ~ v
    OBVIOUS
  <2>3. c = bitmap_set_multiple(b, i, cnt, w)
    BY <1>3, <2>2 DEF bitmap_scan_and_flip
  <2>4. IsBitmap(c) /\ WritesAll(b, c, i, cnt, w)
    BY <2>1, <2>2, <2>3, MultipleSet
  <2> QED
    BY <1>3, <2>2, <2>4
<1> QED
  BY <1>2, <1>3

\* bitmap_create(), and a file with anything in it.
LEMMA BitmapInvInit == BitmapInit => BitmapInv
<1> SUFFICES ASSUME BitmapInit PROVE BitmapInv
  OBVIOUS
<1>1. PICK b : b = [e \in Elements |-> {}]
  OBVIOUS
<1>2. IsBitmap(b)
  BY <1>1 DEF IsBitmap, BitMaps, InRange
<1>3. bits = bitmap_set_multiple(b, 0, BitCnt, FALSE)
  BY <1>1 DEF BitmapInit, bitmap_create, bitmap_set_all
<1>4. BitCnt \in Nat /\ 0 \in Nat /\ 0 + BitCnt <= BitCnt /\ FALSE \in BOOLEAN
  BY BitmapAssumption
<1>5. IsBitmap(bits)
  BY <1>2, <1>3, <1>4, MultipleSet
<1>6. bfile \in BitMaps
  BY DEF BitmapInit, BitMaps
<1> QED
  BY <1>5, <1>6 DEF BitmapInv

\* Every operation leaves a bitmap.
LEMMA BitmapInvNext == BitmapInv /\ [BitmapNext]_<<bits, bfile>> => BitmapInv'
<1> SUFFICES ASSUME BitmapInv, [BitmapNext]_<<bits, bfile>> PROVE BitmapInv'
  OBVIOUS
<1>0. IsBitmap(bits) /\ bits \in BitMaps /\ bfile \in BitMaps /\ BitCnt \in Nat
  BY BitmapAssumption DEF BitmapInv, IsBitmap
<1>1. ASSUME NEW c, IsBitmap(c), bits' = c, UNCHANGED bfile PROVE BitmapInv'
  BY <1>0, <1>1 DEF BitmapInv, IsBitmap, InRange, BitMaps
<1>2. ASSUME NEW i \in 0 .. BitCnt - 1, NEW v \in BOOLEAN, bits' = bitmap_set(bits, i, v), UNCHANGED bfile
      PROVE  BitmapInv'
  <2>1. PICK b, c : b = bits /\ c = bitmap_set(b, i, v)
    OBVIOUS
  <2>2. IsBitmap(c)
    BY <1>0, <2>1, BitSet
  <2> QED
    BY <1>1, <1>2, <2>1, <2>2
<1>3. ASSUME NEW i \in 0 .. BitCnt - 1, bits' = bitmap_flip(bits, i), UNCHANGED bfile PROVE BitmapInv'
  <2>1. PICK b, c : b = bits /\ c = bitmap_flip(b, i)
    OBVIOUS
  <2>2. IsBitmap(c)
    BY <1>0, <2>1, BitFlipped
  <2> QED
    BY <1>1, <1>3, <2>1, <2>2
<1>4. ASSUME NEW start \in 0 .. BitCnt, NEW cnt \in 0 .. BitCnt, NEW v \in BOOLEAN, start + cnt <= BitCnt,
             bits' = bitmap_set_multiple(bits, start, cnt, v), UNCHANGED bfile
      PROVE  BitmapInv'
  <2>1. PICK b, c : b = bits /\ c = bitmap_set_multiple(b, start, cnt, v)
    OBVIOUS
  <2>2. start \in Nat /\ cnt \in Nat
    BY <1>0
  <2>3. IsBitmap(c)
    BY <1>0, <1>4, <2>1, <2>2, MultipleSet
  <2> QED
    BY <1>1, <1>4, <2>1, <2>3
<1>5. ASSUME NEW start \in 0 .. BitCnt, NEW cnt \in 0 .. BitCnt + 1, NEW v \in BOOLEAN,
             bits' = bitmap_scan_and_flip(bits, start, cnt, v), UNCHANGED bfile
      PROVE  BitmapInv'
  <2>1. PICK b, c, i : b = bits /\ c = bitmap_scan_and_flip(b, start, cnt, v) /\ i = bitmap_scan(b, start, cnt, v)
    OBVIOUS
  <2>2. start \in Nat /\ cnt \in Nat
    BY <1>0
  <2>3. IsBitmap(c)
    BY <1>0, <2>1, <2>2, ScannedAndFlipped
  <2> QED
    BY <1>1, <1>5, <2>1, <2>3
<1>6. ASSUME bfile' = bitmap_write(bits), UNCHANGED bits PROVE BitmapInv'
  BY <1>0, <1>6 DEF BitmapInv, IsBitmap, InRange, BitMaps, bitmap_write
<1>7. ASSUME bits' = bitmap_read(bfile), UNCHANGED bfile PROVE BitmapInv'
  <2>1. PICK f, c : f = bfile /\ c = bitmap_read(f)
    OBVIOUS
  <2>2. IsBitmap(c)
    BY <1>0, <2>1, BitmapRead
  <2> QED
    BY <1>1, <1>7, <2>1, <2>2
<1>8. ASSUME UNCHANGED <<bits, bfile>> PROVE BitmapInv'
  BY <1>8 DEF BitmapInv, IsBitmap, InRange, BitMaps
<1> QED
  BY <1>2, <1>3, <1>4, <1>5, <1>6, <1>7, <1>8 DEF BitmapNext

\* What the scans of a bitmap find and change.
LEMMA ScansKnown == BitmapInv => BitmapScans
<1> SUFFICES ASSUME BitmapInv PROVE BitmapScans
  OBVIOUS
<1>1. PICK b : b = bits
  OBVIOUS
<1>2. IsBitmap(b) /\ BitCnt \in Nat
  BY <1>1, BitmapAssumption DEF BitmapInv
<1>3. \A j, cnt, v : IsGroup(j, cnt, v) <=> IsGroupOf(b, j, cnt, v)
  BY <1>1 DEF IsGroup, IsGroupOf
<1>4. ASSUME NEW start \in 0 .. BitCnt, NEW cnt \in 0 .. BitCnt + 1, NEW v \in BOOLEAN,
             NEW i, i = bitmap_scan(b, start, cnt, v), NEW after, after = bitmap_scan_and_flip(b, start, cnt, v)
      PROVE  IF i = BITMAP_ERROR
             THEN /\ \A j \in start .. BitCnt : ~ IsGroup(j, cnt, v)
                  /\ after = b
             ELSE /\ i >= start /\ IsGroup(i, cnt, v)
                  /\ \A j \in start .. i - 1 : ~ IsGroup(j, cnt, v)
                  /\ \A j \in 0 .. BitCnt - 1 :
                        BitAt(after, j) = IF j \in i .. i + cnt - 1 THEN ~ v ELSE BitAt(b, j)
  <2>1. start \in Nat /\ cnt \in Nat
    BY <1>2
  <2>2. Finds(b, start, cnt, v, i)
    BY <1>4, <2>1, Scanned
  <2>3. (i = BITMAP_ERROR => after = b) /\ (i # BITMAP_ERROR => WritesAll(b, after, i, cnt, ~ v))
    BY <1>2, <1>4, <2>1, ScannedAndFlipped
  <2>4. CASE i = BITMAP_ERROR
    <3>1. \A j \in start .. BitCnt : ~ IsGroupOf(b, j, cnt, v)
      BY <2>2, <2>4 DEF Finds, BITMAP_ERROR
    <3> QED
      BY <1>3, <2>3, <2>4, <3>1
  <2>5. CASE i # BITMAP_ERROR
    <3>1. i >= start /\ IsGroupOf(b, i, cnt, v) /\ \A j \in start .. i - 1 : ~ IsGroupOf(b, j, cnt, v)
      BY <2>2, <2>5 DEF Finds
    <3>2. ASSUME NEW j \in 0 .. BitCnt - 1
          PROVE  BitAt(after, j) = IF j \in i .. i + cnt - 1 THEN ~ v ELSE BitAt(b, j)
      <4>1. BitAt(after, j) \in BOOLEAN /\ BitAt(b, j) \in BOOLEAN
        BY BitTested
      <4>2. BitAt(after, j) <=> IF j \in i .. i + cnt - 1 THEN ~ v ELSE BitAt(b, j)
        BY <2>3, <2>5 DEF WritesAll
      <4> QED
        BY <4>1, <4>2
    <3> QED
      BY <1>3, <2>5, <3>1, <3>2
  <2> QED
    BY <2>4, <2>5
<1>5. \A e \in Elements : \A k \in bits[e] : e * ElemBits + k < BitCnt
  BY <1>1, <1>2 DEF IsBitmap, InRange
<1>6. ASSUME NEW v \in BOOLEAN
      PROVE  bitmap_count(bits, 0, BitCnt, v) = Cardinality({i \in 0 .. BitCnt - 1 : BitAt(bits, i) = v})
  <2>1. 0 + BitCnt - 1 = BitCnt - 1
    BY <1>2
  <2>2. \A i : bitmap_test(bits, i) = BitAt(bits, i)
    BY BitTested
  <2>3. {i \in 0 .. 0 + BitCnt - 1 : bitmap_test(bits, i) = v} = {i \in 0 .. BitCnt - 1 : BitAt(bits, i) = v}
    BY <2>1, <2>2
  <2> QED
    BY <2>3 DEF bitmap_count
<1> QED
  BY <1>1, <1>4, <1>5, <1>6 DEF BitmapScans

\* bitmap_scan() and bitmap_scan_and_flip() find the first group that fits and change
\* that group alone; no bit beyond the last one is ever 1, whatever bitmap_read() gets.
THEOREM ScansAreExact == BitmapSpec => []BitmapScans
<1>1. BitmapSpec => []BitmapInv
  BY BitmapInvInit, BitmapInvNext, PTL DEF BitmapSpec
<1> QED
  BY <1>1, ScansKnown, PTL
=============================================================================
