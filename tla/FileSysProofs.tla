--------------------------- MODULE FileSysProofs ---------------------------
(***************************************************************************)
(* Proofs about the file system of module FileSys: open counts, the owners *)
(* of sectors, what reads return, and that it implements FileStore; and    *)
(* about the sector transfers of module Ide under it.                      *)
(***************************************************************************)
EXTENDS FileSys, Ide, FiniteSetTheorems, SequenceTheorems, WellFoundedInduction, TLAPS

Inodes == [start : Int, length : Nat]
CreateOps == [kind : {"create"}, at : {"alloc", "data", "inode", "zero", "add", "undo"},
              name : Names, size : Sizes, sector : Sectors, start : Int, next : Int]
RemoveOps == [kind : {"remove"}, at : {"erase"}, slot : Slots, sector : Sectors]
CloseOps == [kind : {"close"}, at : {"last", "release", "release_data"}, sector : Sectors]
TransferOps == [kind : {"read", "write"}, at : {"chunk", "done", "starved"}, handle : Handles,
                size : Nat, buffer : Seq(Bytes), bounce : BOOLEAN]

OpInv ==
    /\ op \in {Idle} \union CreateOps \union RemoveOps \union CloseOps \union TransferOps
    /\ op.kind \in {"read", "write"} => ~ Free(op.handle)
    /\ op.kind = "write" => Len(op.buffer) = op.size

DiskInv ==
    /\ Reserved \subseteq free_map /\ free_map \subseteq d_map /\ d_map \subseteq Sectors
    /\ d_inode \in [Sectors -> Inodes]
    /\ d_data \in [Sectors -> [0 .. SECTOR_SIZE - 1 -> Bytes]]
    /\ d_dir \in [Slots -> [name : Names \union {NoId}, inode_sector : Sectors,
                            in_use : BOOLEAN]]

\* A struct inode holds what is on disk in its sector; a handle that is not in use is
\* empty.
MemoryInv ==
    /\ DOMAIN inodes \subseteq Sectors
    /\ inodes \in [DOMAIN inodes -> [open_cnt : Int, removed : BOOLEAN,
                                     deny_write_cnt : Int, data : Inodes]]
    /\ \A s \in DOMAIN inodes : inodes[s].data = d_inode[s]
    /\ files \in [Handles -> [inode : Sectors \union {NoId}, pos : Nat, deny_write : BOOLEAN]]
    /\ \A h \in Handles : files[h].inode = NoId => Free(h)

\* The file the operation in progress has in hand, and its sector once it is released.
Busy == IF op.kind \in {"remove", "close"} THEN {op.sector} ELSE {}
Gone == IF op.kind = "close" /\ op.at = "release_data" THEN {op.sector} ELSE {}
Held == Files \union Busy

\* The sectors of the file that is being created.
Fresh ==
    IF op.kind = "create" /\ op.at # "alloc"
    THEN {op.sector} \union IF op.at \in {"inode", "zero", "add"} THEN DataSectors(NewInode) ELSE {}
    ELSE {}

OwnInv ==
    /\ \A s \in Held : DiskSectors(s) \intersect Reserved = {}
    /\ \A s \in Held \ Gone : DiskSectors(s) \subseteq free_map
    /\ \A s, t \in Held : s # t => DiskSectors(s) \intersect DiskSectors(t) = {}
    /\ Gone \intersect free_map = {}

FreshInv ==
    /\ Fresh \subseteq free_map \ Reserved
    /\ \A s \in Held : DiskSectors(s) \intersect Fresh = {}
    /\ op.kind = "create" /\ op.at \in {"zero", "add"} => d_inode[op.sector] = NewInode

\* Directory entries lead to different inodes; none leads to an inode that is marked as
\* removed; the last close frees nobody's file.
LinkInv ==
    /\ \A j, k \in Slots : d_dir[j].in_use /\ d_dir[k].in_use
                             /\ d_dir[j].inode_sector = d_dir[k].inode_sector => j = k
    /\ op.kind = "remove" => d_dir[op.slot].in_use /\ d_dir[op.slot].inode_sector = op.sector
    /\ Busy \subseteq DOMAIN inodes
    /\ \A s \in DOMAIN inodes : inodes[s].removed => s \notin Linked
    /\ op.kind = "close" /\ op.at \in {"release", "release_data"} => op.sector \notin Files

Accounted ==
    free_map \subseteq Reserved \union leaked \union Fresh \union UNION {DiskSectors(s) : s \in Held}

\* CountsMatch, an inode at a time.
Deniers(s) == {h \in HandlesOn(s) : files[h].deny_write}
Counted(s) ==
    /\ inodes[s].open_cnt = Cardinality(HandlesOn(s)) + (IF s \in Busy THEN 1 ELSE 0)
    /\ inodes[s].deny_write_cnt = Cardinality(Deniers(s))
    /\ inodes[s].open_cnt > 0
CountInv == Opened \subseteq DOMAIN inodes /\ \A s \in DOMAIN inodes : Counted(s)

FSInv == /\ OpInv /\ DiskInv /\ MemoryInv /\ OwnInv /\ FreshInv /\ LinkInv
         /\ Accounted /\ CountInv

-----------------------------------------------------------------------------
\* Every set of numbers has a least element: so bitmap_scan() finds the
\* first of the runs there are.
LEMMA LeastElement ==
    ASSUME NEW S \in SUBSET Nat, S # {}
    PROVE  \E m \in S : \A k \in S : m <= k
<1> DEFINE R == StrictSubsetOrdering(Nat)
<1> DEFINE F == FiniteSubsetsOf(Nat)
<1> DEFINE T == {0 .. m : m \in S}
<1>1. IsWellFoundedOn(R, F)
  BY FS_StrictSubsetOrderingWellFounded
<1>2. \A m \in S : 0 .. m \in F
  BY FS_Interval DEF FiniteSubsetsOf
<1>3. T \subseteq F /\ T # {}
  BY <1>2
<1>4. \E x \in T : \A y \in T : ~ (<<y, x>> \in R)
  <2> HIDE DEF R, F, T
  <2> QED BY <1>1, <1>3, WFMin
<1>5. PICK m \in S : \A y \in T : ~ (<<y, 0 .. m>> \in R)
  BY <1>4
<1>6. ASSUME NEW k \in S, k < m PROVE FALSE
  <2>1. <<0 .. k, 0 .. m>> \in R
    BY <1>6 DEF StrictSubsetOrdering
  <2> QED BY <2>1, <1>5
<1> QED BY <1>5, <1>6

\* bitmap_scan(): the run it finds lies on the disk and is free.
LEMMA FirstRunFits ==
    ASSUME NEW cnt \in Int, Runs(cnt) # {}
    PROVE  /\ FirstRun(cnt) \in Sectors /\ FirstRun(cnt) \in Int
           /\ FirstRun(cnt) .. FirstRun(cnt) + cnt - 1 \subseteq Sectors
           /\ (FirstRun(cnt) .. FirstRun(cnt) + cnt - 1) \intersect free_map = {}
<1>1. Runs(cnt) \in SUBSET Nat  BY FileSysAssumption DEF Runs, Sectors
<1>2. \E m \in Runs(cnt) : \A k \in Runs(cnt) : m <= k  BY <1>1, LeastElement
<1>3. FirstRun(cnt) \in Runs(cnt)  BY <1>2 DEF FirstRun
<1> QED BY <1>3, FileSysAssumption DEF Runs, Sectors

\* bytes_to_sectors() of a length is a number of sectors.
LEMMA SizeInSectors ==
    ASSUME NEW n \in Nat
    PROVE  bytes_to_sectors(n) \in Nat
<1>1. SECTOR_SIZE \in Nat \ {0}  BY FileSysAssumption
<1>2. n + SECTOR_SIZE - 1 \in Nat  BY <1>1
<1>3. \A a \in Nat, b \in Nat \ {0} : a \div b \in Nat  OBVIOUS
<1> QED BY <1>1, <1>2, <1>3 DEF bytes_to_sectors

\* An inode that is open has a handle, or the operation in progress has it.
LEMMA OpenIsHeld ==
    ASSUME CountInv, MemoryInv, NEW s \in DOMAIN inodes
    PROVE  s \in Held
<1>1. CASE HandlesOn(s) = {}
  <2>1. Cardinality(HandlesOn(s)) = 0  BY <1>1, FS_EmptySet
  <2> QED BY <2>1 DEF CountInv, Counted, Held
<1>2. CASE HandlesOn(s) # {}
  BY <1>2, FileSysAssumption DEF HandlesOn, Held, Files, Opened, MemoryInv
<1> QED BY <1>1, <1>2

-----------------------------------------------------------------------------
(* Handles.                                                                *)

\* The files open on an inode can be counted, and so can those that deny writes to it.
LEMMA HandlesFinite ==
    ASSUME NEW s
    PROVE  /\ IsFiniteSet(HandlesOn(s)) /\ Cardinality(HandlesOn(s)) \in Nat
           /\ IsFiniteSet(Deniers(s)) /\ Cardinality(Deniers(s)) \in Nat
<1>1. HandlesOn(s) \subseteq Handles /\ Deniers(s) \subseteq Handles
  BY DEF HandlesOn, Deniers
<1> QED BY <1>1, FileSysAssumption, FS_Subset, FS_CardinalityType

\* A step that changes no handle but for its position.
LEMMA SameHandles ==
    ASSUME MemoryInv, DOMAIN files' = Handles,
           \A h \in Handles : files'[h].inode = files[h].inode
                                /\ files'[h].deny_write = files[h].deny_write
    PROVE  /\ \A s : HandlesOn(s)' = HandlesOn(s) /\ Deniers(s)' = Deniers(s)
           /\ Opened' = Opened
BY DEF HandlesOn, Deniers, Opened

\* file_open(): a file starts at position 0 and denies no writes.
LEMMA OpenedFile ==
    ASSUME NEW s \in Sectors
    PROVE  /\ file_open(s).inode = s /\ file_open(s).pos = 0 /\ file_open(s).deny_write = FALSE
           /\ file_open(s) \in [inode : Sectors \union {NoId}, pos : Nat, deny_write : BOOLEAN]
<1>1. PICK n \in [inode : Sectors \union {NoId}, pos : Nat, deny_write : BOOLEAN] :
         n = NoFile /\ n.pos = 0 /\ n.deny_write = FALSE
  <2>1. NoFile \in [inode : Sectors \union {NoId}, pos : Nat, deny_write : BOOLEAN]
    BY DEF NoFile
  <2>2. NoFile.pos = 0 /\ NoFile.deny_write = FALSE  BY DEF NoFile
  <2> QED BY <2>1, <2>2
<1>2. file_open(s) = [n EXCEPT !.inode = s]  BY <1>1 DEF file_open
<1>3. PICK f : f = [n EXCEPT !.inode = s]  OBVIOUS
<1>4. /\ f.inode = s /\ f.pos = 0 /\ f.deny_write = FALSE
      /\ f \in [inode : Sectors \union {NoId}, pos : Nat, deny_write : BOOLEAN]
  BY <1>1, <1>3
<1> QED BY <1>2, <1>3, <1>4

\* file_open() of inode s for handle h.
LEMMA OpenHandle ==
    ASSUME MemoryInv, NEW h \in Handles, Free(h), NEW s \in Sectors,
           files' = [files EXCEPT ![h] = file_open(s)]
    PROVE  /\ \A t \in Sectors : t # s => HandlesOn(t)' = HandlesOn(t)
           /\ Cardinality(HandlesOn(s)') = Cardinality(HandlesOn(s)) + 1
           /\ \A t \in Sectors : Deniers(t)' = Deniers(t)
           /\ Opened' = Opened \union {s}
           /\ files' \in [Handles -> [inode : Sectors \union {NoId}, pos : Nat,
                                      deny_write : BOOLEAN]]
           /\ \A g \in Handles : files'[g].inode = NoId => files'[g] = NoFile
<1>1. PICK f : /\ f = file_open(s) /\ f.inode = s /\ f.pos = 0 /\ f.deny_write = FALSE
               /\ f \in [inode : Sectors \union {NoId}, pos : Nat, deny_write : BOOLEAN]
  BY OpenedFile
<1>2. files' = [files EXCEPT ![h] = f]  BY <1>1
<1>3. files[h].inode = NoId  BY DEF Free, NoFile
<1>4. s # NoId /\ NoId \notin Sectors  BY FileSysAssumption
<1>5. /\ DOMAIN files = Handles /\ files'[h] = f
      /\ \A g \in Handles : g # h => files'[g] = files[g]
  BY <1>2 DEF MemoryInv
<1>6. \A t \in Sectors : t # s => HandlesOn(t)' = HandlesOn(t)
  BY <1>1, <1>3, <1>4, <1>5 DEF HandlesOn
<1>7. HandlesOn(s)' = HandlesOn(s) \union {h} /\ h \notin HandlesOn(s)
  BY <1>1, <1>3, <1>4, <1>5 DEF HandlesOn
<1>8. Cardinality(HandlesOn(s)') = Cardinality(HandlesOn(s)) + 1
  <2> DEFINE S == HandlesOn(s)
  <2>1. IsFiniteSet(S)  BY HandlesFinite
  <2>2. Cardinality(S \union {h}) = IF h \in S THEN Cardinality(S) ELSE Cardinality(S) + 1
    <3> HIDE DEF S
    <3> QED BY <2>1, FS_AddElement
  <2> QED BY <2>2, <1>7
<1>9. \A t \in Sectors : Deniers(t)' = Deniers(t)
  BY <1>1, <1>3, <1>4, <1>5 DEF HandlesOn, Deniers
<1>10. Opened' = Opened \union {s}
  BY <1>1, <1>3, <1>4, <1>5 DEF Opened
<1>11. /\ files' \in [Handles -> [inode : Sectors \union {NoId}, pos : Nat, deny_write : BOOLEAN]]
       /\ \A g \in Handles : files'[g].inode = NoId => files'[g] = NoFile
  BY <1>1, <1>2, <1>4, <1>5 DEF MemoryInv, Free
<1> QED BY <1>6, <1>8, <1>9, <1>10, <1>11

\* file_close() of handle h.
LEMMA CloseHandle ==
    ASSUME MemoryInv, NEW h \in Handles, ~ Free(h), files' = [files EXCEPT ![h] = NoFile],
           NEW s, s = files[h].inode
    PROVE  /\ s \in Sectors /\ s \in Opened
           /\ \A t \in Sectors : t # s => HandlesOn(t)' = HandlesOn(t) /\ Deniers(t)' = Deniers(t)
           /\ Cardinality(HandlesOn(s)') = Cardinality(HandlesOn(s)) - 1
           /\ Cardinality(Deniers(s)') = Cardinality(Deniers(s))
                                           - (IF files[h].deny_write THEN 1 ELSE 0)
           /\ Opened' \subseteq Opened /\ Opened \subseteq Opened' \union {s}
           /\ files' \in [Handles -> [inode : Sectors \union {NoId}, pos : Nat,
                                      deny_write : BOOLEAN]]
           /\ \A g \in Handles : files'[g].inode = NoId => files'[g] = NoFile
<1>1. s \in Sectors /\ s # NoId  BY FileSysAssumption DEF MemoryInv
<1>2. /\ DOMAIN files = Handles /\ files'[h].inode = NoId /\ files'[h] = NoFile
      /\ \A g \in Handles : g # h => files'[g] = files[g]
  BY DEF MemoryInv, NoFile
<1>3. s \in Opened  BY <1>1 DEF Opened
<1>4. \A t \in Sectors : t # s => HandlesOn(t)' = HandlesOn(t) /\ Deniers(t)' = Deniers(t)
  BY <1>1, <1>2, FileSysAssumption DEF HandlesOn, Deniers
<1>5. /\ HandlesOn(s)' = HandlesOn(s) \ {h} /\ h \in HandlesOn(s)
      /\ Deniers(s)' = Deniers(s) \ {h} /\ (h \in Deniers(s) <=> files[h].deny_write)
  BY <1>1, <1>2 DEF HandlesOn, Deniers
<1>6. ASSUME NEW S, IsFiniteSet(S), h \in S PROVE Cardinality(S \ {h}) = Cardinality(S) - 1
  BY <1>6, FS_RemoveElement
<1>7. Cardinality(HandlesOn(s)') = Cardinality(HandlesOn(s)) - 1
  BY <1>5, <1>6, HandlesFinite
<1>8. Cardinality(Deniers(s)') = Cardinality(Deniers(s)) - (IF files[h].deny_write THEN 1 ELSE 0)
  <2>1. CASE files[h].deny_write  BY <1>5, <1>6, <2>1, HandlesFinite
  <2>2. CASE ~ files[h].deny_write
    <3>1. Deniers(s)' = Deniers(s)  BY <1>5, <2>2
    <3> QED BY <3>1, <2>2, HandlesFinite
  <2> QED BY <2>1, <2>2
<1>9. Opened' \subseteq Opened /\ Opened \subseteq Opened' \union {s}
  BY <1>2 DEF Opened
<1>10. /\ files' \in [Handles -> [inode : Sectors \union {NoId}, pos : Nat, deny_write : BOOLEAN]]
       /\ \A g \in Handles : files'[g].inode = NoId => files'[g] = NoFile
  BY <1>2 DEF MemoryInv, Free, NoFile
<1> QED BY <1>1, <1>3, <1>4, <1>7, <1>8, <1>9, <1>10

-----------------------------------------------------------------------------
(* Inodes in memory.                                                       *)

InodeRec == [open_cnt : Int, removed : BOOLEAN, deny_write_cnt : Int, data : Inodes]

\* No file is open on an inode that is not in memory.
LEMMA NotOpen ==
    ASSUME CountInv, NEW s \in Sectors, s \notin DOMAIN inodes
    PROVE  Cardinality(HandlesOn(s)) = 0 /\ Cardinality(Deniers(s)) = 0
<1>1. HandlesOn(s) = {} /\ Deniers(s) = {}
  BY FileSysAssumption DEF CountInv, Opened, HandlesOn, Deniers
<1> QED BY <1>1, FS_EmptySet

\* The inode list i that inode_open(s) leaves.
Opens(i, s) ==
    /\ DOMAIN i = DOMAIN inodes \union {s} /\ i \in [DOMAIN i -> InodeRec]
    /\ \A t \in DOMAIN inodes : t # s => i[t] = inodes[t]
    /\ s \in DOMAIN inodes => /\ i[s].open_cnt = inodes[s].open_cnt + 1
                              /\ i[s].deny_write_cnt = inodes[s].deny_write_cnt
                              /\ i[s].removed = inodes[s].removed
    /\ s \notin DOMAIN inodes => /\ i[s].open_cnt = 1 /\ i[s].deny_write_cnt = 0
                                 /\ i[s].removed = FALSE
    /\ i[s].data = d_inode[s]

\* inode_open(s), of an inode that is in the list or not.
LEMMA OpensInode ==
    ASSUME MemoryInv, DiskInv, NEW s \in Sectors, NEW i, i = OpenInode(s)
    PROVE  Opens(i, s)
<1>1. /\ inodes \in [DOMAIN inodes -> InodeRec] /\ d_inode[s] \in Inodes
      /\ \A t \in DOMAIN inodes : inodes[t].data = d_inode[t]
  BY DEF MemoryInv, DiskInv, InodeRec
<1>2. CASE s \in DOMAIN inodes
  <2>1. i = [inodes EXCEPT ![s].open_cnt = @ + 1]
    BY <1>2 DEF OpenInode, inode_reopen
  <2>2. PICK r : r = [inodes[s] EXCEPT !.open_cnt = @ + 1]  OBVIOUS
  <2>3. /\ r \in InodeRec /\ r.open_cnt = inodes[s].open_cnt + 1 /\ r.data = inodes[s].data
        /\ r.deny_write_cnt = inodes[s].deny_write_cnt /\ r.removed = inodes[s].removed
    BY <1>1, <1>2, <2>2 DEF InodeRec
  <2>4. i = [inodes EXCEPT ![s] = r]  BY <2>1, <2>2
  <2> QED BY <1>1, <1>2, <2>3, <2>4 DEF Opens
<1>3. CASE s \notin DOMAIN inodes
  <2>1. PICK r : r = [open_cnt |-> 1, removed |-> FALSE, deny_write_cnt |-> 0,
                      data |-> d_inode[s]]
    OBVIOUS
  <2>2. /\ r \in InodeRec /\ r.open_cnt = 1 /\ r.data = d_inode[s]
        /\ r.deny_write_cnt = 0 /\ r.removed = FALSE
    BY <1>1, <2>1 DEF InodeRec
  <2>3. i = [t \in DOMAIN inodes \union {s} |-> IF t # s THEN inodes[t] ELSE r]
    BY <1>3, <2>1 DEF OpenInode, OpenInodeAgain
  <2> QED BY <1>1, <1>3, <2>2, <2>3 DEF Opens
<1> QED BY <1>2, <1>3

\* The inode list i differs in the counts and the mark of s.
Updated(i, s, open, deny, rm) ==
    /\ DOMAIN i = DOMAIN inodes /\ i \in [DOMAIN i -> InodeRec]
    /\ \A t \in DOMAIN inodes : t # s => i[t] = inodes[t]
    /\ i[s].data = inodes[s].data
    /\ i[s].open_cnt = open /\ i[s].deny_write_cnt = deny /\ i[s].removed = rm

\* Changing the counts of one in-memory inode leaves the others alone.
LEMMA ReplacesInode ==
    ASSUME MemoryInv, NEW s \in DOMAIN inodes, NEW r \in InodeRec, r.data = inodes[s].data,
           NEW i, i = [inodes EXCEPT ![s] = r]
    PROVE  Updated(i, s, r.open_cnt, r.deny_write_cnt, r.removed)
<1>1. inodes \in [DOMAIN inodes -> InodeRec]  BY DEF MemoryInv, InodeRec
<1> QED BY <1>1 DEF Updated

\* inode_reopen() and inode_close() change open_cnt of one inode.
LEMMA SetsOpenCnt ==
    ASSUME MemoryInv, NEW s \in DOMAIN inodes, NEW n \in Int,
           NEW i, i = [inodes EXCEPT ![s].open_cnt = n]
    PROVE  Updated(i, s, n, inodes[s].deny_write_cnt, inodes[s].removed)
<1>1. PICK r : r = inodes[s] /\ r \in InodeRec  BY DEF MemoryInv, InodeRec
<1>2. PICK x : x = [r EXCEPT !.open_cnt = n]  OBVIOUS
<1>3. /\ x \in InodeRec /\ x.data = r.data /\ x.open_cnt = n
      /\ x.deny_write_cnt = r.deny_write_cnt /\ x.removed = r.removed
  BY <1>1, <1>2 DEF InodeRec
<1>4. i = [inodes EXCEPT ![s] = x]  BY <1>1, <1>2
<1>5. Updated(i, s, x.open_cnt, x.deny_write_cnt, x.removed)
  BY <1>1, <1>3, <1>4, ReplacesInode
<1> QED BY <1>1, <1>3, <1>5

\* inode_deny_write() and inode_allow_write() change deny_write_cnt of one inode.
LEMMA SetsDenyCnt ==
    ASSUME MemoryInv, NEW s \in DOMAIN inodes, NEW n \in Int,
           NEW i, i = [inodes EXCEPT ![s].deny_write_cnt = n]
    PROVE  Updated(i, s, inodes[s].open_cnt, n, inodes[s].removed)
<1>1. PICK r : r = inodes[s] /\ r \in InodeRec  BY DEF MemoryInv, InodeRec
<1>2. PICK x : x = [r EXCEPT !.deny_write_cnt = n]  OBVIOUS
<1>3. /\ x \in InodeRec /\ x.data = r.data /\ x.deny_write_cnt = n
      /\ x.open_cnt = r.open_cnt /\ x.removed = r.removed
  BY <1>1, <1>2 DEF InodeRec
<1>4. i = [inodes EXCEPT ![s] = x]  BY <1>1, <1>2
<1>5. Updated(i, s, x.open_cnt, x.deny_write_cnt, x.removed)
  BY <1>1, <1>3, <1>4, ReplacesInode
<1> QED BY <1>1, <1>3, <1>5

\* inode_remove() marks one inode.
LEMMA SetsRemoved ==
    ASSUME MemoryInv, NEW s \in DOMAIN inodes, NEW i, i = [inodes EXCEPT ![s].removed = TRUE]
    PROVE  Updated(i, s, inodes[s].open_cnt, inodes[s].deny_write_cnt, TRUE)
<1>1. PICK r : r = inodes[s] /\ r \in InodeRec  BY DEF MemoryInv, InodeRec
<1>2. PICK x : x = [r EXCEPT !.removed = TRUE]  OBVIOUS
<1>3. /\ x \in InodeRec /\ x.data = r.data /\ x.deny_write_cnt = r.deny_write_cnt
      /\ x.open_cnt = r.open_cnt /\ x.removed = TRUE
  BY <1>1, <1>2 DEF InodeRec
<1>4. i = [inodes EXCEPT ![s] = x]  BY <1>1, <1>2
<1>5. Updated(i, s, x.open_cnt, x.deny_write_cnt, x.removed)
  BY <1>1, <1>3, <1>4, ReplacesInode
<1> QED BY <1>1, <1>3, <1>5

-----------------------------------------------------------------------------
(* Steps that give no sector a new owner.                                  *)

\* No operation that creates, removes or closes a file is under way.
Calm == op.kind \in {"none", "read", "write"} \/ (op.kind = "create" /\ op.at = "alloc")

\* Between calls every sector in use belongs to a file.
LEMMA CalmOwners ==
    /\ Calm => Busy = {} /\ Gone = {} /\ Fresh = {} /\ Held = Files
    /\ op = Idle => Calm
BY DEF Calm, Busy, Gone, Fresh, Held, Idle

\* The inodes that names, handles and calls refer to are sectors of the disk.
LEMMA FilesAreSectors ==
    ASSUME DiskInv, MemoryInv, OpInv
    PROVE  Linked \subseteq Sectors /\ Opened \subseteq Sectors /\ Files \subseteq Sectors
           /\ Busy \subseteq Sectors
<1>1. Linked \subseteq Sectors /\ Opened \subseteq Sectors
  BY DEF DiskInv, MemoryInv, Linked, Opened
<1>2. Busy \subseteq Sectors
  BY DEF OpInv, Busy, Idle, CreateOps, RemoveOps, CloseOps, TransferOps
<1> QED BY <1>1, <1>2 DEF Files

\* A step that allocates, frees and links nothing keeps every owner.
LEMMA OwnersKept ==
    ASSUME OwnInv, FreshInv, Accounted, UNCHANGED <<free_map, d_inode, leaked>>,
           Held' = Held, Gone' = Gone, Fresh' = Fresh
    PROVE  /\ OwnInv' /\ Accounted'
           /\ Fresh' \subseteq free_map' \ Reserved
           /\ \A s \in Held' : DiskSectors(s)' \intersect Fresh' = {}
<1>1. \A s : DiskSectors(s)' = DiskSectors(s)  BY DEF DiskSectors
<1> QED BY <1>1 DEF OwnInv, FreshInv, Accounted

\* A step that changes files and handles but no allocation keeps FSInv, whatever part of
\* the free map it leaves on disk.
LEMMA CalmMapStep ==
    ASSUME FSInv, UNCHANGED <<free_map, d_inode, d_dir, leaked>>,
           free_map \subseteq d_map', d_map' \subseteq Sectors,
           Calm, Calm', Files' = Files, OpInv', MemoryInv', CountInv',
           d_data' \in [Sectors -> [0 .. SECTOR_SIZE - 1 -> Bytes]],
           \A s \in DOMAIN inodes' : inodes'[s].removed => s \notin Linked
    PROVE  FSInv'
<1>1. DiskInv'  BY DEF FSInv, DiskInv
<1>2. /\ Busy = {} /\ Gone = {} /\ Fresh = {} /\ Held = Files
      /\ Busy' = {} /\ Gone' = {} /\ Fresh' = {} /\ Held' = Files'
  BY DEF Calm, Busy, Gone, Fresh, Held
<1>3. OwnInv' /\ Accounted'  BY <1>2, OwnersKept DEF FSInv
<1>4. FreshInv'  BY <1>2 DEF FreshInv, Calm
<1>5. Linked' = Linked  BY DEF Linked
<1>6. LinkInv'  BY <1>2, <1>5 DEF FSInv, LinkInv, Calm
<1> QED BY <1>1, <1>3, <1>4, <1>6 DEF FSInv

\* The same of a step that writes no free map.
LEMMA CalmStep ==
    ASSUME FSInv, UNCHANGED <<d_map, free_map, d_inode, d_dir, leaked>>,
           Calm, Calm', Files' = Files, OpInv', MemoryInv', CountInv',
           d_data' \in [Sectors -> [0 .. SECTOR_SIZE - 1 -> Bytes]],
           \A s \in DOMAIN inodes' : inodes'[s].removed => s \notin Linked
    PROVE  FSInv'
<1>1. free_map \subseteq d_map' /\ d_map' \subseteq Sectors  BY DEF FSInv, DiskInv
<1> QED BY <1>1, CalmMapStep

\* free_map_allocate() that cannot write the map, and free_map_release().
LEMMA MapWrites ==
    /\ DiskInv => \A cnt \in Int : AllocateFails(cnt) =>
          free_map' = free_map /\ free_map \subseteq d_map' /\ d_map' \subseteq Sectors
    /\ DiskInv => \A S : Release(S) =>
          free_map' = free_map \ S /\ free_map' \subseteq d_map' /\ d_map' \subseteq Sectors
<1>1. ASSUME DiskInv, NEW cnt \in Int, AllocateFails(cnt)
      PROVE  free_map' = free_map /\ free_map \subseteq d_map' /\ d_map' \subseteq Sectors
  <2>1. PICK R : R = FirstRun(cnt) .. FirstRun(cnt) + cnt - 1  OBVIOUS
  <2>2. R \subseteq Sectors  BY <1>1, <2>1, FirstRunFits DEF AllocateFails
  <2>3. free_map' = free_map /\ d_map' = Torn(free_map \union R)  BY <1>1, <2>1 DEF AllocateFails
  <2> QED BY <1>1, <2>2, <2>3 DEF Torn, DiskInv
<1>2. ASSUME DiskInv, NEW S, Release(S)
      PROVE  free_map' = free_map \ S /\ free_map' \subseteq d_map' /\ d_map' \subseteq Sectors
  <2>1. free_map' = free_map \ S /\ (d_map' = free_map' \/ d_map' = Torn(free_map'))
    BY <1>2 DEF Release
  <2> QED BY <1>2, <2>1 DEF Torn, DiskInv
<1> QED BY <1>1, <1>2

\* A file is opened, for the first time or once more.
LEMMA OpenStep ==
    ASSUME FSInv, op = Idle, UNCHANGED <<diskVars, free_map, op, leaked>>,
           NEW h \in Handles, Free(h), NEW s \in Files, inodes' = OpenInode(s),
           files' = [files EXCEPT ![h] = file_open(s)]
    PROVE  FSInv'
<1>0. /\ OpInv /\ DiskInv /\ MemoryInv /\ LinkInv /\ CountInv  BY DEF FSInv
<1>1. s \in Sectors /\ Linked \subseteq Sectors /\ Opened \subseteq Sectors
  BY <1>0, FilesAreSectors
<1>2. PICK i : i = OpenInode(s) /\ inodes' = i  OBVIOUS
<1>3. /\ DOMAIN i = DOMAIN inodes \union {s} /\ i \in [DOMAIN i -> InodeRec]
      /\ \A t \in DOMAIN inodes : t # s => i[t] = inodes[t]
      /\ s \in DOMAIN inodes => /\ i[s].open_cnt = inodes[s].open_cnt + 1
                                /\ i[s].deny_write_cnt = inodes[s].deny_write_cnt
                                /\ i[s].removed = inodes[s].removed
      /\ s \notin DOMAIN inodes => /\ i[s].open_cnt = 1 /\ i[s].deny_write_cnt = 0
                                   /\ i[s].removed = FALSE
      /\ i[s].data = d_inode[s]
  <2>1. Opens(i, s)  BY <1>0, <1>1, <1>2, OpensInode
  <2> QED BY <2>1 DEF Opens
<1>4. /\ \A t \in Sectors : t # s => HandlesOn(t)' = HandlesOn(t)
      /\ Cardinality(HandlesOn(s)') = Cardinality(HandlesOn(s)) + 1
      /\ \A t \in Sectors : Deniers(t)' = Deniers(t)
      /\ Opened' = Opened \union {s}
      /\ files' \in [Handles -> [inode : Sectors \union {NoId}, pos : Nat, deny_write : BOOLEAN]]
      /\ \A g \in Handles : files'[g].inode = NoId => files'[g] = NoFile
  BY <1>0, <1>1, OpenHandle
<1>5. op.kind = "none" /\ op' = op /\ Busy = {} /\ Busy' = {} /\ Calm /\ Calm'
  BY DEF Idle, Calm, Busy
<1>6. OpInv'  BY <1>0, <1>5 DEF OpInv
<1>7. MemoryInv'
  <2>1. \A t \in DOMAIN inodes' : t \in Sectors /\ inodes'[t].data = d_inode'[t]
    BY <1>0, <1>1, <1>2, <1>3 DEF MemoryInv, diskVars
  <2> QED BY <1>2, <1>3, <1>4, <2>1 DEF MemoryInv, InodeRec, Free
<1>8. CountInv'
  <2>1. \A t \in DOMAIN inodes \ {s} : t \in Sectors /\ inodes'[t] = inodes[t]
    BY <1>0, <1>2, <1>3 DEF MemoryInv
  <2>2. ASSUME NEW t \in DOMAIN inodes \ {s} PROVE Counted(t)'
    <3>1. Counted(t)  BY <1>0, <2>2 DEF CountInv
    <3> QED BY <2>1, <1>4, <1>5, <3>1 DEF Counted
  <2>3. Counted(s)'
    <3>1. CASE s \in DOMAIN inodes
      <4>1. Counted(s)  BY <1>0, <3>1 DEF CountInv
      <4> QED BY <3>1, <4>1, <1>1, <1>2, <1>3, <1>4, <1>5, HandlesFinite DEF Counted
    <3>2. CASE s \notin DOMAIN inodes
      <4>1. Cardinality(HandlesOn(s)) = 0 /\ Cardinality(Deniers(s)) = 0
        BY <1>0, <1>1, <3>2, NotOpen
      <4> QED BY <3>2, <4>1, <1>1, <1>2, <1>3, <1>4, <1>5 DEF Counted
    <3> QED BY <3>1, <3>2
  <2> QED BY <1>0, <1>2, <1>3, <1>4, <2>2, <2>3 DEF CountInv
<1>9. \A t \in DOMAIN inodes' : inodes'[t].removed => t \notin Linked
  BY <1>0, <1>2, <1>3 DEF LinkInv, CountInv, Files
<1>10. Files' = Files
  <2>1. Linked' = Linked  BY DEF Linked, diskVars
  <2> QED BY <2>1, <1>4 DEF Files
<1> QED BY <1>0, <1>5, <1>6, <1>7, <1>8, <1>9, <1>10, CalmStep DEF diskVars, DiskInv

-----------------------------------------------------------------------------
(* Transfers.                                                              *)

\* Offsets within one sector, and the sector of a byte below a length.
LEMMA Division ==
    ASSUME NEW S \in Nat \ {0}, NEW a \in Nat
    PROVE  /\ a \div S \in Nat /\ a % S \in 0 .. S - 1
           /\ a = S * (a \div S) + (a % S)
           /\ \A j \in Nat : (a % S) + j < S =>
                 (a + j) \div S = a \div S /\ (a + j) % S = (a % S) + j
           /\ \A b \in Nat : a < b => a \div S <= ((b + S - 1) \div S) - 1
<1>1. a \div S \in Nat /\ a % S \in 0 .. S - 1 /\ a = S * (a \div S) + (a % S)
  OBVIOUS
<1>2. ASSUME NEW j \in Nat, (a % S) + j < S
      PROVE  (a + j) \div S = a \div S /\ (a + j) % S = (a % S) + j
  BY <1>2
<1>3. ASSUME NEW b \in Nat, a < b PROVE a \div S <= ((b + S - 1) \div S) - 1
  BY <1>3
<1> QED BY <1>1, <1>2, <1>3

\* byte_to_sector() of a byte of the file.
LEMMA SectorOfByte ==
    ASSUME NEW d \in Inodes, NEW ofs \in Nat, ofs < d.length
    PROVE  sector_idx(d, ofs) \in DataSectors(d) /\ sector_idx(d, ofs) \in Int
<1>1. d.start \in Int /\ d.length \in Nat /\ SECTOR_SIZE \in Nat \ {0}
  BY FileSysAssumption DEF Inodes
<1>2. /\ ofs \div SECTOR_SIZE \in Nat
      /\ ofs \div SECTOR_SIZE <= bytes_to_sectors(d.length) - 1
  BY <1>1, Division DEF bytes_to_sectors
<1>3. bytes_to_sectors(d.length) \in Nat  BY <1>1, SizeInSectors
<1> QED BY <1>1, <1>2, <1>3 DEF sector_idx, DataSectors

\* One turn of the loop of inode_read_at() or inode_write_at() stays in the file and in
\* one of its sectors.
Fits(tr) ==
    /\ tr.d = d_inode[files[op.handle].inode] /\ tr.d \in Inodes
    /\ tr.ofs = files[op.handle].pos /\ tr.ofs \in Nat
    /\ tr.n \in Int /\ tr.n <= op.size /\ tr.n <= tr.d.length - tr.ofs
    /\ sector_ofs(tr.ofs) \in 0 .. SECTOR_SIZE - 1
    /\ tr.n <= SECTOR_SIZE - sector_ofs(tr.ofs)
    /\ tr.sector = sector_idx(tr.d, tr.ofs)
    /\ tr.n > 0 => tr.sector \in DataSectors(tr.d) /\ tr.sector \in Sectors

\* A turn of inode_read_at() and inode_write_at() stays within the sector and the file.
LEMMA TransferFits ==
    ASSUME FSInv, op.kind \in {"read", "write"}
    PROVE  Fits(Transfer) /\ op.handle \in Handles /\ op.size \in Nat
           /\ files[op.handle].inode \in Opened
<1>0. OpInv /\ DiskInv /\ MemoryInv /\ OwnInv /\ CountInv  BY DEF FSInv
<1>1. op \in TransferOps /\ op.handle \in Handles /\ op.size \in Nat /\ ~ Free(op.handle)
  BY <1>0 DEF OpInv, Idle, CreateOps, RemoveOps, CloseOps, TransferOps
<1>2. PICK s : s = files[op.handle].inode  OBVIOUS
<1>3. s \in Sectors /\ s \in Opened  BY <1>0, <1>1, <1>2, FileSysAssumption DEF MemoryInv, Opened
<1>4. s \in DOMAIN inodes /\ inodes[s].data = d_inode[s] /\ d_inode[s] \in Inodes
  BY <1>0, <1>3 DEF CountInv, MemoryInv, DiskInv
<1>5. PICK pos : pos = files[op.handle].pos /\ pos \in Nat
  BY <1>0, <1>1 DEF MemoryInv
<1>6. PICK d \in Inodes : d = inodes[s].data /\ d = d_inode[s]  BY <1>4
<1>7. PICK c : c = chunk_size(d, pos, op.size)  OBVIOUS
<1>8. Transfer = [d |-> d, ofs |-> pos, n |-> c, sector |-> sector_idx(d, pos)]
  BY <1>2, <1>5, <1>6, <1>7 DEF Transfer
<1>9. PICK tr : /\ tr = Transfer /\ tr.d = d /\ tr.ofs = pos /\ tr.n = c
                /\ tr.sector = sector_idx(d, pos)
  BY <1>8
<1>10. d.length \in Nat /\ SECTOR_SIZE \in Nat \ {0}  BY FileSysAssumption DEF Inodes
<1>11. sector_ofs(pos) \in 0 .. SECTOR_SIZE - 1  BY <1>5, <1>10, Division DEF sector_ofs
<1>12. /\ c \in Int /\ c <= op.size /\ c <= d.length - pos /\ c <= SECTOR_SIZE - sector_ofs(pos)
  BY <1>1, <1>5, <1>7, <1>10, <1>11 DEF chunk_size, MinOf
<1>13. c > 0 => sector_idx(d, pos) \in DataSectors(d) /\ sector_idx(d, pos) \in Sectors
  <2>1. SUFFICES ASSUME c > 0 PROVE sector_idx(d, pos) \in DataSectors(d)
                                     /\ sector_idx(d, pos) \in Sectors
    OBVIOUS
  <2>2. pos < d.length  BY <1>5, <1>10, <1>12, <2>1
  <2>3. sector_idx(d, pos) \in DataSectors(d)  BY <1>5, <2>2, SectorOfByte
  <2>4. s \in Held /\ s \notin Gone  BY <1>3, <1>0 DEF Held, Files, Gone
  <2>5. DiskSectors(s) \subseteq Sectors  BY <2>4, <1>0 DEF OwnInv, DiskInv
  <2> QED BY <2>3, <2>5, <1>6 DEF DiskSectors
<1>14. Fits(tr)  BY <1>2, <1>5, <1>6, <1>9, <1>11, <1>12, <1>13 DEF Fits
<1> QED BY <1>1, <1>2, <1>3, <1>9, <1>14

-----------------------------------------------------------------------------
(* Open files.                                                             *)

FileRec == [inode : Sectors \union {NoId}, pos : Nat, deny_write : BOOLEAN]

\* The handles f differ in the position and the deny_write of h.
Changed(f, h, b) ==
    /\ f \in [Handles -> FileRec]
    /\ \A g \in Handles : g # h => f[g] = files[g]
    /\ f[h].inode = files[h].inode /\ files[h].inode \in Sectors
    /\ f[h].deny_write = b

\* Changing one open file leaves the others alone.
LEMMA ReplacesHandle ==
    ASSUME MemoryInv, NEW h \in Handles, ~ Free(h), NEW r \in FileRec,
           r.inode = files[h].inode, NEW f, f = [files EXCEPT ![h] = r]
    PROVE  Changed(f, h, r.deny_write)
BY FileSysAssumption DEF MemoryInv, FileRec, Changed

\* file_seek() and the end of a turn change the position of one file.
LEMMA MovesHandle ==
    ASSUME MemoryInv, NEW h \in Handles, ~ Free(h), NEW n \in Nat,
           NEW f, f = [files EXCEPT ![h].pos = n]
    PROVE  Changed(f, h, files[h].deny_write) /\ f[h].pos = n
<1>1. PICK r : r = files[h] /\ r \in FileRec  BY DEF MemoryInv, FileRec
<1>2. PICK x : x = [r EXCEPT !.pos = n]  OBVIOUS
<1>3. x \in FileRec /\ x.inode = r.inode /\ x.deny_write = r.deny_write /\ x.pos = n
  BY <1>1, <1>2 DEF FileRec
<1>4. f = [files EXCEPT ![h] = x]  BY <1>1, <1>2
<1>5. Changed(f, h, x.deny_write)  BY <1>1, <1>3, <1>4, ReplacesHandle
<1>6. f[h] = x  BY <1>4 DEF MemoryInv
<1> QED BY <1>1, <1>3, <1>5, <1>6

\* file_deny_write() and file_allow_write() change the flag of one file.
LEMMA DeniesHandle ==
    ASSUME MemoryInv, NEW h \in Handles, ~ Free(h), NEW b \in BOOLEAN,
           NEW f, f = [files EXCEPT ![h].deny_write = b]
    PROVE  Changed(f, h, b)
<1>1. PICK r : r = files[h] /\ r \in FileRec  BY DEF MemoryInv, FileRec
<1>2. PICK x : x = [r EXCEPT !.deny_write = b]  OBVIOUS
<1>3. x \in FileRec /\ x.inode = r.inode /\ x.deny_write = b
  BY <1>1, <1>2 DEF FileRec
<1>4. f = [files EXCEPT ![h] = x]  BY <1>1, <1>2
<1>5. Changed(f, h, x.deny_write)  BY <1>1, <1>3, <1>4, ReplacesHandle
<1> QED BY <1>3, <1>5

\* A step that leaves the inodes and, positions apart, the handles as they are.
LEMMA SameCounts ==
    ASSUME MemoryInv, CountInv, OpInv, Calm, Calm', UNCHANGED <<inodes, d_inode, d_dir>>,
           files' \in [Handles -> FileRec],
           \A g \in Handles : /\ files'[g].inode = files[g].inode
                              /\ files'[g].deny_write = files[g].deny_write
                              /\ files'[g] = files[g] \/ ~ Free(g)
    PROVE  MemoryInv' /\ CountInv' /\ Files' = Files
<1>1. /\ \A s : HandlesOn(s)' = HandlesOn(s) /\ Deniers(s)' = Deniers(s)
      /\ Opened' = Opened
  BY SameHandles
<1>2. Busy = {} /\ Busy' = {}  BY DEF Calm, Busy
<1>3. \A s \in DOMAIN inodes : Counted(s) => Counted(s)'
  BY <1>1, <1>2 DEF Counted
<1>4. CountInv'  BY <1>1, <1>3 DEF CountInv
<1>5. MemoryInv'
  <2>1. \A g \in Handles : files'[g].inode = NoId => files'[g] = NoFile
    BY DEF MemoryInv, Free
  <2> QED BY <2>1 DEF MemoryInv, FileRec, Free
<1>6. Linked' = Linked  BY DEF Linked
<1> QED BY <1>1, <1>4, <1>5, <1>6 DEF Files

\* file_seek() keeps FSInv.
LEMMA SeekStep ==
    ASSUME FSInv, NEW h \in Handles, NEW pos \in Seeks, file_seek(h, pos)
    PROVE  FSInv'
<1>0. OpInv /\ DiskInv /\ MemoryInv /\ LinkInv /\ CountInv  BY DEF FSInv
<1>1. /\ op = Idle /\ op' = op /\ ~ Free(h) /\ files' = [files EXCEPT ![h].pos = pos]
      /\ UNCHANGED <<d_map, d_inode, d_data, d_dir, free_map, inodes, leaked>>
  BY DEF file_seek, diskVars, history
<1>2. PICK f : f = [files EXCEPT ![h].pos = pos]  OBVIOUS
<1>3. pos \in Nat  BY FileSysAssumption
<1>4. /\ f \in [Handles -> FileRec]
      /\ \A g \in Handles : g # h => f[g] = files[g]
      /\ f[h].inode = files[h].inode /\ f[h].deny_write = files[h].deny_write
  <2>1. Changed(f, h, files[h].deny_write)  BY <1>0, <1>1, <1>2, <1>3, MovesHandle
  <2> QED BY <2>1 DEF Changed
<1>5. Calm /\ Calm'  BY <1>1 DEF Calm, Idle
<1>6. MemoryInv' /\ CountInv' /\ Files' = Files
  BY <1>0, <1>1, <1>2, <1>4, <1>5, SameCounts
<1>7. OpInv'  BY <1>0, <1>1 DEF OpInv, Idle
<1> QED BY <1>0, <1>1, <1>5, <1>6, <1>7, CalmStep DEF DiskInv, LinkInv

\* file_deny_write() and file_allow_write().
LEMMA DenyStep ==
    ASSUME FSInv, NEW h \in Handles, file_deny_write(h) \/ file_allow_write(h)
    PROVE  FSInv'
<1>0. OpInv /\ DiskInv /\ MemoryInv /\ LinkInv /\ CountInv  BY DEF FSInv
<1>1. PICK b \in BOOLEAN : b <=> file_deny_write(h)  OBVIOUS
<1>2. PICK s : s = files[h].inode  OBVIOUS
<1>3. /\ op = Idle /\ op' = op /\ ~ Free(h) /\ files' = [files EXCEPT ![h].deny_write = b]
      /\ files[h].deny_write = ~ b
      /\ UNCHANGED <<d_map, d_inode, d_data, d_dir, free_map, leaked>>
  BY <1>0, <1>1 DEF file_deny_write, file_allow_write, diskVars, MemoryInv, history
<1>4. PICK f : f = [files EXCEPT ![h].deny_write = b] /\ f = files'  BY <1>3
<1>5. /\ f \in [Handles -> FileRec]
      /\ \A g \in Handles : g # h => f[g] = files[g]
      /\ f[h].inode = s /\ s \in Sectors /\ f[h].deny_write = b
  <2>1. Changed(f, h, b)  BY <1>0, <1>3, <1>4, DeniesHandle
  <2> QED BY <2>1, <1>2 DEF Changed
<1>6. s \in Opened /\ s \in DOMAIN inodes
  BY <1>0, <1>2, <1>5, FileSysAssumption DEF Opened, CountInv
<1>7. PICK n \in Int : n = inodes[s].deny_write_cnt + (IF b THEN 1 ELSE -1)
  BY <1>0, <1>6 DEF MemoryInv
<1>8. inodes' = [inodes EXCEPT ![s].deny_write_cnt = n]
  BY <1>1, <1>2, <1>3, <1>7 DEF file_deny_write, file_allow_write, inode_deny_write, Allowed, history
<1>9. /\ DOMAIN inodes' = DOMAIN inodes /\ inodes' \in [DOMAIN inodes' -> InodeRec]
      /\ \A t \in DOMAIN inodes : t # s => inodes'[t] = inodes[t]
      /\ inodes'[s].data = inodes[s].data
      /\ inodes'[s].deny_write_cnt = n /\ inodes'[s].open_cnt = inodes[s].open_cnt
      /\ inodes'[s].removed = inodes[s].removed
  <2>1. PICK i : i = inodes'  OBVIOUS
  <2>2. Updated(i, s, inodes[s].open_cnt, n, inodes[s].removed)
    BY <1>0, <1>6, <1>8, <2>1, SetsDenyCnt
  <2> QED BY <2>1, <2>2 DEF Updated
<1>10. Calm /\ Calm' /\ Busy = {} /\ Busy' = {}  BY <1>3 DEF Calm, Idle, Busy
<1>11. OpInv'  BY <1>0, <1>3 DEF OpInv, Idle
<1>12. MemoryInv'
  <2>1. \A g \in Handles : files'[g].inode = NoId => files'[g] = NoFile
    BY <1>0, <1>4, <1>5, FileSysAssumption DEF MemoryInv, Free
  <2>2. \A t \in DOMAIN inodes' : t \in Sectors /\ inodes'[t].data = d_inode'[t]
    BY <1>0, <1>3, <1>9 DEF MemoryInv
  <2> QED BY <1>4, <1>5, <1>9, <2>1, <2>2 DEF MemoryInv, FileRec, InodeRec, Free
<1>13. /\ \A t : HandlesOn(t)' = HandlesOn(t)
       /\ \A t : t # s => Deniers(t)' = Deniers(t)
       /\ Opened' = Opened
  BY <1>0, <1>2, <1>4, <1>5 DEF HandlesOn, Deniers, Opened, MemoryInv
<1>14. Cardinality(Deniers(s)') = Cardinality(Deniers(s)) + (IF b THEN 1 ELSE -1)
  <2> DEFINE D == Deniers(s)
  <2>1. IsFiniteSet(D) /\ Cardinality(D) \in Nat  BY HandlesFinite
  <2>2. CASE b
    <3>1. Deniers(s)' = D \union {h} /\ h \notin D
      BY <1>2, <1>3, <1>4, <1>5, <2>2 DEF HandlesOn, Deniers
    <3>2. Cardinality(D \union {h}) = Cardinality(D) + 1
      <4> HIDE DEF D
      <4> QED BY <2>1, <3>1, FS_AddElement
    <3> QED BY <2>2, <3>1, <3>2
  <2>3. CASE ~ b
    <3>1. Deniers(s)' = D \ {h} /\ h \in D
      BY <1>2, <1>3, <1>4, <1>5, <2>3 DEF HandlesOn, Deniers
    <3>2. Cardinality(D \ {h}) = Cardinality(D) - 1
      <4> HIDE DEF D
      <4> QED BY <2>1, <3>1, FS_RemoveElement
    <3> QED BY <2>1, <2>3, <3>1, <3>2
  <2> QED BY <2>2, <2>3
<1>15. CountInv'
  <2>1. ASSUME NEW t \in DOMAIN inodes PROVE Counted(t)'
    <3>1. Counted(t)  BY <1>0, <2>1 DEF CountInv
    <3>2. CASE t = s  BY <1>6, <1>7, <1>9, <1>10, <1>13, <1>14, <3>1, <3>2, HandlesFinite DEF Counted
    <3>3. CASE t # s  BY <1>9, <1>10, <1>13, <3>1, <3>3 DEF Counted
    <3> QED BY <3>2, <3>3
  <2> QED BY <1>0, <1>9, <1>13, <2>1 DEF CountInv
<1>16. Files' = Files
  <2>1. Linked' = Linked  BY <1>3 DEF Linked
  <2> QED BY <2>1, <1>13 DEF Files
<1>17. \A t \in DOMAIN inodes' : inodes'[t].removed => t \notin Linked
  BY <1>0, <1>9 DEF LinkInv
<1> QED BY <1>0, <1>3, <1>10, <1>11, <1>12, <1>15, <1>16, <1>17, CalmStep DEF DiskInv

\* filesys_open() and file_reopen() keep FSInv.
LEMMA OpenActions ==
    ASSUME FSInv, NEW h \in Handles,
           (\E n \in Names : Open(n, h)) \/ (\E g \in Handles : Reopen(g, h))
    PROVE  FSInv'
<1>0. OpInv /\ DiskInv /\ MemoryInv /\ LinkInv /\ CountInv  BY DEF FSInv
<1>1. ASSUME NEW n \in Names, Open(n, h) PROVE FSInv'
  <2>1. PICK s \in dir_lookup(n) : inodes' = OpenInode(s) /\ files' = [files EXCEPT ![h] = file_open(s)]
    BY <1>1 DEF Open, history
  <2>2. s \in Files  BY DEF dir_lookup, lookup, Entries, Files, Linked
  <2>3. op = Idle /\ Free(h) /\ UNCHANGED <<diskVars, free_map, op, leaked>>  BY <1>1 DEF Open, history
  <2> QED BY <2>1, <2>2, <2>3, OpenStep
<1>2. ASSUME NEW g \in Handles, Reopen(g, h) PROVE FSInv'
  <2>1. PICK s : s = files[g].inode  OBVIOUS
  <2>2. /\ op = Idle /\ Free(h) /\ UNCHANGED <<diskVars, free_map, op, leaked>>
        /\ inodes' = inode_reopen(s) /\ files' = [files EXCEPT ![h] = file_open(s)] /\ ~ Free(g)
    BY <1>2, <2>1 DEF Reopen, history
  <2>3. s \in Opened /\ s \in DOMAIN inodes
    BY <1>0, <2>1, <2>2 DEF MemoryInv, Opened, CountInv
  <2>4. inodes' = OpenInode(s)  BY <2>2, <2>3 DEF OpenInode
  <2> QED BY <2>2, <2>3, <2>4, OpenStep DEF Files
<1> QED BY <1>1, <1>2

\* An operation begins that has not touched anything yet.
LEMMA BeginStep ==
    ASSUME FSInv, op = Idle, op' \in CreateOps \union TransferOps, Calm',
           op'.kind \in {"read", "write"} => ~ Free(op'.handle),
           op'.kind = "write" => Len(op'.buffer) = op'.size,
           UNCHANGED <<diskVars, memVars, leaked>>
    PROVE  FSInv'
<1>0. OpInv /\ DiskInv /\ MemoryInv /\ LinkInv /\ CountInv  BY DEF FSInv
<1>1. UNCHANGED <<d_map, d_inode, d_data, d_dir, free_map, inodes, files, leaked>>
  BY DEF diskVars, memVars
<1>2. Calm  BY DEF Calm, Idle
<1>3. OpInv'  BY <1>1 DEF OpInv, Free
<1>4. files' \in [Handles -> FileRec]  BY <1>0, <1>1 DEF MemoryInv, FileRec
<1>5. MemoryInv' /\ CountInv' /\ Files' = Files
  BY <1>0, <1>1, <1>2, <1>4, SameCounts
<1> QED BY <1>0, <1>1, <1>2, <1>3, <1>5, CalmStep DEF DiskInv, LinkInv

\* The beginnings of filesys_create(), file_read() and file_write() keep FSInv.
LEMMA BeginActions ==
    ASSUME FSInv,
           \/ \E n \in Names, size \in Sizes : Create(n, size)
           \/ \E h \in Handles, size \in Reads : Read(h, size)
           \/ \E h \in Handles, buf \in Buffers : Write(h, buf)
    PROVE  FSInv'
<1>1. ASSUME NEW n \in Names, NEW size \in Sizes, Create(n, size) PROVE FSInv'
  <2>1. /\ op = Idle /\ UNCHANGED <<diskVars, memVars, leaked>>
        /\ op' = [kind |-> "create", at |-> "alloc", name |-> n, size |-> size,
                  sector |-> 0, start |-> 0, next |-> 0]
    BY <1>1 DEF Create, Begin, history
  <2>2. 0 \in Sectors  BY FileSysAssumption DEF Sectors
  <2>3. op' \in CreateOps /\ Calm' /\ op'.kind = "create"  BY <2>1, <2>2 DEF CreateOps, Calm
  <2> QED BY <2>1, <2>3, BeginStep
<1>2. ASSUME NEW h \in Handles, NEW size \in Reads, Read(h, size) PROVE FSInv'
  <2>1. /\ op = Idle /\ UNCHANGED <<diskVars, memVars, leaked>> /\ ~ Free(h)
        /\ op' = [kind |-> "read", at |-> "chunk", handle |-> h, size |-> size,
                  buffer |-> << >>, bounce |-> FALSE]
    BY <1>2 DEF Read, Begin, history
  <2>2. << >> \in Seq(Bytes) /\ size \in Nat  BY FileSysAssumption
  <2>3. op' \in TransferOps /\ Calm' /\ op'.kind = "read" /\ op'.handle = h
    BY <2>1, <2>2 DEF TransferOps, Calm
  <2> QED BY <2>1, <2>3, BeginStep
<1>3. ASSUME NEW h \in Handles, NEW buf \in Buffers, Write(h, buf) PROVE FSInv'
  <2>1. /\ op = Idle /\ UNCHANGED <<diskVars, memVars, leaked>> /\ ~ Free(h)
        /\ op' = [kind |-> "write", at |-> "chunk", handle |-> h, size |-> Len(buf),
                  buffer |-> buf, bounce |-> FALSE]
    BY <1>3 DEF Write, Begin, history
  <2>2. buf \in Seq(Bytes) /\ Len(buf) \in Nat  BY FileSysAssumption
  <2>3. op' \in TransferOps /\ Calm' /\ op'.kind = "write" /\ op'.handle = h
        /\ Len(op'.buffer) = op'.size
    BY <2>1, <2>2 DEF TransferOps, Calm
  <2> QED BY <2>1, <2>3, BeginStep
<1> QED BY <1>1, <1>2, <1>3

\* The operation that one turn of the loop leaves.
Advanced(o, n, buf) ==
    /\ o \in TransferOps /\ o.kind = op.kind /\ o.at = op.at /\ o.handle = op.handle
    /\ o.size = op.size - n /\ o.buffer = buf

\* The end of a turn of a transfer keeps FSInv and moves the file by what was transferred.
LEMMA AdvanceStep ==
    ASSUME FSInv, op.kind \in {"read", "write"}, NEW n \in Nat, n <= op.size,
           NEW buf \in Seq(Bytes), op.kind = "write" => Len(buf) = op.size - n,
           Advance(n, buf), d_data' \in [Sectors -> [0 .. SECTOR_SIZE - 1 -> Bytes]],
           UNCHANGED <<d_map, d_inode, d_dir, free_map, inodes, leaked>>
    PROVE  /\ FSInv' /\ Advanced(op', n, buf)
           /\ Changed(files', op.handle, files[op.handle].deny_write)
           /\ files'[op.handle].pos = files[op.handle].pos + n
<1>0. OpInv /\ DiskInv /\ MemoryInv /\ LinkInv /\ CountInv  BY DEF FSInv
<1>1. op \in TransferOps /\ op.handle \in Handles /\ op.size \in Nat /\ ~ Free(op.handle)
      /\ op.bounce \in BOOLEAN
  BY <1>0 DEF OpInv, Idle, CreateOps, RemoveOps, CloseOps, TransferOps
<1>2. PICK h \in Handles : h = op.handle /\ ~ Free(h)  BY <1>1
<1>3. PICK m \in Nat : m = files[h].pos + n  BY <1>0 DEF MemoryInv
<1>4. PICK f : f = files' /\ f = [files EXCEPT ![h].pos = m]  BY <1>2, <1>3 DEF Advance
<1>5. Changed(f, h, files[h].deny_write) /\ f[h].pos = m
  BY <1>0, <1>2, <1>4, MovesHandle
<1>6. PICK b \in BOOLEAN : b = (op.bounce \/ n < SECTOR_SIZE)  BY <1>1
<1>7. PICK k \in Nat : k = op.size - n  BY <1>1
<1>8. PICK o : o = op' /\ o = [op EXCEPT !.size = k, !.buffer = buf, !.bounce = b]
  BY <1>6, <1>7 DEF Advance
<1>9. Advanced(o, n, buf)  BY <1>1, <1>7, <1>8 DEF Advanced, TransferOps
<1>10. Calm /\ Calm'  BY <1>8, <1>9 DEF Calm, Advanced
<1>11. f \in [Handles -> FileRec] /\ f[h].inode \in Sectors
       /\ \A g \in Handles : /\ f[g].inode = files[g].inode
                             /\ f[g].deny_write = files[g].deny_write
                             /\ f[g] = files[g] \/ ~ Free(g)
  BY <1>2, <1>5 DEF Changed
<1>12. MemoryInv' /\ CountInv' /\ Files' = Files
  BY <1>0, <1>4, <1>10, <1>11, SameCounts
<1>13. files'[h] # NoFile
  <2>1. f[h].inode # NoFile.inode  BY <1>11, FileSysAssumption DEF NoFile
  <2> QED BY <1>4, <2>1
<1>14. OpInv'  BY <1>2, <1>8, <1>9, <1>13 DEF OpInv, Advanced, Free, Idle
<1>15. FSInv'  BY <1>0, <1>10, <1>12, <1>14, CalmStep DEF LinkInv
<1> QED BY <1>2, <1>3, <1>4, <1>5, <1>8, <1>9, <1>15

\* The end of the loop of a transfer, and the return of file_read() and file_write().
LEMMA TransferEndsStep ==
    ASSUME FSInv, TransferEnds \/ TransferStarves \/ TransferReturns
    PROVE  FSInv'
<1>0. OpInv /\ DiskInv /\ MemoryInv /\ LinkInv /\ CountInv  BY DEF FSInv
<1>1. /\ op.kind \in {"read", "write"}
      /\ UNCHANGED <<d_map, d_inode, d_data, d_dir, free_map, inodes, files, leaked>>
      /\ \/ op' = Idle
         \/ \E a \in {"done", "starved"} : op' = [op EXCEPT !.at = a]
  BY DEF TransferEnds, TransferStarves, TransferReturns, Chunks, Goto, diskVars, memVars, history
<1>2. op \in TransferOps /\ ~ Free(op.handle) /\ (op.kind = "write" => Len(op.buffer) = op.size)
  BY <1>0, <1>1 DEF OpInv, Idle, CreateOps, RemoveOps, CloseOps, TransferOps
<1>3. \/ op' = Idle
      \/ /\ op' \in TransferOps /\ op'.kind = op.kind /\ op'.handle = op.handle
         /\ op'.buffer = op.buffer /\ op'.size = op.size
  <2>1. ASSUME NEW a \in {"done", "starved"}, op' = [op EXCEPT !.at = a]
        PROVE  /\ op' \in TransferOps /\ op'.kind = op.kind /\ op'.handle = op.handle
               /\ op'.buffer = op.buffer /\ op'.size = op.size
    <3>1. PICK o : o = op' /\ o = [op EXCEPT !.at = a]  BY <2>1
    <3> QED BY <1>2, <3>1 DEF TransferOps
  <2> QED BY <1>1, <2>1
<1>4. Calm /\ Calm'  BY <1>1, <1>3 DEF Calm, Idle
<1>5. OpInv'  BY <1>1, <1>2, <1>3 DEF OpInv, Idle, Free
<1>6. files' \in [Handles -> FileRec]  BY <1>0, <1>1 DEF MemoryInv, FileRec
<1>7. MemoryInv' /\ CountInv' /\ Files' = Files
  BY <1>0, <1>1, <1>4, <1>6, SameCounts
<1> QED BY <1>0, <1>1, <1>4, <1>5, <1>7, CalmStep DEF DiskInv, LinkInv

\* The bytes one turn of inode_read_at() copies.
LEMMA ChunkRead ==
    ASSUME FSInv, op.kind = "read", NEW tr, tr = Transfer, tr.n > 0,
           NEW got, got = [i \in 1 .. tr.n |-> d_data[tr.sector][sector_ofs(tr.ofs) + i - 1]]
    PROVE  got \in Seq(Bytes) /\ Len(got) = tr.n /\ op.buffer \in Seq(Bytes)
           /\ op.buffer \o got \in Seq(Bytes)
<1>0. OpInv /\ DiskInv  BY DEF FSInv
<1>1. Fits(tr) /\ tr.n \in Nat  BY TransferFits DEF Fits
<1>2. PICK ofs \in 0 .. SECTOR_SIZE - 1 : ofs = sector_ofs(tr.ofs)  BY <1>1 DEF Fits
<1>3. d_data[tr.sector] \in [0 .. SECTOR_SIZE - 1 -> Bytes]
  BY <1>0, <1>1 DEF Fits, DiskInv
<1>4. SECTOR_SIZE \in Nat  BY FileSysAssumption
<1>5. \A i \in 1 .. tr.n : ofs + i - 1 \in 0 .. SECTOR_SIZE - 1
  BY <1>1, <1>2, <1>4 DEF Fits
<1>6. \A i \in 1 .. tr.n : d_data[tr.sector][ofs + i - 1] \in Bytes
  BY <1>3, <1>5
<1>7. got \in Seq(Bytes) /\ Len(got) = tr.n  BY <1>1, <1>2, <1>6
<1>8. op.buffer \in Seq(Bytes)
  BY <1>0 DEF OpInv, Idle, CreateOps, RemoveOps, CloseOps, TransferOps
<1>9. \A x, y \in Seq(Bytes) : x \o y \in Seq(Bytes)  OBVIOUS
<1> QED BY <1>7, <1>8, <1>9

\* A turn of inode_read_at() keeps FSInv.
LEMMA ReadChunkStep ==
    ASSUME FSInv, ReadChunk
    PROVE  FSInv'
<1>0. DiskInv  BY DEF FSInv
<1>1. PICK tr : tr = Transfer  OBVIOUS
<1>2. PICK got : got = [i \in 1 .. tr.n |-> d_data[tr.sector][sector_ofs(tr.ofs) + i - 1]]
  OBVIOUS
<1>3. /\ op.kind = "read" /\ tr.n > 0 /\ Advance(tr.n, op.buffer \o got)
      /\ UNCHANGED <<d_map, d_inode, d_data, d_dir, free_map, inodes, leaked>>
  BY <1>1, <1>2 DEF ReadChunk, At, diskVars, history
<1>4. op.buffer \o got \in Seq(Bytes)  BY <1>1, <1>2, <1>3, ChunkRead
<1>5. Fits(tr) /\ tr.n \in Nat /\ tr.n <= op.size  BY <1>1, <1>3, TransferFits DEF Fits
<1> QED BY <1>0, <1>3, <1>4, <1>5, AdvanceStep DEF DiskInv

\* A sector that one turn of inode_write_at() leaves.
LEMMA OverlayBytes ==
    ASSUME NEW old \in [0 .. SECTOR_SIZE - 1 -> Bytes], NEW ofs \in 0 .. SECTOR_SIZE - 1,
           NEW n \in Nat, NEW buf \in Seq(Bytes), n <= Len(buf)
    PROVE  Overlay(old, ofs, n, buf) \in [0 .. SECTOR_SIZE - 1 -> Bytes]
<1>1. Zeros \in [0 .. SECTOR_SIZE - 1 -> Bytes]  BY FileSysAssumption DEF Zeros
<1>2. \A i \in ofs .. ofs + n - 1 : buf[i - ofs + 1] \in Bytes
  <2>1. ASSUME NEW i \in ofs .. ofs + n - 1 PROVE i - ofs + 1 \in 1 .. Len(buf)
    BY FileSysAssumption
  <2> QED BY <2>1
<1>3. PICK base \in [0 .. SECTOR_SIZE - 1 -> Bytes] :
         base = IF ofs > 0 \/ n < SECTOR_SIZE - ofs THEN old ELSE Zeros
  BY <1>1
<1> QED BY <1>2, <1>3 DEF Overlay

\* A turn of inode_write_at() keeps FSInv.
LEMMA WriteChunkStep ==
    ASSUME FSInv, WriteChunk
    PROVE  FSInv'
<1>0. DiskInv /\ OpInv  BY DEF FSInv
<1>1. PICK tr : tr = Transfer  OBVIOUS
<1>2. /\ op.kind = "write" /\ tr.n > 0
      /\ Advance(tr.n, SubSeq(op.buffer, tr.n + 1, Len(op.buffer)))
      /\ d_data' = [d_data EXCEPT ![tr.sector] =
                      Overlay(d_data[tr.sector], sector_ofs(tr.ofs), tr.n, op.buffer)]
      /\ UNCHANGED <<d_map, d_inode, d_dir, free_map, inodes, leaked>>
  BY <1>1 DEF WriteChunk, At, history
<1>3. Fits(tr) /\ tr.n \in Nat /\ tr.n <= op.size  BY <1>1, <1>2, TransferFits DEF Fits
<1>4. op.buffer \in Seq(Bytes) /\ Len(op.buffer) = op.size /\ op.size \in Nat
  BY <1>0, <1>2 DEF OpInv, Idle, CreateOps, RemoveOps, CloseOps, TransferOps
<1>5. PICK buf : buf = SubSeq(op.buffer, tr.n + 1, Len(op.buffer))  OBVIOUS
<1>6. buf \in Seq(Bytes) /\ Len(buf) = op.size - tr.n
  <2>1. PICK b \in Seq(Bytes) : b = op.buffer  BY <1>4
  <2>2. PICK k \in Nat : k = tr.n /\ k <= Len(b)  BY <1>3, <1>4, <2>1
  <2>3. SubSeq(b, k + 1, Len(b)) \in Seq(Bytes) /\ Len(SubSeq(b, k + 1, Len(b))) = Len(b) - k
    BY <2>2
  <2> QED BY <1>4, <1>5, <2>1, <2>2, <2>3
<1>7. /\ tr.sector \in Sectors /\ d_data[tr.sector] \in [0 .. SECTOR_SIZE - 1 -> Bytes]
      /\ sector_ofs(tr.ofs) \in 0 .. SECTOR_SIZE - 1
  BY <1>0, <1>2, <1>3 DEF Fits, DiskInv
<1>8. Overlay(d_data[tr.sector], sector_ofs(tr.ofs), tr.n, op.buffer)
        \in [0 .. SECTOR_SIZE - 1 -> Bytes]
  BY <1>3, <1>4, <1>7, OverlayBytes
<1>9. d_data' \in [Sectors -> [0 .. SECTOR_SIZE - 1 -> Bytes]]
  BY <1>0, <1>2, <1>8 DEF DiskInv
<1> QED BY <1>2, <1>3, <1>5, <1>6, <1>9, AdvanceStep

-----------------------------------------------------------------------------
(* filesys_create().                                                       *)

\* What a filesys_create() that has begun works with.
LEMMA Creating ==
    ASSUME OpInv, op.kind = "create"
    PROVE  /\ op \in CreateOps /\ op.sector \in Sectors /\ op.size \in Sizes /\ op.size \in Nat
           /\ op.start \in Int /\ op.next \in Int /\ op.name \in Names
           /\ Busy = {} /\ Gone = {} /\ Held = Files
           /\ NewInode \in Inodes
<1>1. op \in CreateOps
  BY DEF OpInv, Idle, CreateOps, RemoveOps, CloseOps, TransferOps
<1>2. /\ op.sector \in Sectors /\ op.size \in Sizes /\ op.size \in Nat
      /\ op.start \in Int /\ op.next \in Int /\ op.name \in Names
  BY <1>1, FileSysAssumption DEF CreateOps
<1>3. NewInode \in Inodes  BY <1>2 DEF NewInode, Inodes
<1> QED BY <1>1, <1>2, <1>3 DEF Busy, Gone, Held

\* What a step of create leaves alone in memory.
LEMMA CreateMemory ==
    ASSUME FSInv, op.kind = "create", UNCHANGED <<inodes, files>>,
           op' = Idle \/ op' \in CreateOps,
           \A s \in DOMAIN inodes : d_inode'[s] = d_inode[s]
    PROVE  /\ OpInv' /\ MemoryInv' /\ CountInv' /\ Opened' = Opened
           /\ Busy' = {} /\ Gone' = {} /\ Held' = Files'
           /\ op'.kind \in {"none", "create"}
<1>0. OpInv /\ MemoryInv /\ CountInv  BY DEF FSInv
<1>1. op'.kind \in {"none", "create"}  BY DEF Idle, CreateOps
<1>2. Busy' = {} /\ Gone' = {} /\ Held' = Files' /\ Busy = {}
  BY <1>1 DEF Busy, Gone, Held
<1>3. OpInv'  BY <1>1 DEF OpInv
<1>4. MemoryInv'  BY <1>0 DEF MemoryInv, Free
<1>5. Opened' = Opened /\ \A s : HandlesOn(s)' = HandlesOn(s) /\ Deniers(s)' = Deniers(s)
  BY DEF Opened, HandlesOn, Deniers
<1>6. CountInv'  BY <1>0, <1>2, <1>5 DEF CountInv, Counted
<1> QED BY <1>1, <1>2, <1>3, <1>4, <1>5, <1>6

\* No inode is opened, linked or unlinked.
LEMMA CreateLinks ==
    ASSUME FSInv, op'.kind \in {"none", "create"}, UNCHANGED <<d_dir, inodes>>, Busy' = {}
    PROVE  LinkInv' /\ Linked' = Linked
<1>1. Linked' = Linked  BY DEF Linked
<1> QED BY <1>1 DEF FSInv, LinkInv

\* free_map_allocate() for the file being created.
LEMMA AllocateStep ==
    ASSUME FSInv, op.kind = "create", NEW R \in SUBSET Sectors, R \intersect free_map = {},
           free_map' = free_map \union R, d_map' = free_map', Fresh' = Fresh \union R,
           Files' = Files, Gone' = {}, Held' = Files',
           UNCHANGED <<d_inode, d_data, d_dir, leaked>>
    PROVE  /\ DiskInv' /\ OwnInv' /\ Accounted'
           /\ Fresh' \subseteq free_map' \ Reserved
           /\ \A s \in Held' : DiskSectors(s)' \intersect Fresh' = {}
<1>0. OpInv /\ DiskInv /\ OwnInv /\ FreshInv /\ Accounted  BY DEF FSInv
<1>1. Gone = {} /\ Held = Files  BY <1>0, Creating
<1>2. d_map' = free_map \union R /\ free_map' = free_map \union R /\ R \intersect free_map = {}
  OBVIOUS
<1>3. \A s : DiskSectors(s)' = DiskSectors(s)  BY DEF DiskSectors
<1>4. DiskInv'  BY <1>0, <1>2 DEF DiskInv
<1>5. OwnInv'  BY <1>0, <1>1, <1>2, <1>3 DEF OwnInv
<1>6. Accounted'  BY <1>0, <1>1, <1>2, <1>3 DEF Accounted
<1>7. Fresh' \subseteq free_map' \ Reserved  BY <1>0, <1>2 DEF FreshInv, DiskInv
<1>8. \A s \in Held' : DiskSectors(s)' \intersect Fresh' = {}
  BY <1>0, <1>1, <1>2, <1>3 DEF FreshInv, OwnInv
<1> QED BY <1>4, <1>5, <1>6, <1>7, <1>8

\* filesys_create() taking the inode's sector keeps FSInv.
LEMMA CreateAllocStep ==
    ASSUME FSInv, CreateAlloc
    PROVE  FSInv'
<1>0. OpInv /\ DiskInv /\ MemoryInv /\ LinkInv /\ CountInv  BY DEF FSInv
<1>1. /\ op.kind = "create" /\ op.at = "alloc"
      /\ UNCHANGED <<d_inode, d_data, d_dir, inodes, files, leaked>>
  BY DEF CreateAlloc, At, history
<1>2. op \in CreateOps /\ Calm /\ Fresh = {} /\ Held = Files
  BY <1>0, <1>1, Creating DEF Calm, Fresh
<1>3. CASE op' = Idle /\ (UNCHANGED <<d_map, free_map>> \/ AllocateFails(1))
  <2>1. free_map' = free_map /\ free_map \subseteq d_map' /\ d_map' \subseteq Sectors
    BY <1>0, <1>3, MapWrites DEF DiskInv
  <2>2. /\ OpInv' /\ MemoryInv' /\ CountInv' /\ Opened' = Opened
    BY <1>1, <1>3, CreateMemory
  <2>3. Files' = Files  BY <1>1, <2>2 DEF Files, Linked
  <2>4. Calm'  BY <1>3 DEF Calm, Idle
  <2> QED BY <1>0, <1>1, <1>2, <2>1, <2>2, <2>3, <2>4, CalmMapStep DEF DiskInv, LinkInv
<1>4. CASE ~ (op' = Idle /\ (UNCHANGED <<d_map, free_map>> \/ AllocateFails(1)))
  <2>0. Runs(1) # {}  BY <1>4 DEF CreateAlloc, history
  <2>1. PICK s : s = FirstRun(1)  OBVIOUS
  <2>2. /\ free_map' = free_map \union (s .. s + 1 - 1) /\ d_map' = free_map'
        /\ op' = [op EXCEPT !.at = "data", !.sector = s]
    BY <1>4, <2>1 DEF CreateAlloc, Allocate, history
  <2>3. /\ s \in Sectors /\ s .. s + 1 - 1 \subseteq Sectors
        /\ (s .. s + 1 - 1) \intersect free_map = {} /\ s \in Int
    BY <2>0, <2>1, FirstRunFits
  <2>4. s .. s + 1 - 1 = {s}  BY <2>3
  <2>5. op' \in CreateOps /\ op'.kind = "create" /\ op'.at = "data" /\ op'.sector = s
    <3>1. PICK o : o = [op EXCEPT !.at = "data", !.sector = s]  OBVIOUS
    <3> QED BY <1>1, <1>2, <2>2, <2>3, <3>1 DEF CreateOps
  <2>6. Fresh' = {s}  BY <2>5 DEF Fresh
  <2>7. /\ OpInv' /\ MemoryInv' /\ CountInv' /\ Opened' = Opened
        /\ Busy' = {} /\ Gone' = {} /\ Held' = Files'
    BY <1>1, <2>5, CreateMemory
  <2>8. LinkInv' /\ Linked' = Linked  BY <1>1, <2>5, <2>7, CreateLinks
  <2>9. Files' = Files  BY <2>7, <2>8 DEF Files
  <2>10. /\ DiskInv' /\ OwnInv' /\ Accounted' /\ Fresh' \subseteq free_map' \ Reserved
         /\ \A t \in Held' : DiskSectors(t)' \intersect Fresh' = {}
    BY <1>1, <1>2, <2>2, <2>3, <2>4, <2>6, <2>7, <2>9, AllocateStep
  <2>11. FreshInv'  BY <2>5, <2>10 DEF FreshInv
  <2> QED BY <2>7, <2>8, <2>10, <2>11 DEF FSInv
<1> QED BY <1>3, <1>4

\* inode_create() taking the data sectors keeps FSInv.
LEMMA CreateDataStep ==
    ASSUME FSInv, CreateData
    PROVE  FSInv'
<1>0. OpInv /\ DiskInv /\ MemoryInv /\ LinkInv /\ CountInv /\ OwnInv /\ FreshInv /\ Accounted
  BY DEF FSInv
<1>1. /\ op.kind = "create" /\ op.at = "data"
      /\ UNCHANGED <<d_inode, d_data, d_dir, inodes, files, leaked>>
  BY DEF CreateData, At, history
<1>2. /\ op \in CreateOps /\ Fresh = {op.sector} /\ Held = Files /\ Gone = {} /\ op.size \in Nat
  BY <1>0, <1>1, Creating DEF Fresh
<1>3. CASE Goto("undo") /\ free_map' = free_map /\ free_map \subseteq d_map' /\ d_map' \subseteq Sectors
  <2>1. PICK o : o = op' /\ o = [op EXCEPT !.at = "undo"]  BY <1>3 DEF Goto
  <2>2. op' \in CreateOps /\ op'.kind = "create" /\ op'.at = "undo" /\ op'.sector = op.sector
    BY <1>1, <1>2, <2>1 DEF CreateOps
  <2>3. /\ OpInv' /\ MemoryInv' /\ CountInv' /\ Opened' = Opened
        /\ Busy' = {} /\ Gone' = {} /\ Held' = Files'
    BY <1>1, <2>2, CreateMemory
  <2>4. LinkInv' /\ Linked' = Linked  BY <1>1, <2>2, <2>3, CreateLinks
  <2>5. Held' = Held  BY <1>2, <2>3, <2>4 DEF Files
  <2>6. Fresh' = Fresh  BY <1>2, <2>2 DEF Fresh
  <2>7. /\ OwnInv' /\ Accounted' /\ Fresh' \subseteq free_map' \ Reserved
        /\ \A s \in Held' : DiskSectors(s)' \intersect Fresh' = {}
    BY <1>0, <1>1, <1>2, <1>3, <2>3, <2>5, <2>6, OwnersKept
  <2>8. FreshInv'  BY <2>2, <2>7 DEF FreshInv
  <2>9. DiskInv'  BY <1>0, <1>1, <1>3 DEF DiskInv
  <2> QED BY <2>3, <2>4, <2>7, <2>8, <2>9 DEF FSInv
<1>4. CASE ~ (Goto("undo") /\ free_map' = free_map /\ free_map \subseteq d_map' /\ d_map' \subseteq Sectors)
  <2>1. PICK cnt : cnt = bytes_to_sectors(op.size)  OBVIOUS
  <2>2. cnt \in Nat  BY <1>2, <2>1, SizeInSectors
  <2>14. ~ (Goto("undo") /\ (UNCHANGED <<free_map, d_map>> \/ AllocateFails(cnt)))
    BY <1>0, <1>4, <2>2, MapWrites DEF DiskInv
  <2>3. Runs(cnt) # {}  BY <2>14, <2>1 DEF CreateData, history
  <2>4. PICK s : s = FirstRun(cnt)  OBVIOUS
  <2>5. /\ free_map' = free_map \union (s .. s + cnt - 1) /\ d_map' = free_map'
        /\ op' = [op EXCEPT !.at = "inode", !.start = s, !.next = s]
    BY <2>14, <2>1, <2>4 DEF CreateData, Allocate, history
  <2>6. /\ s \in Sectors /\ s .. s + cnt - 1 \subseteq Sectors /\ s \in Int
        /\ (s .. s + cnt - 1) \intersect free_map = {}
    BY <2>2, <2>3, <2>4, FirstRunFits
  <2>7. /\ op' \in CreateOps /\ op'.kind = "create" /\ op'.at = "inode" /\ op'.start = s
        /\ op'.sector = op.sector /\ op'.size = op.size
    <3>1. PICK o : o = [op EXCEPT !.at = "inode", !.start = s, !.next = s]  OBVIOUS
    <3> QED BY <1>1, <1>2, <2>5, <2>6, <3>1 DEF CreateOps
  <2>8. Fresh' = Fresh \union (s .. s + cnt - 1)
    BY <1>2, <2>1, <2>7 DEF Fresh, NewInode, DataSectors
  <2>9. /\ OpInv' /\ MemoryInv' /\ CountInv' /\ Opened' = Opened
        /\ Busy' = {} /\ Gone' = {} /\ Held' = Files'
    BY <1>1, <2>7, CreateMemory
  <2>10. LinkInv' /\ Linked' = Linked  BY <1>1, <2>7, <2>9, CreateLinks
  <2>11. Files' = Files  BY <2>9, <2>10 DEF Files
  <2>12. /\ DiskInv' /\ OwnInv' /\ Accounted' /\ Fresh' \subseteq free_map' \ Reserved
         /\ \A t \in Held' : DiskSectors(t)' \intersect Fresh' = {}
    BY <1>1, <2>5, <2>6, <2>8, <2>9, <2>11, AllocateStep
  <2>13. FreshInv'  BY <2>7, <2>12 DEF FreshInv
  <2> QED BY <2>9, <2>10, <2>12, <2>13 DEF FSInv
<1> QED BY <1>3, <1>4

\* A file's own sector is none of those of the file being created.
LEMMA FreshIsNew ==
    ASSUME FSInv, op.kind = "create", op.at # "alloc"
    PROVE  /\ op.sector \in Fresh /\ op.sector \in free_map \ Reserved
           /\ op.sector \notin Files /\ op.sector \notin DOMAIN inodes
           /\ \A s \in Files : op.sector \notin DiskSectors(s)
<1>0. OpInv /\ MemoryInv /\ FreshInv /\ CountInv  BY DEF FSInv
<1>1. Held = Files  BY <1>0, Creating
<1>2. op.sector \in Fresh  BY DEF Fresh
<1>3. \A s \in Files : op.sector \notin DiskSectors(s) /\ s \in DiskSectors(s)
  BY <1>0, <1>1, <1>2 DEF FreshInv, DiskSectors
<1>4. op.sector \notin DOMAIN inodes  BY <1>0, <1>1, <1>3, OpenIsHeld
<1> QED BY <1>0, <1>2, <1>3, <1>4 DEF FreshInv

\* inode_create() writing the inode keeps FSInv.
LEMMA CreateInodeStep ==
    ASSUME FSInv, CreateInode
    PROVE  FSInv'
<1>0. OpInv /\ DiskInv /\ MemoryInv /\ LinkInv /\ CountInv /\ OwnInv /\ FreshInv /\ Accounted
  BY DEF FSInv
<1>1. /\ op.kind = "create" /\ op.at = "inode"
      /\ d_inode' = [d_inode EXCEPT ![op.sector] = NewInode]
      /\ UNCHANGED <<d_map, d_data, d_dir, free_map, inodes, files, leaked>>
  BY DEF CreateInode, At, memVars, history
<1>2. /\ op \in CreateOps /\ op.sector \in Sectors /\ Held = Files /\ Gone = {}
      /\ NewInode \in Inodes
  BY <1>0, <1>1, Creating
<1>3. PICK o : o = op' /\ o = [op EXCEPT !.at = "zero"]  BY DEF CreateInode, Goto, history
<1>4. /\ op' \in CreateOps /\ op'.kind = "create" /\ op'.at = "zero" /\ op'.start = op.start
      /\ op'.sector = op.sector /\ op'.size = op.size
  BY <1>1, <1>2, <1>3 DEF CreateOps
<1>5. op.sector \notin Files /\ op.sector \notin DOMAIN inodes  BY <1>1, FreshIsNew
<1>6. /\ d_inode'[op.sector] = NewInode /\ d_inode' \in [Sectors -> Inodes]
      /\ \A s \in Sectors : s # op.sector => d_inode'[s] = d_inode[s]
  BY <1>0, <1>1, <1>2 DEF DiskInv
<1>7. \A s \in DOMAIN inodes : d_inode'[s] = d_inode[s]
  BY <1>0, <1>5, <1>6 DEF MemoryInv
<1>8. /\ OpInv' /\ MemoryInv' /\ CountInv' /\ Opened' = Opened
      /\ Busy' = {} /\ Gone' = {} /\ Held' = Files'
  BY <1>1, <1>4, <1>7, CreateMemory
<1>9. LinkInv' /\ Linked' = Linked  BY <1>1, <1>4, <1>8, CreateLinks
<1>10. Held' = Held  BY <1>2, <1>8, <1>9 DEF Files
<1>11. NewInode' = NewInode  BY <1>4 DEF NewInode
<1>12. Fresh' = Fresh
  BY <1>1, <1>4, <1>11 DEF Fresh
<1>13. \A s \in Held : DiskSectors(s)' = DiskSectors(s)
  <2>1. Files \subseteq Sectors  BY <1>0, FilesAreSectors
  <2> QED BY <1>2, <1>5, <1>6, <2>1 DEF DiskSectors
<1>14. OwnInv'  BY <1>0, <1>1, <1>2, <1>8, <1>10, <1>13 DEF OwnInv
<1>15. FreshInv'
  <2>1. d_inode'[op'.sector] = NewInode'  BY <1>4, <1>6, <1>11
  <2> QED BY <1>0, <1>1, <1>10, <1>12, <1>13, <2>1 DEF FreshInv
<1>16. Accounted'
  <2>1. {DiskSectors(s)' : s \in Held} = {DiskSectors(s) : s \in Held}  BY <1>13
  <2> QED BY <1>0, <1>1, <1>10, <1>12, <2>1 DEF Accounted
<1>17. DiskInv'  BY <1>0, <1>1, <1>6 DEF DiskInv
<1> QED BY <1>8, <1>9, <1>14, <1>15, <1>16, <1>17 DEF FSInv

\* inode_create() writing zeros to one data sector keeps FSInv.
LEMMA CreateZeroStep ==
    ASSUME FSInv, CreateZero
    PROVE  FSInv'
<1>0. OpInv /\ DiskInv /\ MemoryInv /\ LinkInv /\ CountInv /\ OwnInv /\ FreshInv /\ Accounted
  BY DEF FSInv
<1>1. /\ op.kind = "create" /\ op.at = "zero"
      /\ UNCHANGED <<d_map, d_inode, d_dir, free_map, inodes, files, leaked>>
  BY DEF CreateZero, At, memVars, history
<1>2. /\ op \in CreateOps /\ Held = Files /\ Gone = {} /\ op.next \in Int
  BY <1>0, <1>1, Creating
<1>3. /\ op' \in CreateOps /\ op'.kind = "create" /\ op'.at \in {"zero", "add"}
      /\ op'.start = op.start /\ op'.sector = op.sector /\ op'.size = op.size
  <2>1. CASE op.next \in DataSectors(NewInode)
    <3>1. PICK k \in Int : k = op.next + 1  BY <1>2
    <3>2. PICK o : o = op' /\ o = [op EXCEPT !.next = k]  BY <2>1, <3>1 DEF CreateZero, history
    <3> QED BY <1>1, <1>2, <3>2 DEF CreateOps
  <2>2. CASE op.next \notin DataSectors(NewInode)
    <3>1. PICK o : o = op' /\ o = [op EXCEPT !.at = "add"]  BY <2>2 DEF CreateZero, Goto, history
    <3> QED BY <1>1, <1>2, <3>1 DEF CreateOps
  <2> QED BY <2>1, <2>2
<1>4. d_data' \in [Sectors -> [0 .. SECTOR_SIZE - 1 -> Bytes]]
  <2>1. Zeros \in [0 .. SECTOR_SIZE - 1 -> Bytes]  BY FileSysAssumption DEF Zeros
  <2>2. d_data' = d_data \/ d_data' = [d_data EXCEPT ![op.next] = Zeros]  BY DEF CreateZero, history
  <2> QED BY <1>0, <2>1, <2>2 DEF DiskInv
<1>5. /\ OpInv' /\ MemoryInv' /\ CountInv' /\ Opened' = Opened
      /\ Busy' = {} /\ Gone' = {} /\ Held' = Files'
  BY <1>1, <1>3, CreateMemory
<1>6. LinkInv' /\ Linked' = Linked  BY <1>1, <1>3, <1>5, CreateLinks
<1>7. Held' = Held  BY <1>2, <1>5, <1>6 DEF Files
<1>8. NewInode' = NewInode  BY <1>3 DEF NewInode
<1>9. Fresh' = Fresh  BY <1>1, <1>3, <1>8 DEF Fresh
<1>10. /\ OwnInv' /\ Accounted' /\ Fresh' \subseteq free_map' \ Reserved
       /\ \A s \in Held' : DiskSectors(s)' \intersect Fresh' = {}
  BY <1>0, <1>1, <1>2, <1>5, <1>7, <1>9, OwnersKept
<1>11. FreshInv'
  <2>1. d_inode'[op'.sector] = NewInode'  BY <1>0, <1>1, <1>3, <1>8 DEF FreshInv
  <2> QED BY <1>10, <2>1 DEF FreshInv
<1>12. DiskInv'  BY <1>0, <1>1, <1>4 DEF DiskInv
<1> QED BY <1>5, <1>6, <1>10, <1>11, <1>12 DEF FSInv

\* dir_add() of the new file keeps FSInv.
LEMMA CreateAddStep ==
    ASSUME FSInv, CreateAdd
    PROVE  FSInv'
<1>0. OpInv /\ DiskInv /\ MemoryInv /\ LinkInv /\ CountInv /\ OwnInv /\ FreshInv /\ Accounted
  BY DEF FSInv
<1>1. /\ op.kind = "create" /\ op.at = "add" /\ op' = Idle
      /\ UNCHANGED <<d_map, d_inode, d_data, free_map, inodes, files, leaked>>
  BY DEF CreateAdd, At, memVars, history
<1>2. /\ op \in CreateOps /\ op.sector \in Sectors /\ op.name \in Names
      /\ Held = Files /\ Gone = {}
  BY <1>0, <1>1, Creating
<1>3. PICK e : e = [name |-> op.name, inode_sector |-> op.sector, in_use |-> TRUE]
  OBVIOUS
<1>4. PICK k \in Slots : ~ d_dir[k].in_use /\ d_dir' = [d_dir EXCEPT ![k] = e]
  BY <1>3 DEF CreateAdd, AddEntry, FreeSlots, history
<1>5. /\ d_dir'[k].in_use /\ d_dir'[k].inode_sector = op.sector
      /\ \A j \in Slots : j # k => d_dir'[j] = d_dir[j]
      /\ d_dir' \in [Slots -> [name : Names \union {NoId}, inode_sector : Sectors,
                               in_use : BOOLEAN]]
  BY <1>0, <1>2, <1>3, <1>4 DEF DiskInv
<1>6. /\ op.sector \in Fresh /\ op.sector \notin Files /\ op.sector \notin DOMAIN inodes
  BY <1>1, FreshIsNew
<1>7. Linked' = Linked \union {op.sector}
  <2>1. \A s : s \in Linked <=> \E j \in Slots : d_dir[j].in_use /\ s = d_dir[j].inode_sector
    BY DEF Linked
  <2>2. \A s : s \in Linked' <=> \E j \in Slots : d_dir'[j].in_use /\ s = d_dir'[j].inode_sector
    BY DEF Linked
  <2> QED BY <2>1, <2>2, <1>4, <1>5
<1>8. /\ OpInv' /\ MemoryInv' /\ CountInv' /\ Opened' = Opened
      /\ Busy' = {} /\ Gone' = {} /\ Held' = Files'
  BY <1>1, CreateMemory
<1>9. Held' = Held \union {op.sector}  BY <1>2, <1>7, <1>8 DEF Files
<1>10. DiskSectors(op.sector) = Fresh
  BY <1>0, <1>1 DEF FreshInv, DiskSectors, Fresh
<1>11. \A s : DiskSectors(s)' = DiskSectors(s)  BY <1>1 DEF DiskSectors
<1>12. Fresh' = {} /\ op'.kind = "none"  BY <1>1 DEF Fresh, Idle
<1>13. OwnInv'
  BY <1>0, <1>1, <1>2, <1>8, <1>9, <1>10, <1>11 DEF OwnInv, FreshInv
<1>14. FreshInv'  BY <1>12 DEF FreshInv
<1>15. Accounted'
  BY <1>0, <1>1, <1>9, <1>10, <1>11, <1>12 DEF Accounted
<1>16. LinkInv'
  <2>1. \A j \in Slots : d_dir[j].in_use => d_dir[j].inode_sector # op.sector
    BY <1>6 DEF Files, Linked
  <2>2. \A i, j \in Slots : d_dir'[i].in_use /\ d_dir'[j].in_use
                              /\ d_dir'[i].inode_sector = d_dir'[j].inode_sector => i = j
    BY <1>0, <1>5, <2>1 DEF LinkInv
  <2>3. \A s \in DOMAIN inodes' : inodes'[s].removed => s \notin Linked'
    BY <1>0, <1>1, <1>6, <1>7 DEF LinkInv
  <2> QED BY <1>8, <1>12, <2>2, <2>3 DEF LinkInv
<1>17. DiskInv'  BY <1>0, <1>1, <1>5 DEF DiskInv
<1> QED BY <1>8, <1>13, <1>14, <1>15, <1>16, <1>17 DEF FSInv

\* A dir_add() that takes a failed read for the end of the directory keeps FSInv: what it
\* writes over is the only file that is lost.
LEMMA CreateAddStarvedStep ==
    ASSUME FSInv, CreateAddStarved
    PROVE  FSInv'
<1>0. OpInv /\ DiskInv /\ MemoryInv /\ LinkInv /\ CountInv /\ OwnInv /\ FreshInv /\ Accounted
  BY DEF FSInv
<1>1. /\ op.kind = "create" /\ op.at = "add" /\ op' = Idle
      /\ UNCHANGED <<d_map, d_inode, d_data, free_map, inodes, files>>
  BY DEF CreateAddStarved, At, memVars
<1>2. /\ op \in CreateOps /\ op.sector \in Sectors /\ op.name \in Names
      /\ Held = Files /\ Gone = {}
  BY <1>0, <1>1, Creating
<1>3. PICK e : e = [name |-> op.name, inode_sector |-> op.sector, in_use |-> TRUE]
  OBVIOUS
<1>4. PICK k \in Slots :
         /\ d_dir' = [d_dir EXCEPT ![k] = e]
         /\ leaked' = leaked \union (IF d_dir[k].in_use /\ d_dir[k].inode_sector \notin Opened
                                     THEN DiskSectors(d_dir[k].inode_sector) ELSE {})
  BY <1>3 DEF CreateAddStarved, AddEntry, Reached
<1>5. /\ d_dir'[k].in_use /\ d_dir'[k].inode_sector = op.sector
      /\ \A j \in Slots : j # k => d_dir'[j] = d_dir[j]
      /\ d_dir' \in [Slots -> [name : Names \union {NoId}, inode_sector : Sectors,
                               in_use : BOOLEAN]]
  BY <1>0, <1>2, <1>3, <1>4 DEF DiskInv
<1>6. /\ op.sector \in Fresh /\ op.sector \notin Files /\ op.sector \notin DOMAIN inodes
  BY <1>1, FreshIsNew
<1>7. PICK L : L = IF d_dir[k].in_use THEN {d_dir[k].inode_sector} ELSE {}  OBVIOUS
<1>8. Linked' = (Linked \ L) \union {op.sector} /\ L \subseteq Linked
  <2>1. \A s : s \in Linked <=> \E j \in Slots : d_dir[j].in_use /\ s = d_dir[j].inode_sector
    BY DEF Linked
  <2>2. \A s : s \in Linked' <=> \E j \in Slots : d_dir'[j].in_use /\ s = d_dir'[j].inode_sector
    BY DEF Linked
  <2>3. \A j \in Slots : j # k /\ d_dir[j].in_use => d_dir[j].inode_sector \notin L
    BY <1>0, <1>7 DEF LinkInv
  <2> QED BY <2>1, <2>2, <2>3, <1>5, <1>7
<1>9. /\ OpInv' /\ MemoryInv' /\ CountInv' /\ Opened' = Opened
      /\ Busy' = {} /\ Gone' = {} /\ Held' = Files'
  BY <1>1, CreateMemory
<1>10. Held' \subseteq Held \union {op.sector} /\ op.sector \in Held'
       /\ Held \subseteq Held' \union (L \ Opened)
  BY <1>2, <1>8, <1>9 DEF Files
<1>11. DiskSectors(op.sector) = Fresh
  BY <1>0, <1>1 DEF FreshInv, DiskSectors, Fresh
<1>12. \A s : DiskSectors(s)' = DiskSectors(s)  BY <1>1 DEF DiskSectors
<1>13. Fresh' = {} /\ op'.kind = "none"  BY <1>1 DEF Fresh, Idle
<1>14. OwnInv'
  BY <1>0, <1>1, <1>2, <1>9, <1>10, <1>11, <1>12 DEF OwnInv, FreshInv
<1>15. FreshInv'  BY <1>13 DEF FreshInv
<1>16. Accounted'
  <2>1. \A s \in L \ Opened : DiskSectors(s) \subseteq leaked'  BY <1>4, <1>7
  <2>2. leaked \subseteq leaked'  BY <1>4
  <2>3. UNION {DiskSectors(s) : s \in Held} \subseteq leaked' \union UNION {DiskSectors(s) : s \in Held'}
    BY <1>10, <2>1
  <2>4. Fresh \subseteq UNION {DiskSectors(s) : s \in Held'}  BY <1>10, <1>11
  <2> QED BY <1>0, <1>1, <1>12, <2>2, <2>3, <2>4 DEF Accounted
<1>17. LinkInv'
  <2>1. \A j \in Slots : d_dir[j].in_use => d_dir[j].inode_sector # op.sector
    BY <1>6 DEF Files, Linked
  <2>2. \A i, j \in Slots : d_dir'[i].in_use /\ d_dir'[j].in_use
                              /\ d_dir'[i].inode_sector = d_dir'[j].inode_sector => i = j
    BY <1>0, <1>5, <2>1 DEF LinkInv
  <2>3. \A s \in DOMAIN inodes' : inodes'[s].removed => s \notin Linked'
    BY <1>0, <1>1, <1>6, <1>8 DEF LinkInv
  <2> QED BY <1>9, <1>13, <2>2, <2>3 DEF LinkInv
<1>18. DiskInv'  BY <1>0, <1>1, <1>5 DEF DiskInv
<1> QED BY <1>9, <1>14, <1>15, <1>16, <1>17, <1>18 DEF FSInv

\* A dir_add() that fails keeps FSInv.
LEMMA CreateAddFailsStep ==
    ASSUME FSInv, CreateAddFails
    PROVE  FSInv'
<1>0. OpInv /\ DiskInv /\ MemoryInv /\ LinkInv /\ CountInv /\ OwnInv /\ FreshInv /\ Accounted
  BY DEF FSInv
<1>1. /\ op.kind = "create" /\ op.at = "add" /\ leaked' = leaked \union DataSectors(NewInode)
      /\ UNCHANGED <<d_map, d_inode, d_data, d_dir, free_map, inodes, files>>
  BY DEF CreateAddFails, At, memVars, diskVars
<1>2. op \in CreateOps /\ Held = Files /\ Gone = {}  BY <1>0, <1>1, Creating
<1>3. PICK o : o = op' /\ o = [op EXCEPT !.at = "undo"]  BY DEF CreateAddFails, Goto
<1>4. op' \in CreateOps /\ op'.kind = "create" /\ op'.at = "undo" /\ op'.sector = op.sector
  BY <1>1, <1>2, <1>3 DEF CreateOps
<1>5. /\ OpInv' /\ MemoryInv' /\ CountInv' /\ Opened' = Opened
      /\ Busy' = {} /\ Gone' = {} /\ Held' = Files'
  BY <1>1, <1>4, CreateMemory
<1>6. LinkInv' /\ Linked' = Linked  BY <1>1, <1>4, <1>5, CreateLinks
<1>7. Held' = Held  BY <1>2, <1>5, <1>6 DEF Files
<1>8. Fresh' = {op.sector} /\ Fresh = {op.sector} \union DataSectors(NewInode)
  BY <1>1, <1>4 DEF Fresh
<1>9. \A s : DiskSectors(s)' = DiskSectors(s)  BY <1>1 DEF DiskSectors
<1>10. OwnInv'  BY <1>0, <1>1, <1>2, <1>5, <1>7, <1>9 DEF OwnInv
<1>11. FreshInv'  BY <1>0, <1>1, <1>4, <1>7, <1>8, <1>9 DEF FreshInv
<1>12. Accounted'  BY <1>0, <1>1, <1>7, <1>8, <1>9 DEF Accounted
<1>13. DiskInv'  BY <1>0, <1>1 DEF DiskInv
<1> QED BY <1>5, <1>6, <1>10, <1>11, <1>12, <1>13 DEF FSInv

\* filesys_create() giving the inode's sector back keeps FSInv.
LEMMA CreateUndoStep ==
    ASSUME FSInv, CreateUndo
    PROVE  FSInv'
<1>0. OpInv /\ DiskInv /\ MemoryInv /\ LinkInv /\ CountInv /\ OwnInv /\ FreshInv /\ Accounted
  BY DEF FSInv
<1>1. /\ op.kind = "create" /\ op.at = "undo" /\ op' = Idle
      /\ free_map' = free_map \ {op.sector} /\ free_map' \subseteq d_map' /\ d_map' \subseteq Sectors
      /\ UNCHANGED <<d_inode, d_data, d_dir, inodes, files, leaked>>
  BY <1>0, MapWrites DEF CreateUndo, At, history
<1>2. Held = Files /\ Gone = {}  BY <1>0, <1>1, Creating
<1>3. Fresh = {op.sector} /\ Fresh' = {} /\ op'.kind = "none"  BY <1>1 DEF Fresh, Idle
<1>4. /\ OpInv' /\ MemoryInv' /\ CountInv' /\ Opened' = Opened
      /\ Busy' = {} /\ Gone' = {} /\ Held' = Files'
  BY <1>1, CreateMemory
<1>5. LinkInv' /\ Linked' = Linked  BY <1>1, <1>3, <1>4, CreateLinks
<1>6. Held' = Held  BY <1>2, <1>4, <1>5 DEF Files
<1>7. \A s : DiskSectors(s)' = DiskSectors(s)  BY <1>1 DEF DiskSectors
<1>8. \A s \in Files : op.sector \notin DiskSectors(s)  BY <1>1, FreshIsNew
<1>9. op.sector \notin Reserved  BY <1>1, FreshIsNew
<1>10. OwnInv'  BY <1>0, <1>1, <1>2, <1>4, <1>6, <1>7, <1>8 DEF OwnInv
<1>11. FreshInv'  BY <1>3 DEF FreshInv
<1>12. Accounted'  BY <1>0, <1>1, <1>3, <1>6, <1>7 DEF Accounted
<1>13. DiskInv'  BY <1>0, <1>1, <1>9 DEF DiskInv
<1> QED BY <1>4, <1>5, <1>10, <1>11, <1>12, <1>13 DEF FSInv

-----------------------------------------------------------------------------
(* filesys_remove(), file_close() and inode_close().                       *)

\* What a filesys_remove() or file_close() that has begun works with.
LEMMA Finishing ==
    ASSUME FSInv, op.kind \in {"remove", "close"}
    PROVE  /\ op \in RemoveOps \union CloseOps /\ op.sector \in Sectors
           /\ Busy = {op.sector} /\ Fresh = {} /\ Held = Files \union {op.sector}
           /\ op.sector \in DOMAIN inodes /\ inodes[op.sector].data = d_inode[op.sector]
           /\ inodes[op.sector] \in InodeRec
<1>0. OpInv /\ MemoryInv /\ LinkInv  BY DEF FSInv
<1>1. op \in RemoveOps \union CloseOps /\ op.sector \in Sectors
  BY <1>0 DEF OpInv, Idle, CreateOps, RemoveOps, CloseOps, TransferOps
<1>2. Busy = {op.sector} /\ Fresh = {} /\ Held = Files \union {op.sector}
  BY DEF Busy, Fresh, Held
<1> QED BY <1>0, <1>1, <1>2 DEF LinkInv, MemoryInv, InodeRec

\* The beginning of filesys_remove() keeps FSInv.
LEMMA RemoveStep ==
    ASSUME FSInv, NEW n \in Names, Remove(n)
    PROVE  FSInv'
<1>0. OpInv /\ DiskInv /\ MemoryInv /\ LinkInv /\ CountInv /\ OwnInv /\ FreshInv /\ Accounted
  BY DEF FSInv
<1>1. PICK k \in Slots : /\ d_dir[k].in_use /\ inodes' = OpenInode(d_dir[k].inode_sector)
                         /\ Begin([kind |-> "remove", at |-> "erase", slot |-> k,
                                   sector |-> d_dir[k].inode_sector])
  BY DEF Remove, lookup, Entries, history
<1>2. PICK s \in Sectors : s = d_dir[k].inode_sector  BY <1>0 DEF DiskInv
<1>3. /\ op = Idle /\ op' = [kind |-> "remove", at |-> "erase", slot |-> k, sector |-> s]
      /\ UNCHANGED <<d_map, d_inode, d_data, d_dir, free_map, files, leaked>>
  BY <1>1, <1>2 DEF Begin, Remove, diskVars, history
<1>4. /\ op' \in RemoveOps /\ op'.kind = "remove" /\ op'.slot = k /\ op'.sector = s
  BY <1>2, <1>3 DEF RemoveOps
<1>5. op.kind = "none" /\ Busy = {} /\ Gone = {} /\ Fresh = {} /\ Held = Files
  BY <1>3 DEF Idle, Busy, Gone, Fresh, Held
<1>6. Busy' = {s} /\ Gone' = {} /\ Fresh' = {} /\ Held' = Files' \union {s}
  BY <1>4 DEF Busy, Gone, Fresh, Held
<1>7. s \in Linked /\ s \in Files  BY <1>1, <1>2 DEF Linked, Files
<1>8. Linked' = Linked /\ Opened' = Opened  BY <1>3 DEF Linked, Opened
<1>9. Held' = Held  BY <1>5, <1>6, <1>7, <1>8 DEF Files
<1>10. PICK i : i = inodes' /\ Opens(i, s)
  <2>1. PICK i : i = OpenInode(s)  OBVIOUS
  <2>2. Opens(i, s)  BY <1>0, <2>1, OpensInode
  <2> QED BY <1>1, <1>2, <2>1, <2>2
<1>11. OpInv'  BY <1>4 DEF OpInv
<1>12. DiskInv'  BY <1>0, <1>3 DEF DiskInv
<1>13. MemoryInv'
  <2>1. \A t \in DOMAIN inodes' : t \in Sectors /\ inodes'[t].data = d_inode'[t]
    BY <1>0, <1>2, <1>3, <1>10 DEF MemoryInv, Opens
  <2> QED BY <1>0, <1>3, <1>10, <2>1 DEF MemoryInv, Opens, InodeRec, Free
<1>14. OwnInv' /\ Accounted'
  BY <1>0, <1>3, <1>5, <1>6, <1>9, OwnersKept
<1>15. FreshInv'  BY <1>4, <1>6 DEF FreshInv
<1>16. LinkInv'
  <2>1. \A t \in DOMAIN inodes' : inodes'[t].removed => t \notin Linked'
    BY <1>0, <1>7, <1>8, <1>10 DEF LinkInv, Opens
  <2>2. Busy' \subseteq DOMAIN inodes'  BY <1>6, <1>10 DEF Opens
  <2>3. d_dir'[op'.slot].in_use /\ d_dir'[op'.slot].inode_sector = op'.sector
    BY <1>1, <1>2, <1>3, <1>4
  <2> QED BY <1>0, <1>3, <1>4, <2>1, <2>2, <2>3 DEF LinkInv
<1>17. CountInv'
  <2>1. \A t : HandlesOn(t)' = HandlesOn(t) /\ Deniers(t)' = Deniers(t)
    BY <1>3 DEF HandlesOn, Deniers
  <2>2. ASSUME NEW t \in DOMAIN inodes, t # s PROVE Counted(t)'
    <3>1. Counted(t) /\ inodes'[t] = inodes[t]  BY <1>0, <1>10, <2>2 DEF CountInv, Opens
    <3> QED BY <1>5, <1>6, <2>1, <2>2, <3>1 DEF Counted
  <2>3. Counted(s)'
    <3>1. CASE s \in DOMAIN inodes
      <4>1. Counted(s)  BY <1>0, <3>1 DEF CountInv
      <4> QED BY <3>1, <4>1, <1>5, <1>6, <1>10, <2>1, HandlesFinite DEF Counted, Opens
    <3>2. CASE s \notin DOMAIN inodes
      <4>1. Cardinality(HandlesOn(s)) = 0 /\ Cardinality(Deniers(s)) = 0
        BY <1>0, <3>2, NotOpen
      <4> QED BY <3>2, <4>1, <1>5, <1>6, <1>10, <2>1 DEF Counted, Opens
    <3> QED BY <3>1, <3>2
  <2> QED BY <1>0, <1>8, <1>10, <2>2, <2>3 DEF CountInv, Opens
<1> QED BY <1>11, <1>12, <1>13, <1>14, <1>15, <1>16, <1>17 DEF FSInv

\* dir_remove() erasing the entry keeps FSInv.
LEMMA RemoveEraseStep ==
    ASSUME FSInv, RemoveErase
    PROVE  FSInv'
<1>0. OpInv /\ DiskInv /\ MemoryInv /\ LinkInv /\ CountInv /\ OwnInv /\ FreshInv /\ Accounted
  BY DEF FSInv
<1>1. /\ op.kind = "remove" /\ op' = Closing(op.sector)
      /\ d_dir' = [d_dir EXCEPT ![op.slot].in_use = FALSE]
      /\ inodes' = [inodes EXCEPT ![op.sector].removed = TRUE]
      /\ UNCHANGED <<d_map, d_inode, d_data, free_map, files, leaked>>
  BY DEF RemoveErase, At, inode_remove, history
<1>2. PICK s \in Sectors : /\ s = op.sector /\ s \in DOMAIN inodes /\ Busy = {s} /\ Fresh = {}
                           /\ Held = Files \union {s} /\ Gone = {}
  BY <1>1, Finishing DEF Gone
<1>3. PICK k \in Slots : k = op.slot /\ d_dir[k].in_use /\ d_dir[k].inode_sector = s
  BY <1>0, <1>1, <1>2, Finishing DEF LinkInv, RemoveOps, CloseOps
<1>4. op' \in CloseOps /\ op'.kind = "close" /\ op'.at = "last" /\ op'.sector = s
  BY <1>1, <1>2 DEF Closing, CloseOps
<1>5. Busy' = {s} /\ Gone' = {} /\ Fresh' = {} /\ Held' = Files' \union {s}
  BY <1>4 DEF Busy, Gone, Fresh, Held
<1>6. PICK i : i = inodes' /\ Updated(i, s, inodes[s].open_cnt, inodes[s].deny_write_cnt, TRUE)
  BY <1>0, <1>1, <1>2, SetsRemoved
<1>7. /\ ~ d_dir'[k].in_use
      /\ \A j \in Slots : j # k => d_dir'[j] = d_dir[j]
      /\ d_dir' \in [Slots -> [name : Names \union {NoId}, inode_sector : Sectors,
                               in_use : BOOLEAN]]
  <2>1. PICK r : r = [d_dir[k] EXCEPT !.in_use = FALSE]  OBVIOUS
  <2>2. d_dir' = [d_dir EXCEPT ![k] = r]  BY <1>1, <1>3, <2>1
  <2>3. /\ r \in [name : Names \union {NoId}, inode_sector : Sectors, in_use : BOOLEAN]
        /\ ~ r.in_use
    BY <1>0, <2>1 DEF DiskInv
  <2> QED BY <1>0, <2>2, <2>3 DEF DiskInv
<1>8. Linked' = Linked \ {s}
  <2>1. \A t : t \in Linked <=> \E j \in Slots : d_dir[j].in_use /\ t = d_dir[j].inode_sector
    BY DEF Linked
  <2>2. \A t : t \in Linked' <=> \E j \in Slots : d_dir'[j].in_use /\ t = d_dir'[j].inode_sector
    BY DEF Linked
  <2>3. \A j \in Slots : j # k /\ d_dir[j].in_use => d_dir[j].inode_sector # s
    BY <1>0, <1>3 DEF LinkInv
  <2> QED BY <2>1, <2>2, <2>3, <1>3, <1>7
<1>9. Opened' = Opened /\ \A t : HandlesOn(t)' = HandlesOn(t) /\ Deniers(t)' = Deniers(t)
  BY <1>1 DEF Opened, HandlesOn, Deniers
<1>10. Held' = Held  BY <1>2, <1>5, <1>8, <1>9 DEF Files
<1>11. OpInv'  BY <1>4 DEF OpInv
<1>12. DiskInv'  BY <1>0, <1>1, <1>7 DEF DiskInv
<1>13. MemoryInv'
  <2>1. \A t \in DOMAIN inodes' : t \in Sectors /\ inodes'[t].data = d_inode'[t]
    BY <1>0, <1>1, <1>6 DEF MemoryInv, Updated
  <2> QED BY <1>0, <1>1, <1>6, <2>1 DEF MemoryInv, Updated, InodeRec, Free
<1>14. OwnInv' /\ Accounted'  BY <1>0, <1>1, <1>2, <1>5, <1>10, OwnersKept
<1>15. FreshInv'  BY <1>4, <1>5 DEF FreshInv
<1>16. LinkInv'
  <2>1. \A t \in DOMAIN inodes' : inodes'[t].removed => t \notin Linked'
    BY <1>0, <1>6, <1>8 DEF LinkInv, Updated
  <2>2. \A j, m \in Slots : d_dir'[j].in_use /\ d_dir'[m].in_use
                              /\ d_dir'[j].inode_sector = d_dir'[m].inode_sector => j = m
    BY <1>0, <1>7 DEF LinkInv
  <2>3. Busy' \subseteq DOMAIN inodes'  BY <1>2, <1>5, <1>6 DEF Updated
  <2> QED BY <1>4, <2>1, <2>2, <2>3 DEF LinkInv
<1>17. CountInv'
  <2>1. ASSUME NEW t \in DOMAIN inodes PROVE Counted(t)'
    <3>1. Counted(t)  BY <1>0, <2>1 DEF CountInv
    <3>2. /\ inodes'[t].open_cnt = inodes[t].open_cnt
          /\ inodes'[t].deny_write_cnt = inodes[t].deny_write_cnt
      BY <1>6, <2>1 DEF Updated
    <3> QED BY <1>2, <1>5, <1>9, <3>1, <3>2 DEF Counted
  <2> QED BY <1>0, <1>6, <1>9, <2>1 DEF CountInv, Updated
<1> QED BY <1>11, <1>12, <1>13, <1>14, <1>15, <1>16, <1>17 DEF FSInv

\* dir_remove() that cannot erase the entry keeps FSInv.
LEMMA RemoveFailsStep ==
    ASSUME FSInv, RemoveFails
    PROVE  FSInv'
<1>0. OpInv /\ DiskInv /\ MemoryInv /\ LinkInv /\ CountInv /\ OwnInv /\ FreshInv /\ Accounted
  BY DEF FSInv
<1>1. /\ op.kind = "remove" /\ op' = Closing(op.sector)
      /\ UNCHANGED <<d_map, d_inode, d_data, d_dir, free_map, inodes, files, leaked>>
  BY DEF RemoveFails, At, diskVars, memVars, history
<1>2. PICK s \in Sectors : /\ s = op.sector /\ s \in DOMAIN inodes /\ Busy = {s} /\ Fresh = {}
                           /\ Held = Files \union {s} /\ Gone = {}
  BY <1>1, Finishing DEF Gone
<1>3. op' \in CloseOps /\ op'.kind = "close" /\ op'.at = "last" /\ op'.sector = s
  BY <1>1, <1>2 DEF Closing, CloseOps
<1>4. Busy' = {s} /\ Gone' = {} /\ Fresh' = {} /\ Held' = Files' \union {s}
  BY <1>3 DEF Busy, Gone, Fresh, Held
<1>5. /\ Linked' = Linked /\ Opened' = Opened
      /\ \A t : HandlesOn(t)' = HandlesOn(t) /\ Deniers(t)' = Deniers(t)
  BY <1>1 DEF Linked, Opened, HandlesOn, Deniers
<1>6. Held' = Held  BY <1>2, <1>4, <1>5 DEF Files
<1>7. OpInv' /\ DiskInv' /\ MemoryInv'
  BY <1>0, <1>1, <1>3 DEF OpInv, DiskInv, MemoryInv, Free
<1>8. OwnInv' /\ Accounted'  BY <1>0, <1>1, <1>2, <1>4, <1>6, OwnersKept
<1>9. FreshInv'  BY <1>3, <1>4 DEF FreshInv
<1>10. LinkInv'  BY <1>0, <1>1, <1>2, <1>3, <1>4, <1>5 DEF LinkInv
<1>11. CountInv'  BY <1>0, <1>1, <1>2, <1>4, <1>5 DEF CountInv, Counted
<1> QED BY <1>7, <1>8, <1>9, <1>10, <1>11 DEF FSInv

\* file_close() keeps FSInv.
LEMMA CloseStep ==
    ASSUME FSInv, NEW h \in Handles, Close(h)
    PROVE  FSInv'
<1>0. OpInv /\ DiskInv /\ MemoryInv /\ LinkInv /\ CountInv /\ OwnInv /\ FreshInv /\ Accounted
  BY DEF FSInv
<1>1. PICK s : s = files[h].inode  OBVIOUS
<1>2. /\ ~ Free(h) /\ op = Idle /\ op' = Closing(s) /\ inodes' = Allowed(h)
      /\ files' = [files EXCEPT ![h] = NoFile]
      /\ UNCHANGED <<d_map, d_inode, d_data, d_dir, free_map, leaked>>
  BY <1>1 DEF Close, Begin, diskVars, history
<1>3. /\ s \in Sectors /\ s \in Opened
      /\ \A t \in Sectors : t # s => HandlesOn(t)' = HandlesOn(t) /\ Deniers(t)' = Deniers(t)
      /\ Cardinality(HandlesOn(s)') = Cardinality(HandlesOn(s)) - 1
      /\ Cardinality(Deniers(s)') = Cardinality(Deniers(s)) - (IF files[h].deny_write THEN 1 ELSE 0)
      /\ Opened' \subseteq Opened /\ Opened \subseteq Opened' \union {s}
      /\ files' \in [Handles -> [inode : Sectors \union {NoId}, pos : Nat, deny_write : BOOLEAN]]
      /\ \A g \in Handles : files'[g].inode = NoId => files'[g] = NoFile
  BY <1>0, <1>1, <1>2, CloseHandle
<1>4. s \in DOMAIN inodes  BY <1>0, <1>3 DEF CountInv
<1>5. op' \in CloseOps /\ op'.kind = "close" /\ op'.at = "last" /\ op'.sector = s
  BY <1>2, <1>3 DEF Closing, CloseOps
<1>6. Busy' = {s} /\ Gone' = {} /\ Fresh' = {} /\ Held' = Files' \union {s}
  BY <1>5 DEF Busy, Gone, Fresh, Held
<1>7. op.kind = "none" /\ Busy = {} /\ Gone = {} /\ Fresh = {} /\ Held = Files
  BY <1>2 DEF Idle, Busy, Gone, Fresh, Held
<1>8. Linked' = Linked  BY <1>2 DEF Linked
<1>9. Held' = Held  BY <1>3, <1>6, <1>7, <1>8 DEF Files
<1>10. PICK n \in Int : n = inodes[s].deny_write_cnt - (IF files[h].deny_write THEN 1 ELSE 0)
  BY <1>0, <1>4 DEF MemoryInv
<1>11. PICK i : i = inodes' /\ Updated(i, s, inodes[s].open_cnt, n, inodes[s].removed)
  <2>1. CASE files[h].deny_write
    <3>1. inodes' = [inodes EXCEPT ![s].deny_write_cnt = n]
      BY <1>1, <1>2, <1>10, <2>1 DEF Allowed
    <3> QED BY <1>0, <1>4, <3>1, SetsDenyCnt
  <2>2. CASE ~ files[h].deny_write
    <3>1. inodes' = inodes  BY <1>2, <2>2 DEF Allowed
    <3>2. inodes[s] \in InodeRec  BY <1>0, <1>4 DEF MemoryInv, InodeRec
    <3>3. n = inodes[s].deny_write_cnt  BY <1>10, <2>2, <3>2 DEF InodeRec
    <3>4. Updated(inodes, s, inodes[s].open_cnt, n, inodes[s].removed)
      BY <1>0, <3>3 DEF Updated, MemoryInv, InodeRec
    <3> QED BY <3>1, <3>4
  <2> QED BY <2>1, <2>2
<1>12. OpInv'  BY <1>5 DEF OpInv
<1>13. DiskInv'  BY <1>0, <1>2 DEF DiskInv
<1>14. MemoryInv'
  <2>1. \A t \in DOMAIN inodes' : t \in Sectors /\ inodes'[t].data = d_inode'[t]
    BY <1>0, <1>2, <1>11 DEF MemoryInv, Updated
  <2> QED BY <1>3, <1>11, <2>1 DEF MemoryInv, Updated, InodeRec, Free
<1>15. OwnInv' /\ Accounted'  BY <1>0, <1>2, <1>6, <1>7, <1>9, OwnersKept
<1>16. FreshInv'  BY <1>5, <1>6 DEF FreshInv
<1>17. LinkInv'
  <2>1. \A t \in DOMAIN inodes' : inodes'[t].removed => t \notin Linked'
    BY <1>0, <1>8, <1>11 DEF LinkInv, Updated
  <2>2. Busy' \subseteq DOMAIN inodes'  BY <1>4, <1>6, <1>11 DEF Updated
  <2> QED BY <1>0, <1>2, <1>5, <2>1, <2>2 DEF LinkInv
<1>18. CountInv'
  <2>1. ASSUME NEW t \in DOMAIN inodes PROVE Counted(t)'
    <3>1. Counted(t) /\ t \in Sectors  BY <1>0, <2>1 DEF CountInv, MemoryInv
    <3>2. CASE t = s
      BY <3>1, <3>2, <1>3, <1>6, <1>7, <1>10, <1>11, HandlesFinite DEF Counted, Updated
    <3>3. CASE t # s
      BY <3>1, <3>3, <1>3, <1>6, <1>7, <1>11 DEF Counted, Updated
    <3> QED BY <3>2, <3>3
  <2> QED BY <1>0, <1>3, <1>11, <2>1 DEF CountInv, Updated
<1> QED BY <1>12, <1>13, <1>14, <1>15, <1>16, <1>17, <1>18 DEF FSInv

\* The last handle of an inode is closed exactly when its count says so.
LEMMA LastOpener ==
    ASSUME FSInv, op.kind = "close", NEW s, s = op.sector
    PROVE  s \in Opened <=> inodes[s].open_cnt > 1
<1>0. MemoryInv /\ CountInv  BY DEF FSInv
<1>1. s \in DOMAIN inodes /\ s \in Busy /\ s \in Sectors  BY Finishing
<1>2. /\ inodes[s].open_cnt = Cardinality(HandlesOn(s)) + 1
      /\ Cardinality(HandlesOn(s)) \in Nat /\ IsFiniteSet(HandlesOn(s))
  BY <1>0, <1>1, HandlesFinite DEF CountInv, Counted
<1>3. Cardinality(HandlesOn(s)) = 0 <=> HandlesOn(s) = {}  BY <1>2, FS_EmptySet
<1>4. s \in Opened <=> HandlesOn(s) # {}
  BY <1>1, FileSysAssumption DEF Opened, HandlesOn
<1> QED BY <1>2, <1>3, <1>4

\* inode_close() of the last opener takes one inode off the list.
LEMMA DropsInode ==
    ASSUME MemoryInv, NEW s \in DOMAIN inodes, NEW i, i = DropInode(s)
    PROVE  /\ DOMAIN i = DOMAIN inodes \ {s} /\ i \in [DOMAIN i -> InodeRec]
           /\ \A t \in DOMAIN i : i[t] = inodes[t]
<1>1. i = [t \in DOMAIN inodes \ {s} |-> inodes[t]]  BY DEF DropInode
<1>2. inodes \in [DOMAIN inodes -> InodeRec]  BY DEF MemoryInv, InodeRec
<1>3. \A t \in DOMAIN inodes : inodes[t] \in InodeRec  BY <1>2
<1>4. DOMAIN i = DOMAIN inodes \ {s}  BY <1>1
<1>5. i \in [DOMAIN inodes \ {s} -> InodeRec]  BY <1>1, <1>3
<1> QED BY <1>1, <1>4, <1>5

\* The last inode_close() keeps FSInv.
LEMMA CloseLastStep ==
    ASSUME FSInv, CloseLast
    PROVE  FSInv'
<1>0. OpInv /\ DiskInv /\ MemoryInv /\ LinkInv /\ CountInv /\ OwnInv /\ FreshInv /\ Accounted
  BY DEF FSInv
<1>1. /\ op.kind = "close" /\ op.at = "last"
      /\ UNCHANGED <<d_map, d_inode, d_data, d_dir, free_map, files>>
  BY DEF CloseLast, At, diskVars
<1>2. PICK s \in Sectors : /\ s = op.sector /\ s \in DOMAIN inodes /\ Busy = {s} /\ Fresh = {}
                           /\ Held = Files \union {s} /\ Gone = {} /\ op \in CloseOps
  BY <1>1, Finishing DEF Gone, RemoveOps, CloseOps
<1>3. inodes[s].open_cnt \in Int /\ inodes[s] \in InodeRec  BY <1>0, <1>2 DEF MemoryInv, InodeRec
<1>4. s \in Opened <=> inodes[s].open_cnt > 1  BY <1>1, <1>2, LastOpener
<1>5. Linked' = Linked /\ Opened' = Opened
      /\ \A t : HandlesOn(t)' = HandlesOn(t) /\ Deniers(t)' = Deniers(t)
  BY <1>1 DEF Linked, Opened, HandlesOn, Deniers
<1>6. DiskInv'  BY <1>0, <1>1 DEF DiskInv
<1>7. CASE inodes[s].open_cnt > 1
  <2>1. op' = Idle /\ inodes' = [inodes EXCEPT ![s].open_cnt = @ - 1] /\ leaked' = leaked
    BY <1>2, <1>3, <1>7 DEF CloseLast
  <2>2. PICK n \in Int : n = inodes[s].open_cnt - 1  BY <1>3
  <2>3. PICK i : i = inodes' /\ Updated(i, s, n, inodes[s].deny_write_cnt, inodes[s].removed)
    <3>1. inodes' = [inodes EXCEPT ![s].open_cnt = n]  BY <2>1, <2>2
    <3> QED BY <1>0, <1>2, <3>1, SetsOpenCnt
  <2>4. /\ op'.kind = "none" /\ Busy' = {} /\ Gone' = {} /\ Fresh' = {} /\ Held' = Files'
    BY <2>1 DEF Idle, Busy, Gone, Fresh, Held
  <2>5. Held' = Held  BY <1>2, <1>4, <1>5, <1>7, <2>4 DEF Files
  <2>6. OpInv'  BY <2>1, <2>4 DEF OpInv
  <2>7. MemoryInv'
    <3>1. \A t \in DOMAIN inodes' : t \in Sectors /\ inodes'[t].data = d_inode'[t]
      BY <1>0, <1>1, <2>3 DEF MemoryInv, Updated
    <3> QED BY <1>0, <1>1, <2>3, <3>1 DEF MemoryInv, Updated, InodeRec, Free
  <2>8. OwnInv' /\ Accounted'  BY <1>0, <1>1, <1>2, <2>1, <2>4, <2>5, OwnersKept
  <2>9. FreshInv'  BY <2>4 DEF FreshInv
  <2>10. LinkInv'
    <3>1. \A t \in DOMAIN inodes' : inodes'[t].removed => t \notin Linked'
      BY <1>0, <1>5, <2>3 DEF LinkInv, Updated
    <3> QED BY <1>0, <1>1, <2>4, <3>1 DEF LinkInv
  <2>11. CountInv'
    <3>1. ASSUME NEW t \in DOMAIN inodes PROVE Counted(t)'
      <4>1. Counted(t)  BY <1>0, <3>1 DEF CountInv
      <4>2. CASE t = s
        BY <4>1, <4>2, <1>2, <1>3, <1>5, <1>7, <2>2, <2>3, <2>4, HandlesFinite
           DEF Counted, Updated
      <4>3. CASE t # s  BY <4>1, <4>3, <1>2, <1>5, <2>3, <2>4 DEF Counted, Updated
      <4> QED BY <4>2, <4>3
    <3> QED BY <1>0, <1>5, <2>3, <3>1 DEF CountInv, Updated
  <2> QED BY <1>6, <2>6, <2>7, <2>8, <2>9, <2>10, <2>11 DEF FSInv
<1>8. CASE ~ (inodes[s].open_cnt > 1) /\ inodes[s].removed
  <2>1. Goto("release") /\ inodes' = inodes /\ leaked' = leaked
    BY <1>2, <1>3, <1>8 DEF CloseLast
  <2>2. PICK o : o = op' /\ o = [op EXCEPT !.at = "release"]  BY <2>1 DEF Goto
  <2>3. op' \in CloseOps /\ op'.kind = "close" /\ op'.at = "release" /\ op'.sector = s
    BY <1>1, <1>2, <2>2 DEF CloseOps
  <2>4. Busy' = {s} /\ Gone' = {} /\ Fresh' = {} /\ Held' = Files' \union {s}
    BY <2>3 DEF Busy, Gone, Fresh, Held
  <2>5. Held' = Held  BY <1>2, <1>5, <2>4 DEF Files
  <2>6. OpInv'  BY <2>3 DEF OpInv
  <2>7. MemoryInv'  BY <1>0, <1>1, <2>1 DEF MemoryInv, Free
  <2>8. OwnInv' /\ Accounted'  BY <1>0, <1>1, <1>2, <2>1, <2>4, <2>5, OwnersKept
  <2>9. FreshInv'  BY <2>3, <2>4 DEF FreshInv
  <2>10. LinkInv'
    <3>1. s \notin Linked  BY <1>0, <1>2, <1>8 DEF LinkInv
    <3>2. op'.sector \notin Files'  BY <1>4, <1>5, <1>8, <2>3, <3>1 DEF Files
    <3> QED BY <1>0, <1>1, <1>2, <1>5, <2>1, <2>3, <2>4, <3>2 DEF LinkInv
  <2>11. CountInv'  BY <1>0, <1>2, <1>5, <2>1, <2>4 DEF CountInv, Counted
  <2> QED BY <1>6, <2>6, <2>7, <2>8, <2>9, <2>10, <2>11 DEF FSInv
<1>9. CASE ~ (inodes[s].open_cnt > 1) /\ ~ inodes[s].removed
  <2>1. /\ op' = Idle /\ inodes' = DropInode(s)
        /\ leaked' = leaked \union (IF s \in Linked THEN {} ELSE DiskSectors(s))
    BY <1>2, <1>3, <1>9 DEF CloseLast
  <2>2. /\ DOMAIN inodes' = DOMAIN inodes \ {s} /\ inodes' \in [DOMAIN inodes' -> InodeRec]
        /\ \A t \in DOMAIN inodes' : inodes'[t] = inodes[t]
    BY <1>0, <1>2, <2>1, DropsInode
  <2>3. op'.kind = "none" /\ Busy' = {} /\ Gone' = {} /\ Fresh' = {} /\ Held' = Files'
    BY <2>1 DEF Idle, Busy, Gone, Fresh, Held
  <2>4. s \notin Opened  BY <1>2, <1>4, <1>9
  <2>5. Held' = Files /\ Held' \subseteq Held /\ (s \in Linked => Held' = Held)
    BY <1>2, <1>5, <2>3 DEF Files
  <2>6. OpInv'  BY <2>1, <2>3 DEF OpInv
  <2>7. MemoryInv'  BY <1>0, <1>1, <2>2 DEF MemoryInv, InodeRec, Free
  <2>8. OwnInv' /\ Accounted'
    <3>1. \A t : DiskSectors(t)' = DiskSectors(t)  BY <1>1 DEF DiskSectors
    <3>2. OwnInv'  BY <1>0, <1>1, <1>2, <2>3, <2>5, <3>1 DEF OwnInv
    <3>3. UNION {DiskSectors(t) : t \in Held} \subseteq leaked' \union UNION {DiskSectors(t) : t \in Held'}
      BY <1>2, <2>1, <2>5
    <3>4. leaked \subseteq leaked'  BY <2>1
    <3>5. Accounted'  BY <1>0, <1>1, <1>2, <2>3, <3>1, <3>3, <3>4 DEF Accounted
    <3> QED BY <3>2, <3>5
  <2>9. FreshInv'  BY <2>3 DEF FreshInv
  <2>10. LinkInv'  BY <1>0, <1>1, <1>5, <2>2, <2>3 DEF LinkInv
  <2>11. CountInv'
    <3>1. ASSUME NEW t \in DOMAIN inodes' PROVE Counted(t)'
      <4>1. Counted(t) /\ t # s /\ inodes'[t] = inodes[t]  BY <1>0, <2>2, <3>1 DEF CountInv
      <4> QED BY <4>1, <1>2, <1>5, <2>3 DEF Counted
    <3> QED BY <1>0, <1>5, <2>2, <2>4, <3>1 DEF CountInv
  <2> QED BY <1>6, <2>6, <2>7, <2>8, <2>9, <2>10, <2>11 DEF FSInv
<1> QED BY <1>3, <1>7, <1>8, <1>9

\* inode_close() releasing the inode's sector keeps FSInv.
LEMMA CloseReleaseStep ==
    ASSUME FSInv, CloseRelease
    PROVE  FSInv'
<1>0. OpInv /\ DiskInv /\ MemoryInv /\ LinkInv /\ CountInv /\ OwnInv /\ FreshInv /\ Accounted
  BY DEF FSInv
<1>1. /\ op.kind = "close" /\ op.at = "release" /\ Goto("release_data")
      /\ free_map' = free_map \ {op.sector} /\ free_map' \subseteq d_map' /\ d_map' \subseteq Sectors
      /\ UNCHANGED <<d_inode, d_data, d_dir, inodes, files, leaked>>
  BY <1>0, MapWrites DEF CloseRelease, At, history
<1>2. PICK s \in Sectors : /\ s = op.sector /\ s \in DOMAIN inodes /\ Busy = {s} /\ Fresh = {}
                           /\ Held = Files \union {s} /\ Gone = {} /\ op \in CloseOps
  BY <1>1, Finishing DEF Gone, RemoveOps, CloseOps
<1>3. PICK o : o = op' /\ o = [op EXCEPT !.at = "release_data"]  BY <1>1 DEF Goto
<1>4. op' \in CloseOps /\ op'.kind = "close" /\ op'.at = "release_data" /\ op'.sector = s
  BY <1>1, <1>2, <1>3 DEF CloseOps
<1>5. Busy' = {s} /\ Gone' = {s} /\ Fresh' = {} /\ Held' = Files' \union {s}
  BY <1>4 DEF Busy, Gone, Fresh, Held
<1>6. Linked' = Linked /\ Opened' = Opened
      /\ \A t : HandlesOn(t)' = HandlesOn(t) /\ Deniers(t)' = Deniers(t)
  BY <1>1 DEF Linked, Opened, HandlesOn, Deniers
<1>7. Held' = Held /\ Files' = Files  BY <1>2, <1>5, <1>6 DEF Files
<1>8. /\ \A t : DiskSectors(t)' = DiskSectors(t) /\ s \in DiskSectors(s)
  BY <1>1 DEF DiskSectors
<1>9. s \notin Reserved  BY <1>0, <1>2, <1>8 DEF OwnInv
<1>10. OpInv'  BY <1>4 DEF OpInv
<1>11. DiskInv'  BY <1>0, <1>1, <1>2, <1>9 DEF DiskInv
<1>12. MemoryInv'  BY <1>0, <1>1 DEF MemoryInv, Free
<1>13. OwnInv'
  <2>1. \A t \in Held \ {s} : DiskSectors(t) \subseteq free_map \ {s}
    BY <1>0, <1>2, <1>8 DEF OwnInv
  <2> QED BY <1>0, <1>1, <1>2, <1>5, <1>7, <1>8, <2>1 DEF OwnInv
<1>14. FreshInv'  BY <1>4, <1>5 DEF FreshInv
<1>15. Accounted'  BY <1>0, <1>1, <1>2, <1>5, <1>7, <1>8 DEF Accounted
<1>16. LinkInv'
  BY <1>0, <1>1, <1>2, <1>4, <1>5, <1>6, <1>7 DEF LinkInv
<1>17. CountInv'  BY <1>0, <1>1, <1>2, <1>5, <1>6 DEF CountInv, Counted
<1> QED BY <1>10, <1>11, <1>12, <1>13, <1>14, <1>15, <1>16, <1>17 DEF FSInv

\* inode_close() releasing the data sectors keeps FSInv.
LEMMA CloseReleaseDataStep ==
    ASSUME FSInv, CloseReleaseData
    PROVE  FSInv'
<1>0. OpInv /\ DiskInv /\ MemoryInv /\ LinkInv /\ CountInv /\ OwnInv /\ FreshInv /\ Accounted
  BY DEF FSInv
<1>1. PICK s \in Sectors : /\ s = op.sector /\ s \in DOMAIN inodes /\ Busy = {s} /\ Fresh = {}
                           /\ Held = Files \union {s} /\ inodes[s].data = d_inode[s]
                           /\ Gone = {s}
  BY Finishing DEF CloseReleaseData, At, Gone, history
<1>2. PICK D : D = DataSectors(d_inode[s])  OBVIOUS
<1>3. /\ op.kind = "close" /\ op.at = "release_data" /\ op' = Idle /\ inodes' = DropInode(s)
      /\ free_map' = free_map \ D /\ free_map' \subseteq d_map' /\ d_map' \subseteq Sectors
      /\ UNCHANGED <<d_inode, d_data, d_dir, files, leaked>>
  BY <1>0, <1>1, <1>2, MapWrites DEF CloseReleaseData, At, history
<1>4. op'.kind = "none" /\ Busy' = {} /\ Gone' = {} /\ Fresh' = {} /\ Held' = Files'
  BY <1>3 DEF Idle, Busy, Gone, Fresh, Held
<1>5. /\ DOMAIN inodes' = DOMAIN inodes \ {s} /\ inodes' \in [DOMAIN inodes' -> InodeRec]
      /\ \A t \in DOMAIN inodes' : inodes'[t] = inodes[t]
  <2>1. MemoryInv /\ s \in DOMAIN inodes /\ inodes' = DropInode(s)  BY <1>0, <1>1, <1>3
  <2> QED BY ONLY <2>1, DropsInode
<1>6. Linked' = Linked /\ Opened' = Opened
      /\ \A t : HandlesOn(t)' = HandlesOn(t) /\ Deniers(t)' = Deniers(t)
  BY <1>3 DEF Linked, Opened, HandlesOn, Deniers
<1>7. Files' = Files /\ s \notin Files /\ s \notin Opened
  BY <1>0, <1>1, <1>3, <1>6 DEF Files, LinkInv
<1>8. /\ \A t : DiskSectors(t)' = DiskSectors(t)
      /\ DiskSectors(s) = {s} \union D
  BY <1>2, <1>3 DEF DiskSectors
<1>9. /\ D \intersect Reserved = {} /\ s \notin free_map
      /\ \A t \in Files : DiskSectors(t) \intersect D = {}
      /\ \A t \in Files : DiskSectors(t) \subseteq free_map /\ DiskSectors(t) \intersect Reserved = {}
      /\ \A t, u \in Files : t # u => DiskSectors(t) \intersect DiskSectors(u) = {}
  BY <1>0, <1>1, <1>7, <1>8 DEF OwnInv
<1>10. OpInv'  BY <1>3, <1>4 DEF OpInv
<1>11. DiskInv'  BY <1>0, <1>3, <1>9 DEF DiskInv
<1>12. MemoryInv'  BY <1>0, <1>3, <1>5 DEF MemoryInv, InodeRec, Free
<1>13. OwnInv'
  <2>1. \A t \in Files : DiskSectors(t) \subseteq free_map \ D  BY <1>9
  <2> QED BY <1>3, <1>4, <1>7, <1>8, <1>9, <2>1 DEF OwnInv
<1>14. FreshInv'  BY <1>4 DEF FreshInv
<1>15. Accounted'
  <2>1. ASSUME NEW x \in free_map \ D
        PROVE  x \in Reserved \union leaked \union UNION {DiskSectors(t) : t \in Files}
    <3>1. x \notin DiskSectors(s)  BY <1>8, <1>9, <2>1
    <3> QED BY <1>0, <1>1, <2>1, <3>1 DEF Accounted
  <2> QED BY <1>3, <1>4, <1>7, <1>8, <2>1 DEF Accounted
<1>16. LinkInv'  BY <1>0, <1>3, <1>4, <1>5, <1>6 DEF LinkInv
<1>17. CountInv'
  <2>1. ASSUME NEW t \in DOMAIN inodes' PROVE Counted(t)'
    <3>1. Counted(t) /\ t # s /\ inodes'[t] = inodes[t]  BY <1>0, <1>5, <2>1 DEF CountInv
    <3> QED BY <3>1, <1>1, <1>4, <1>6 DEF Counted
  <2> QED BY <1>0, <1>5, <1>6, <1>7, <2>1 DEF CountInv
<1> QED BY <1>10, <1>11, <1>12, <1>13, <1>14, <1>15, <1>16, <1>17 DEF FSInv

\* A power failure and the next boot keep FSInv.
LEMMA CrashStep ==
    ASSUME FSInv, Crash
    PROVE  FSInv'
<1>0. OpInv /\ DiskInv /\ MemoryInv /\ LinkInv /\ CountInv /\ OwnInv /\ FreshInv /\ Accounted
  BY DEF FSInv
<1>1. /\ free_map' = d_map /\ inodes' = << >> /\ files' = [h \in Handles |-> NoFile]
      /\ op' = Idle /\ UNCHANGED <<d_map, d_inode, d_data, d_dir>>
      /\ leaked' = (d_map \ Reserved) \ UNION {DiskSectors(s) : s \in Linked}
  BY DEF Crash, free_map_open, diskVars
<1>2. op'.kind = "none" /\ Busy' = {} /\ Gone' = {} /\ Fresh' = {} /\ Held' = Files'
  BY <1>1 DEF Idle, Busy, Gone, Fresh, Held
<1>3. DOMAIN inodes' = {} /\ inodes' \in [DOMAIN inodes' -> InodeRec]
  <2>1. DOMAIN << >> = {}  OBVIOUS
  <2>2. << >> \in [DOMAIN << >> -> InodeRec]  BY <2>1
  <2> QED BY <1>1, <2>1, <2>2
<1>4. Linked' = Linked /\ Opened' = {} /\ Files' = Linked
  <2>1. Opened' = {}  BY <1>1 DEF Opened, NoFile
  <2> QED BY <1>1, <2>1 DEF Linked, Files
<1>5. \A s : DiskSectors(s)' = DiskSectors(s)  BY <1>1 DEF DiskSectors
<1>6. Linked \subseteq Held \ Gone  BY <1>0 DEF Held, Files, Gone, LinkInv
<1>7. OpInv'  BY <1>1, <1>2 DEF OpInv
<1>8. DiskInv'  BY <1>0, <1>1 DEF DiskInv
<1>9. MemoryInv'
  <2>1. NoFile \in FileRec  BY DEF NoFile, FileRec
  <2> QED BY <1>1, <1>3, <2>1 DEF MemoryInv, FileRec, InodeRec, Free
<1>10. OwnInv'
  <2>1. \A t \in Linked : DiskSectors(t) \subseteq d_map  BY <1>0, <1>6 DEF OwnInv, DiskInv
  <2>2. \A t \in Linked : DiskSectors(t) \intersect Reserved = {}  BY <1>0, <1>6 DEF OwnInv
  <2> QED BY <1>0, <1>1, <1>2, <1>4, <1>5, <1>6, <2>1, <2>2 DEF OwnInv
<1>11. FreshInv'  BY <1>2 DEF FreshInv
<1>12. LinkInv'  BY <1>0, <1>1, <1>2, <1>3 DEF LinkInv
<1>13. Accounted'  BY <1>1, <1>2, <1>4, <1>5 DEF Accounted
<1>14. CountInv'  BY <1>3, <1>4 DEF CountInv
<1> QED BY <1>7, <1>8, <1>9, <1>10, <1>11, <1>12, <1>13, <1>14 DEF FSInv

-----------------------------------------------------------------------------
(* The invariant, and what it says of sectors and counts.                  *)

\* A formatted disk satisfies FSInv.
LEMMA FSInvInit == Init => FSInv
<1> SUFFICES ASSUME Init PROVE FSInv
  OBVIOUS
<1>1. /\ d_map = Reserved /\ free_map = Reserved /\ inodes = << >> /\ op = Idle
      /\ leaked = {} /\ files = [h \in Handles |-> NoFile]
  BY DEF Init, free_map_create
<1>2. op.kind = "none" /\ Busy = {} /\ Gone = {} /\ Fresh = {}
  BY <1>1 DEF Idle, Busy, Gone, Fresh
<1>3. DOMAIN inodes = {} /\ inodes \in [DOMAIN inodes -> InodeRec]
  <2>1. DOMAIN << >> = {}  OBVIOUS
  <2>2. << >> \in [DOMAIN << >> -> InodeRec]  BY <2>1
  <2> QED BY <1>1, <2>1, <2>2
<1>4. \A k \in Slots : /\ ~ d_dir[k].in_use
                       /\ d_dir[k] \in [name : Names \union {NoId}, inode_sector : Sectors,
                                        in_use : BOOLEAN]
  <2>1. 0 \in Sectors  BY FileSysAssumption DEF Sectors
  <2> QED BY <2>1 DEF Init, dir_create
<1>5. Linked = {} /\ Opened = {}
  BY <1>1, <1>4 DEF Linked, Opened, NoFile
<1>6. Held = {}  BY <1>2, <1>5 DEF Held, Files
<1>7. OpInv  BY <1>1, <1>2 DEF OpInv
<1>8. DiskInv
  <2>1. d_dir \in [Slots -> [name : Names \union {NoId}, inode_sector : Sectors, in_use : BOOLEAN]]
    BY <1>4 DEF Init, dir_create
  <2>2. d_inode \in [Sectors -> Inodes]  BY DEF Init, Inodes
  <2>3. d_data \in [Sectors -> [0 .. SECTOR_SIZE - 1 -> Bytes]]
    BY FileSysAssumption DEF Init, Zeros
  <2> QED BY <1>1, <2>1, <2>2, <2>3, FileSysAssumption DEF DiskInv
<1>9. MemoryInv
  <2>1. NoFile \in FileRec  BY DEF NoFile, FileRec
  <2> QED BY <1>1, <1>3, <2>1 DEF MemoryInv, FileRec, InodeRec, Free
<1>10. OwnInv /\ FreshInv /\ Accounted  BY <1>1, <1>2, <1>6 DEF OwnInv, FreshInv, Accounted
<1>11. LinkInv  BY <1>2, <1>3, <1>4 DEF LinkInv
<1>12. CountInv  BY <1>3, <1>5 DEF CountInv
<1> QED BY <1>7, <1>8, <1>9, <1>10, <1>11, <1>12 DEF FSInv

\* Every step keeps FSInv.
LEMMA FSInvNext == FSInv /\ [Next]_vars => FSInv'
<1> SUFFICES ASSUME FSInv, [Next]_vars PROVE FSInv'
  OBVIOUS
<1>1. ASSUME NEW n \in Names, \/ \E size \in Sizes : Create(n, size)
                              \/ Remove(n)
                              \/ \E h \in Handles : Open(n, h)
      PROVE  FSInv'
  BY <1>1, BeginActions, RemoveStep, OpenActions
<1>2. CASE CreateAlloc \/ CreateData \/ CreateInode \/ CreateZero \/ CreateAdd
             \/ CreateAddStarved \/ CreateAddFails \/ CreateUndo
  BY <1>2, CreateAllocStep, CreateDataStep, CreateInodeStep, CreateZeroStep, CreateAddStep,
     CreateAddStarvedStep, CreateAddFailsStep, CreateUndoStep
<1>3. CASE RemoveErase \/ RemoveFails \/ CloseLast \/ CloseRelease \/ CloseReleaseData
  BY <1>3, RemoveEraseStep, RemoveFailsStep, CloseLastStep, CloseReleaseStep, CloseReleaseDataStep
<1>4. ASSUME NEW h \in Handles, \/ Close(h) \/ file_deny_write(h) \/ file_allow_write(h)
                                \/ \E g \in Handles : Reopen(h, g)
                                \/ \E pos \in Seeks : file_seek(h, pos)
                                \/ \E size \in Reads : Read(h, size)
                                \/ \E buf \in Buffers : Write(h, buf)
      PROVE  FSInv'
  BY <1>4, CloseStep, DenyStep, OpenActions, SeekStep, BeginActions
<1>5. CASE ReadChunk \/ WriteChunk \/ TransferEnds \/ TransferStarves \/ TransferReturns \/ Crash
  BY <1>5, ReadChunkStep, WriteChunkStep, TransferEndsStep, CrashStep
<1>6. CASE UNCHANGED vars
  <2>1. UNCHANGED <<d_map, d_inode, d_data, d_dir, free_map, inodes, files, op, leaked>>
    BY <1>6 DEF vars, diskVars, memVars, history
  <2>2. /\ Busy' = Busy /\ Gone' = Gone /\ Fresh' = Fresh /\ Linked' = Linked /\ Opened' = Opened
        /\ \A s : /\ DiskSectors(s)' = DiskSectors(s) /\ HandlesOn(s)' = HandlesOn(s)
                  /\ Deniers(s)' = Deniers(s)
        /\ NewInode' = NewInode
    BY <2>1 DEF Busy, Gone, Fresh, Linked, Opened, DiskSectors, HandlesOn, Deniers, NewInode
  <2>3. Held' = Held /\ Files' = Files  BY <2>2 DEF Held, Files
  <2>4. OpInv' /\ DiskInv' /\ MemoryInv'
    BY <2>1 DEF FSInv, OpInv, DiskInv, MemoryInv, Free
  <2>5. OwnInv' /\ FreshInv' /\ Accounted'
    BY <2>1, <2>2, <2>3 DEF FSInv, OwnInv, FreshInv, Accounted
  <2>6. LinkInv' /\ CountInv'
    BY <2>1, <2>2, <2>3 DEF FSInv, LinkInv, CountInv, Counted
  <2> QED BY <2>4, <2>5, <2>6 DEF FSInv
<1> QED BY <1>1, <1>2, <1>3, <1>4, <1>5, <1>6 DEF Next

\* FSInv is inductive: create, remove, open, close, transfers and a power failure between
\* any two writes keep the free map, the directory, the inodes on disk and in memory and
\* the handles in agreement.
THEOREM FileSysInvariant == Spec => []FSInv
BY FSInvInit, FSInvNext, PTL DEF Spec

\* inode_open(), inode_close() and the deny-write counts, for any number of files and
\* handles: an inode is open exactly while handles or the operation in progress refer to
\* it, and counts them.
THEOREM CountsAreExact == Spec => []CountsMatch
<1>1. FSInv => CountsMatch
  BY DEF FSInv, CountInv, Counted, CountsMatch, Deniers, Busy
<1> QED BY <1>1, FileSysInvariant, PTL

\* free_map_allocate() and free_map_release(), for any disk, directory and sizes of files
\* and wherever the power fails: no sector is in two files or free while a file has it,
\* and none is lost but the data of a file dir_add() failed for, a file whose entry
\* dir_add() wrote over for lack of memory, and what a crash left behind.
THEOREM SectorsAreKept == Spec => []SectorsKept
<1>1. FSInv => SectorsKept
  <2> SUFFICES ASSUME FSInv PROVE SectorsKept
    OBVIOUS
  <2>0. OpInv /\ DiskInv /\ MemoryInv /\ OwnInv /\ FreshInv /\ LinkInv /\ Accounted
    BY DEF FSInv
  <2>1. Files \subseteq Sectors /\ Busy \subseteq Sectors  BY <2>0, FilesAreSectors
  <2>2. \A s \in Sectors : SectorsOf(s) = DiskSectors(s)
    BY <2>0 DEF SectorsOf, DiskSectors, Data, MemoryInv
  <2>3. \A s \in Files : s \in Held \ Gone
    BY <2>0 DEF LinkInv, Held, Gone
  <2>4. SectorsDisjoint
    <3>1. \A s \in Files : SectorsOf(s) \subseteq d_map \ Reserved
      BY <2>0, <2>1, <2>2, <2>3 DEF OwnInv, DiskInv
    <3>2. \A s, t \in Files : s # t => SectorsOf(s) \intersect SectorsOf(t) = {}
      BY <2>0, <2>1, <2>2, <2>3 DEF OwnInv
    <3>3. ASSUME At("create", "zero"), NEW s \in Files
          PROVE  SectorsOf(s) \intersect ({op.sector} \union DataSectors(NewInode)) = {}
      <4>1. Fresh = {op.sector} \union DataSectors(NewInode)  BY <3>3 DEF At, Fresh
      <4> QED BY <4>1, <2>0, <2>1, <2>2, <2>3 DEF FreshInv
    <3> QED BY <3>1, <3>2, <3>3 DEF SectorsDisjoint
  <2>5. SectorsAccounted
    <3>1. Fresh \subseteq InProgress  BY DEF Fresh, InProgress
    <3>2. \A s \in Busy : DiskSectors(s) \subseteq InProgress
      BY <2>1, <2>2 DEF Busy, InProgress
    <3>3. \A s \in Files : DiskSectors(s) = SectorsOf(s)  BY <2>1, <2>2
    <3>4. UNION {DiskSectors(s) : s \in Held} \subseteq InProgress \union UNION {SectorsOf(s) : s \in Files}
      BY <3>2, <3>3 DEF Held
    <3> QED BY <2>0, <3>1, <3>4 DEF Accounted, SectorsAccounted, DiskInv
  <2> QED BY <2>4, <2>5 DEF SectorsKept
<1> QED BY <1>1, FileSysInvariant, PTL

-----------------------------------------------------------------------------
(* inode_read_at().                                                        *)

\* c are the bytes of file s, whose inode is d, and they are in its own sectors.
Holds(s, d, c) ==
    /\ d \in Inodes /\ Data(s) = d /\ c \in Seq(Bytes) /\ Len(c) = d.length
    /\ \A k \in 1 .. d.length :
          /\ sector_idx(d, k - 1) \in DiskSectors(s) /\ sector_idx(d, k - 1) \in Sectors
          /\ c[k] = d_data[sector_idx(d, k - 1)][sector_ofs(k - 1)]

\* The content of a file is what its data sectors hold, byte by byte.
LEMMA ContentIs ==
    ASSUME FSInv, NEW s \in Files, NEW c, c = Content(s), NEW d, d = d_inode[s]
    PROVE  Holds(s, d, c)
<1>0. OpInv /\ DiskInv /\ MemoryInv /\ OwnInv /\ LinkInv  BY DEF FSInv
<1>1. s \in Sectors /\ s \in Held \ Gone
  BY <1>0, FilesAreSectors DEF Held, Gone, LinkInv
<1>2. d \in Inodes /\ d.length \in Nat /\ d.start \in Int  BY <1>0, <1>1 DEF DiskInv, Inodes
<1>3. Data(s) = d  BY <1>0 DEF Data, MemoryInv
<1>4. c = [i \in 1 .. d.length |-> d_data[sector_idx(d, i - 1)][sector_ofs(i - 1)]]
  BY <1>3 DEF Content, inode_length, sector_idx, sector_ofs
<1>5. ASSUME NEW k \in 1 .. d.length
      PROVE  /\ sector_idx(d, k - 1) \in DiskSectors(s) /\ sector_idx(d, k - 1) \in Sectors
             /\ d_data[sector_idx(d, k - 1)][sector_ofs(k - 1)] \in Bytes
  <2>1. k - 1 \in Nat /\ k - 1 < d.length  BY <1>2
  <2>2. sector_idx(d, k - 1) \in DiskSectors(s)
    BY <1>2, <2>1, SectorOfByte DEF DiskSectors
  <2>3. sector_idx(d, k - 1) \in Sectors  BY <1>0, <1>1, <2>2 DEF OwnInv, DiskInv
  <2>4. sector_ofs(k - 1) \in 0 .. SECTOR_SIZE - 1
    BY <2>1, Division, FileSysAssumption DEF sector_ofs
  <2> QED BY <1>0, <2>2, <2>3, <2>4 DEF DiskInv
<1>6. c \in [1 .. d.length -> Bytes]  BY <1>4, <1>5
<1>7. c \in Seq(Bytes) /\ Len(c) = d.length  BY <1>2, <1>6
<1>8. \A k \in 1 .. d.length : c[k] = d_data[sector_idx(d, k - 1)][sector_ofs(k - 1)]
  BY <1>4
<1> QED BY <1>2, <1>3, <1>5, <1>7, <1>8 DEF Holds

\* What has been read are the bytes before the position, and why the loop has ended.
ReadInv ==
    op.kind = "read" =>
        LET f == files[op.handle]
            n == Len(op.buffer)
        IN /\ n > 0 => /\ f.pos - n >= 0 /\ f.pos <= d_inode[f.inode].length
                       /\ \A i \in 1 .. n : op.buffer[i] = Content(f.inode)[f.pos - n + i]
           /\ op.at = "done" => op.size = 0 \/ f.pos >= d_inode[f.inode].length
           /\ op.at = "starved" => \/ f.pos % SECTOR_SIZE # 0 \/ op.size < SECTOR_SIZE
                                   \/ d_inode[f.inode].length - f.pos < SECTOR_SIZE

\* A turn of inode_read_at() appends the bytes of the file at its position.
LEMMA ReadChunkReads ==
    ASSUME FSInv, FSInv', ReadInv, ReadChunk
    PROVE  ReadInv'
<1>0. OpInv /\ DiskInv /\ MemoryInv  BY DEF FSInv
<1>1. PICK tr : tr = Transfer  OBVIOUS
<1>2. PICK got : got = [i \in 1 .. tr.n |-> d_data[tr.sector][sector_ofs(tr.ofs) + i - 1]]
  OBVIOUS
<1>3. /\ op.kind = "read" /\ op.at = "chunk" /\ tr.n > 0 /\ Advance(tr.n, op.buffer \o got)
      /\ UNCHANGED <<d_map, d_inode, d_data, d_dir, free_map, inodes, leaked>>
  BY <1>1, <1>2 DEF ReadChunk, At, diskVars, history
<1>4. /\ got \in Seq(Bytes) /\ Len(got) = tr.n /\ op.buffer \in Seq(Bytes)
      /\ op.buffer \o got \in Seq(Bytes)
  BY <1>1, <1>2, <1>3, ChunkRead
<1>5. Fits(tr) /\ tr.n \in Nat /\ tr.n <= op.size /\ op.handle \in Handles
      /\ files[op.handle].inode \in Opened
  BY <1>1, <1>3, TransferFits DEF Fits
<1>6. /\ Advanced(op', tr.n, op.buffer \o got)
      /\ Changed(files', op.handle, files[op.handle].deny_write)
      /\ files'[op.handle].pos = files[op.handle].pos + tr.n
  BY <1>0, <1>3, <1>4, <1>5, AdvanceStep DEF DiskInv
<1>7. PICK s : s = files[op.handle].inode  OBVIOUS
<1>8. PICK pos \in Nat : pos = files[op.handle].pos /\ pos = tr.ofs  BY <1>5 DEF Fits
<1>9. PICK d : d = d_inode[s] /\ d \in Inodes /\ d = tr.d /\ d.length \in Nat
  BY <1>5, <1>7 DEF Fits, Inodes
<1>10. /\ op'.kind = "read" /\ op'.at = "chunk" /\ op'.handle = op.handle
       /\ op'.buffer = op.buffer \o got
       /\ files'[op.handle].inode = s /\ files'[op.handle].pos = pos + tr.n
       /\ d_inode'[s] = d
  BY <1>3, <1>6, <1>7, <1>8, <1>9 DEF Advanced, Changed
<1>11. s \in Files  BY <1>5, <1>7 DEF Files
<1>12. PICK c : c = Content(s)  OBVIOUS
<1>13. \A k \in 1 .. d.length : c[k] = d_data[sector_idx(d, k - 1)][sector_ofs(k - 1)]
  <2>1. Holds(s, d, c)  BY <1>9, <1>11, <1>12, ContentIs
  <2> QED BY <2>1 DEF Holds
<1>14. Content(s)' = c
  BY <1>3, <1>12 DEF Content, Data, inode_length
<1>15. pos + tr.n <= d.length  BY <1>5, <1>8, <1>9 DEF Fits
<1>16. \A i \in 1 .. tr.n : got[i] = c[pos + i]
  <2>1. SUFFICES ASSUME NEW i \in 1 .. tr.n PROVE got[i] = c[pos + i]
    OBVIOUS
  <2>2. SECTOR_SIZE \in Nat \ {0}  BY FileSysAssumption
  <2>3. i - 1 \in Nat /\ (pos % SECTOR_SIZE) + (i - 1) < SECTOR_SIZE
    BY <1>5, <1>8, <2>2 DEF Fits, sector_ofs
  <2>4. PICK a \in Nat : a = pos + (i - 1)  BY <2>3
  <2>5. a \div SECTOR_SIZE = pos \div SECTOR_SIZE /\ a % SECTOR_SIZE = (pos % SECTOR_SIZE) + (i - 1)
    <3>1. PICK N \in Nat \ {0}, j \in Nat : N = SECTOR_SIZE /\ j = i - 1  BY <2>2, <2>3
    <3>2. (pos % N) + j < N  BY <2>3, <3>1
    <3>3. (pos + j) \div N = pos \div N /\ (pos + j) % N = (pos % N) + j  BY <3>2, Division
    <3> QED BY <2>4, <3>1, <3>3
  <2>6. sector_idx(d, a) = tr.sector /\ sector_ofs(a) = sector_ofs(tr.ofs) + (i - 1)
    <3>1. tr.sector = sector_idx(d, pos) /\ tr.ofs = pos  BY <1>5, <1>8, <1>9 DEF Fits
    <3>2. sector_idx(d, a) = sector_idx(d, pos)  BY <2>5 DEF sector_idx
    <3>3. sector_ofs(a) = sector_ofs(pos) + (i - 1)  BY <2>5 DEF sector_ofs
    <3> QED BY <3>1, <3>2, <3>3
  <2>7. pos + i \in 1 .. d.length /\ (pos + i) - 1 = a  BY <1>5, <1>15, <1>9, <2>4
  <2>8. c[pos + i] = d_data[sector_idx(d, a)][sector_ofs(a)]  BY <1>13, <2>7
  <2>9. sector_ofs(tr.ofs) \in Int  BY <1>5, <2>2 DEF Fits
  <2>10. sector_ofs(tr.ofs) + (i - 1) = sector_ofs(tr.ofs) + i - 1  BY <2>9
  <2>11. got[i] = d_data[tr.sector][sector_ofs(tr.ofs) + i - 1]  BY <1>2
  <2> QED BY <2>6, <2>8, <2>10, <2>11
<1>17. PICK b \in Seq(Bytes) : b = op.buffer  BY <1>4
<1>18. PICK m \in Nat : m = Len(b)  OBVIOUS
<1>19. PICK b2 \in Seq(Bytes) : b2 = b \o got  BY <1>4, <1>17
<1>20. /\ Len(b2) = m + tr.n
       /\ \A i \in 1 .. m + tr.n : b2[i] = IF i <= m THEN b[i] ELSE got[i - m]
  <2>1. \A x, y \in Seq(Bytes) :
          /\ Len(x \o y) = Len(x) + Len(y)
          /\ \A i \in 1 .. Len(x) + Len(y) : (x \o y)[i] = IF i <= Len(x) THEN x[i] ELSE y[i - Len(x)]
    BY ConcatProperties
  <2>2. /\ Len(b \o got) = Len(b) + Len(got)
        /\ \A i \in 1 .. Len(b) + Len(got) :
              (b \o got)[i] = IF i <= Len(b) THEN b[i] ELSE got[i - Len(b)]
    BY <1>4, <2>1, Zenon
  <2> QED BY <1>4, <1>18, <1>19, <2>2, Zenon
<1>21. m > 0 => pos - m >= 0 /\ \A i \in 1 .. m : b[i] = c[pos - m + i]
  BY <1>3, <1>7, <1>8, <1>12, <1>17, <1>18 DEF ReadInv
<1>22. (pos + tr.n) - Len(b2) = pos - m  BY <1>5, <1>20
<1>23. pos - m >= 0 \/ m = 0  BY <1>18, <1>21
<1>24. \A i \in 1 .. Len(b2) : b2[i] = c[(pos + tr.n) - Len(b2) + i]
  <2>1. SUFFICES ASSUME NEW i \in 1 .. m + tr.n PROVE b2[i] = c[pos - m + i]
    BY <1>20, <1>22
  <2>2. CASE i <= m  BY <1>18, <1>20, <1>21, <2>2
  <2>3. CASE ~ (i <= m)
    <3>1. i - m \in 1 .. tr.n  BY <1>5, <1>18, <2>3
    <3>2. got[i - m] = c[pos + (i - m)]  BY <1>16, <3>1
    <3>3. pos + (i - m) = pos - m + i  BY <1>18
    <3> QED BY <1>20, <2>3, <3>2, <3>3
  <2> QED BY <2>2, <2>3
<1>25. (pos + tr.n) - Len(b2) >= 0  BY <1>5, <1>18, <1>22, <1>23
<1> QED BY <1>9, <1>10, <1>14, <1>15, <1>17, <1>19, <1>24, <1>25 DEF ReadInv

\* The end of a transfer's loop changes where the operation is and nothing else.
LEMMA EndsKeep ==
    ASSUME OpInv, TransferEnds \/ TransferStarves
    PROVE  /\ op.kind \in {"read", "write"} /\ op'.kind = op.kind /\ op'.handle = op.handle
           /\ op'.size = op.size /\ op'.buffer = op.buffer
           /\ op'.at = IF TransferEnds THEN "done" ELSE "starved"
           /\ UNCHANGED <<d_inode, d_data, d_dir, inodes, files, starved>>
<1>1. /\ op.kind \in {"read", "write"} /\ UNCHANGED <<d_inode, d_data, d_dir, inodes, files, starved>>
      /\ op' = [op EXCEPT !.at = IF TransferEnds THEN "done" ELSE "starved"]
  <2>1. CASE TransferEnds
    BY <2>1 DEF TransferEnds, Chunks, Goto, diskVars, memVars, history
  <2>2. CASE ~ TransferEnds
    BY <2>2 DEF TransferStarves, Chunks, Goto, diskVars, memVars, history
  <2> QED BY <2>1, <2>2
<1>2. op \in TransferOps
  BY <1>1 DEF OpInv, Idle, CreateOps, RemoveOps, CloseOps, TransferOps
<1>3. PICK a : a = IF TransferEnds THEN "done" ELSE "starved"  OBVIOUS
<1>4. PICK o : o = op' /\ o = [op EXCEPT !.at = a]  BY <1>1, <1>3
<1>5. /\ o.kind = op.kind /\ o.handle = op.handle /\ o.size = op.size /\ o.buffer = op.buffer
      /\ o.at = a
  BY <1>2, <1>4 DEF TransferOps
<1> QED BY <1>1, <1>3, <1>4, <1>5

\* The loop of inode_read_at() ends where it says it does.
LEMMA ReadEnds ==
    ASSUME FSInv, ReadInv, op.kind = "read", TransferEnds \/ TransferStarves
    PROVE  ReadInv'
<1>0. OpInv /\ MemoryInv /\ DiskInv  BY DEF FSInv
<1>1. /\ op'.kind = "read" /\ op'.handle = op.handle /\ op'.size = op.size /\ op'.buffer = op.buffer
      /\ op'.at = IF TransferEnds THEN "done" ELSE "starved"
      /\ UNCHANGED <<d_inode, d_data, d_dir, inodes, files>>
  BY <1>0, EndsKeep
<1>2. \A s : Content(s)' = Content(s)  BY <1>1 DEF Content, Data, inode_length
<1>3. op.handle \in Handles /\ op.size \in Nat /\ files[op.handle].inode \in Opened
  BY TransferFits
<1>4. PICK s : s = files[op.handle].inode  OBVIOUS
<1>5. PICK pos \in Nat : pos = files[op.handle].pos  BY <1>0, <1>3 DEF MemoryInv
<1>6. PICK d : d = d_inode[s]  OBVIOUS
<1>7. s \in DOMAIN inodes /\ inodes[s].data = d /\ d.length \in Nat
  BY <1>0, <1>3, <1>4, <1>6 DEF FSInv, CountInv, MemoryInv, DiskInv, Inodes
<1>8. PICK k : k = chunk_size(d, pos, op.size)  OBVIOUS
<1>9. Transfer = [d |-> d, ofs |-> pos, n |-> k, sector |-> sector_idx(d, pos)]
  BY <1>4, <1>5, <1>7, <1>8 DEF Transfer
<1>10. Transfer.n = k  BY <1>9
<1>11. SECTOR_SIZE \in Nat \ {0} /\ sector_ofs(pos) \in 0 .. SECTOR_SIZE - 1
  BY Division, FileSysAssumption DEF sector_ofs
<1>12. op'.at = "done" => op.size = 0 \/ pos >= d.length
  <2>1. SUFFICES ASSUME TransferEnds, op.size # 0 PROVE pos >= d.length
    BY <1>1
  <2>2. k <= 0  BY <1>10, <2>1 DEF TransferEnds
  <2> QED BY <1>3, <1>7, <1>8, <1>11, <2>1, <2>2 DEF chunk_size, MinOf
<1>13. op'.at = "starved" => \/ pos % SECTOR_SIZE # 0 \/ op.size < SECTOR_SIZE
                             \/ d.length - pos < SECTOR_SIZE
  <2>1. SUFFICES ASSUME TransferStarves, pos % SECTOR_SIZE = 0
                 PROVE  op.size < SECTOR_SIZE \/ d.length - pos < SECTOR_SIZE
    BY <1>1
  <2>2. k < SECTOR_SIZE  BY <1>10, <2>1 DEF TransferStarves
  <2>3. sector_ofs(pos) = 0  BY <2>1 DEF sector_ofs
  <2> QED BY <1>3, <1>7, <1>8, <1>11, <2>2, <2>3 DEF chunk_size, MinOf
<1> QED BY <1>1, <1>2, <1>4, <1>5, <1>6, <1>12, <1>13 DEF ReadInv

\* The kind of an operation stays until it is over.
LEMMA CreateOrIdle ==
    ASSUME OpInv, \/ CreateAlloc \/ CreateData \/ CreateInode \/ CreateZero \/ CreateAdd
                  \/ CreateAddStarved \/ CreateAddFails \/ CreateUndo
    PROVE  op.kind = "create" /\ op'.kind \in {"none", "create"}
<1>1. op.kind = "create"
  BY DEF CreateAlloc, CreateData, CreateInode, CreateZero, CreateAdd, CreateAddStarved, CreateAddFails,
     CreateUndo, At
<1>2. op \in CreateOps  BY <1>1, Creating
<1>3. Idle.kind = "none"  BY DEF Idle
<1>4. \A a : [op EXCEPT !.at = a].kind = "create" /\ [op EXCEPT !.next = a].kind = "create"
  BY <1>1, <1>2 DEF CreateOps
<1>5. CASE CreateAlloc
  <2>1. PICK s : s = FirstRun(1)  OBVIOUS
  <2>2. op' = Idle \/ op' = [op EXCEPT !.at = "data", !.sector = s]
    BY <1>5, <2>1 DEF CreateAlloc, history
  <2>3. [op EXCEPT !.at = "data", !.sector = s].kind = "create"  BY <1>1, <1>2 DEF CreateOps
  <2> QED BY <1>1, <1>3, <2>2, <2>3
<1>6. CASE CreateData
  <2>1. PICK s : s = FirstRun(bytes_to_sectors(op.size))  OBVIOUS
  <2>2. \/ op' = [op EXCEPT !.at = "undo"]
        \/ op' = [op EXCEPT !.at = "inode", !.start = s, !.next = s]
    BY <1>6, <2>1 DEF CreateData, Goto, history
  <2>3. [op EXCEPT !.at = "inode", !.start = s, !.next = s].kind = "create"
    BY <1>1, <1>2 DEF CreateOps
  <2> QED BY <1>1, <1>4, <2>2, <2>3
<1>7. CASE CreateZero
  <2>1. op' = [op EXCEPT !.at = "add"] \/ op' = [op EXCEPT !.next = op.next + 1]
    BY <1>7 DEF CreateZero, Goto, history
  <2> QED BY <1>1, <1>4, <2>1
<1>8. CASE CreateInode  BY <1>1, <1>4, <1>8 DEF CreateInode, Goto, history
<1>9. CASE CreateAddFails  BY <1>1, <1>4, <1>9 DEF CreateAddFails, Goto
<1>10. CASE CreateAdd \/ CreateAddStarved \/ CreateUndo
  BY <1>1, <1>3, <1>10 DEF CreateAdd, CreateAddStarved, CreateUndo
<1> QED BY <1>5, <1>6, <1>7, <1>8, <1>9, <1>10

\* The steps of filesys_remove() and file_close() belong to no transfer.
LEMMA CloseOrIdle ==
    ASSUME OpInv, \/ RemoveErase \/ RemoveFails \/ CloseLast \/ CloseRelease \/ CloseReleaseData
                  \/ \E n \in Names : Remove(n)
                  \/ \E h \in Handles : Close(h)
    PROVE  op.kind \in {"none", "remove", "close"} /\ op'.kind \in {"none", "remove", "close"}
<1>1. Idle.kind = "none" /\ \A s : Closing(s).kind = "close"  BY DEF Idle, Closing
<1>2. CASE \/ RemoveErase \/ RemoveFails \/ CloseReleaseData \/ \E h \in Handles : Close(h)
  BY <1>1, <1>2 DEF RemoveErase, RemoveFails, CloseReleaseData, At, Close, Begin, history
<1>3. CASE \E n \in Names : Remove(n)
  <2>1. PICK k, s : op = Idle /\ op' = [kind |-> "remove", at |-> "erase", slot |-> k, sector |-> s]
    BY <1>3 DEF Remove, Begin, history
  <2> QED BY <1>1, <2>1
<1>4. CASE CloseLast \/ CloseRelease
  <2>1. op.kind = "close"  BY <1>4 DEF CloseLast, CloseRelease, At, history
  <2>2. op \in CloseOps
    BY <2>1 DEF OpInv, Idle, CreateOps, RemoveOps, CloseOps, TransferOps
  <2>3. op' = Idle \/ \E a : op' = [op EXCEPT !.at = a]
    BY <1>4 DEF CloseLast, CloseRelease, Goto, history
  <2>4. \A a : [op EXCEPT !.at = a].kind = "close"  BY <2>2 DEF CloseOps
  <2> QED BY <1>1, <2>1, <2>3, <2>4
<1> QED BY <1>2, <1>3, <1>4

\* Every step keeps ReadInv.
LEMMA ReadInvNext == FSInv /\ FSInv' /\ ReadInv /\ [Next]_vars => ReadInv'
<1> SUFFICES ASSUME FSInv, FSInv', ReadInv, [Next]_vars, op'.kind = "read" PROVE ReadInv'
  BY DEF ReadInv
<1>0. OpInv /\ Idle.kind = "none"  BY DEF FSInv, Idle
<1>1. CASE \/ CreateAlloc \/ CreateData \/ CreateInode \/ CreateZero \/ CreateAdd
           \/ CreateAddStarved \/ CreateAddFails \/ CreateUndo
  BY <1>0, <1>1, CreateOrIdle
<1>2. CASE \/ RemoveErase \/ RemoveFails \/ CloseLast \/ CloseRelease \/ CloseReleaseData
           \/ \E n \in Names : Remove(n)
           \/ \E h \in Handles : Close(h)
  BY <1>0, <1>2, CloseOrIdle
<1>3. ASSUME NEW h \in Handles,
             \/ \E n \in Names : Open(n, h)
             \/ \E g \in Handles : Reopen(h, g)
             \/ \E pos \in Seeks : file_seek(h, pos)
             \/ file_deny_write(h) \/ file_allow_write(h)
      PROVE  FALSE
  <2>1. op = Idle /\ op' = op
    BY <1>3 DEF Open, Reopen, file_seek, file_deny_write, file_allow_write, history
  <2> QED BY <1>0, <2>1
<1>4. ASSUME NEW n \in Names, NEW size \in Sizes, Create(n, size) PROVE FALSE
  BY <1>4 DEF Create, Begin, history
<1>5. ASSUME NEW h \in Handles, NEW buf \in Buffers, Write(h, buf) PROVE FALSE
  BY <1>5 DEF Write, Begin, history
<1>6. ASSUME NEW h \in Handles, NEW size \in Reads, Read(h, size) PROVE ReadInv'
  <2>1. op'.buffer = << >> /\ op'.at = "chunk"  BY <1>6 DEF Read, Begin, history
  <2>2. Len(op'.buffer) = 0  BY <2>1
  <2> QED BY <2>1, <2>2 DEF ReadInv
<1>7. CASE WriteChunk
  <2>1. op.kind = "write" /\ op \in TransferOps
    BY <1>0, <1>7 DEF WriteChunk, At, OpInv, Idle, CreateOps, RemoveOps, CloseOps, TransferOps, history
  <2>2. \E a, b, c : op' = [op EXCEPT !.size = a, !.buffer = b, !.bounce = c]
    BY <1>7 DEF WriteChunk, Advance, history
  <2>3. \A a, b, c : [op EXCEPT !.size = a, !.buffer = b, !.bounce = c].kind = op.kind
    BY <2>1 DEF TransferOps
  <2> QED BY <2>1, <2>2, <2>3
<1>8. CASE TransferReturns \/ Crash  BY <1>0, <1>8 DEF TransferReturns, Crash, history
<1>10. CASE TransferEnds \/ TransferStarves
  <2>1. op.kind = "read"  BY <1>0, <1>10, EndsKeep
  <2> QED BY <1>10, <2>1, ReadEnds
<1>9. CASE UNCHANGED vars
  <2>1. UNCHANGED <<d_map, d_inode, d_data, d_dir, free_map, inodes, files, op>>
    BY <1>9 DEF vars, diskVars, memVars
  <2>2. \A s : Content(s)' = Content(s)  BY <2>1 DEF Content, Data, inode_length
  <2> QED BY <2>1, <2>2 DEF ReadInv
<1> QED BY <1>1, <1>2, <1>3, <1>4, <1>5, <1>6, <1>7, <1>8, <1>9, <1>10, ReadChunkReads DEF Next

\* ReadInv is what ReadsExactly asks of a finished read.
LEMMA ReadInvExact == FSInv /\ ReadInv => ReadsExactly
<1> SUFFICES ASSUME FSInv, ReadInv, op.kind = "read" PROVE ReadsExactly
  BY DEF ReadsExactly
<1>0. OpInv /\ MemoryInv  BY DEF FSInv
<1>1. Fits(Transfer) /\ op.handle \in Handles /\ op.size \in Nat
      /\ files[op.handle].inode \in Opened
  BY TransferFits
<1>2. PICK s : s = files[op.handle].inode  OBVIOUS
<1>3. PICK pos \in Nat : pos = files[op.handle].pos  BY <1>1 DEF Fits
<1>4. PICK b \in Seq(Bytes) : b = op.buffer
  BY <1>0 DEF OpInv, Idle, CreateOps, RemoveOps, CloseOps, TransferOps
<1>5. PICK c : c = Content(s)  OBVIOUS
<1>6. PICK d : d = d_inode[s]  OBVIOUS
<1>7. Holds(s, d, c)  BY <1>1, <1>2, <1>5, <1>6, ContentIs DEF Files
<1>8. d.length \in Nat /\ Data(s) = d /\ c \in Seq(Bytes) /\ Len(c) = d.length
  BY <1>7 DEF Holds, Inodes
<1>9. PICK n \in Nat : n = Len(b)  OBVIOUS
<1>10. n > 0 => b = SubSeq(c, pos - n + 1, pos)
  <2>1. SUFFICES ASSUME n > 0 PROVE b = SubSeq(c, pos - n + 1, pos)
    OBVIOUS
  <2>2. pos - n >= 0 /\ pos <= d.length /\ \A i \in 1 .. n : b[i] = c[pos - n + i]
    BY <1>2, <1>3, <1>4, <1>5, <1>6, <1>9, <2>1 DEF ReadInv
  <2>3. PICK m \in Int : m = pos - n + 1  OBVIOUS
  <2>4. \A i \in m .. pos : c[i] \in Bytes
    BY <1>8, <2>2, <2>3
  <2>5. PICK t : t = SubSeq(c, m, pos)  OBVIOUS
  <2>6. /\ t \in Seq(Bytes) /\ Len(t) = n
        /\ \A i \in 1 .. n : t[i] = c[m + i - 1]
    <3>1. /\ t \in Seq(Bytes) /\ Len(t) = IF m <= pos THEN pos - m + 1 ELSE 0
          /\ \A i \in 1 .. pos - m + 1 : t[i] = c[m + i - 1]
      BY <2>4, <2>5, SubSeqProperties
    <3>2. m <= pos /\ pos - m + 1 = n  BY <2>1, <2>3
    <3> QED BY <3>1, <3>2
  <2>7. \A i \in 1 .. n : b[i] = t[i]
    <3>1. \A i \in 1 .. n : m + i - 1 = pos - n + i  BY <2>3
    <3> QED BY <2>2, <2>6, <3>1
  <2>8. b = t  BY <1>9, <2>6, <2>7, SeqEqual
  <2> QED BY <2>3, <2>5, <2>8
<1>11. inode_length(s) = d.length  BY <1>8 DEF inode_length
<1> QED BY <1>2, <1>3, <1>4, <1>5, <1>6, <1>9, <1>10, <1>11 DEF ReadsExactly, ReadInv

\* inode_read_at(), for files and reads of any size: what has been read is what the file
\* holds before the position reached, and a read ends only at its size, at the end of the
\* file, or for lack of memory and then only where it needs part of a sector.
THEOREM ReadsAreExact == Spec => []ReadsExactly
<1>1. Init => ReadInv
  BY DEF Init, ReadInv, Idle
<1> QED BY <1>1, ReadInvNext, ReadInvExact, FileSysInvariant, PTL DEF Spec

-----------------------------------------------------------------------------
(* What the refinement of FileStore needs besides FSInv.                   *)

\* A write is under way only where nobody denies it; the sectors of a file being created
\* are zeroed up to op.next.
WriteInv == op.kind = "write" => inodes[files[op.handle].inode].deny_write_cnt = 0
ZeroInv ==
    op.kind = "create" =>
        /\ op.at = "inode" => op.next = op.start
        /\ op.at = "zero" => /\ op.next >= op.start
                             /\ \A x \in DataSectors(NewInode) : x < op.next => d_data[x] = Zeros
        /\ op.at = "add" => \A x \in DataSectors(NewInode) : d_data[x] = Zeros
StoreInv == WriteInv /\ ZeroInv

\* A chunk leaves the operation, its handle and that handle's inode as they are.
LEMMA ChunkKeeps ==
    ASSUME OpInv, MemoryInv, ReadChunk \/ WriteChunk
    PROVE  /\ op.kind \in {"read", "write"} /\ op'.kind = op.kind /\ op.handle \in Handles
           /\ op'.handle = op.handle /\ files'[op.handle].inode = files[op.handle].inode
           /\ inodes' = inodes
<1>1. /\ op.kind \in {"read", "write"} /\ op \in TransferOps /\ op.handle \in Handles
      /\ inodes' = inodes
  BY DEF ReadChunk, WriteChunk, At, OpInv, Idle, CreateOps, RemoveOps, CloseOps, TransferOps, history
<1>2. \E n, b : Advance(n, b)
  <2>1. CASE ReadChunk
    <3>1. PICK tr : tr = Transfer  OBVIOUS
    <3>2. PICK got : got = [i \in 1 .. tr.n |-> d_data[tr.sector][sector_ofs(tr.ofs) + i - 1]]
      OBVIOUS
    <3>3. Advance(tr.n, op.buffer \o got)  BY <2>1, <3>1, <3>2 DEF ReadChunk, history
    <3> QED BY <3>3
  <2>2. CASE WriteChunk
    <3>1. Advance(Transfer.n, SubSeq(op.buffer, Transfer.n + 1, Len(op.buffer)))
      BY <2>2 DEF WriteChunk, history
    <3> QED BY <3>1
  <2> QED BY <2>1, <2>2
<1>3. PICK n, b : Advance(n, b)  BY <1>2
<1>4. PICK a, c, p : /\ op' = [op EXCEPT !.size = a, !.buffer = b, !.bounce = c]
                     /\ files' = [files EXCEPT ![op.handle].pos = p]
  BY <1>3 DEF Advance
<1>5. op'.kind = op.kind /\ op'.handle = op.handle  BY <1>1, <1>4 DEF TransferOps
<1>6. files'[op.handle].inode = files[op.handle].inode  BY <1>1, <1>4 DEF MemoryInv
<1> QED BY <1>1, <1>5, <1>6

\* Every step keeps WriteInv.
LEMMA WriteInvNext == FSInv /\ FSInv' /\ WriteInv /\ [Next]_vars => WriteInv'
<1> SUFFICES ASSUME FSInv, FSInv', WriteInv, [Next]_vars, op'.kind = "write" PROVE WriteInv'
  BY DEF WriteInv
<1>0. OpInv /\ DiskInv /\ Idle.kind = "none"  BY DEF FSInv, Idle
<1>1. CASE \/ CreateAlloc \/ CreateData \/ CreateInode \/ CreateZero \/ CreateAdd
           \/ CreateAddStarved \/ CreateAddFails \/ CreateUndo
  BY <1>0, <1>1, CreateOrIdle
<1>2. CASE \/ RemoveErase \/ RemoveFails \/ CloseLast \/ CloseRelease \/ CloseReleaseData
           \/ \E n \in Names : Remove(n)
           \/ \E h \in Handles : Close(h)
  BY <1>0, <1>2, CloseOrIdle
<1>3. ASSUME NEW h \in Handles,
             \/ \E n \in Names : Open(n, h)
             \/ \E g \in Handles : Reopen(h, g)
             \/ \E pos \in Seeks : file_seek(h, pos)
             \/ file_deny_write(h) \/ file_allow_write(h)
      PROVE  FALSE
  <2>1. op = Idle /\ op' = op
    BY <1>3 DEF Open, Reopen, file_seek, file_deny_write, file_allow_write, history
  <2> QED BY <1>0, <2>1
<1>4. ASSUME NEW n \in Names, NEW size \in Sizes, Create(n, size) PROVE FALSE
  BY <1>4 DEF Create, Begin, history
<1>5. ASSUME NEW h \in Handles, NEW size \in Reads, Read(h, size) PROVE FALSE
  BY <1>5 DEF Read, Begin, history
<1>6. ASSUME NEW h \in Handles, NEW buf \in Buffers, Write(h, buf) PROVE WriteInv'
  <2>1. op'.handle = h /\ inodes' = inodes /\ files' = files
        /\ inodes[files[h].inode].deny_write_cnt = 0
    BY <1>6 DEF Write, Begin, memVars, history
  <2> QED BY <2>1 DEF WriteInv
<1>7. CASE ReadChunk \/ WriteChunk
  BY <1>0, <1>7, ChunkKeeps DEF FSInv, WriteInv
<1>8. CASE TransferReturns \/ Crash  BY <1>0, <1>8 DEF TransferReturns, Crash, history
<1>10. CASE TransferEnds \/ TransferStarves  BY <1>0, <1>10, EndsKeep DEF WriteInv
<1>9. CASE UNCHANGED vars  BY <1>9 DEF vars, memVars, WriteInv
<1> QED BY <1>1, <1>2, <1>3, <1>4, <1>5, <1>6, <1>7, <1>8, <1>9, <1>10 DEF Next

\* Every step keeps ZeroInv.
LEMMA ZeroInvNext == FSInv /\ FSInv' /\ ZeroInv /\ [Next]_vars => ZeroInv'
<1> SUFFICES ASSUME FSInv, FSInv', ZeroInv, [Next]_vars, op'.kind = "create" PROVE ZeroInv'
  BY DEF ZeroInv
<1>0. OpInv /\ DiskInv /\ FreshInv /\ Idle.kind = "none"  BY DEF FSInv, Idle
<1>1. CASE CreateAlloc \/ CreateAddFails \/ CreateUndo \/ CreateAdd \/ CreateAddStarved
  <2>1. op \in CreateOps
    BY <1>0, <1>1, Creating DEF CreateAlloc, CreateAddFails, CreateUndo, CreateAdd, CreateAddStarved, At
  <2>2. PICK s : s = FirstRun(1)  OBVIOUS
  <2>3. \/ op' = Idle \/ op' = [op EXCEPT !.at = "data", !.sector = s]
        \/ op' = [op EXCEPT !.at = "undo"]
    BY <1>1, <2>2 DEF CreateAlloc, CreateAddFails, CreateUndo, CreateAdd, CreateAddStarved, Goto
  <2>4. op' = Idle \/ op'.at \in {"data", "undo"}  BY <2>1, <2>3 DEF CreateOps
  <2> QED BY <1>0, <2>4 DEF ZeroInv
<1>2. CASE CreateData
  <2>1. op \in CreateOps  BY <1>0, <1>2, Creating DEF CreateData, At, history
  <2>2. PICK s : s = FirstRun(bytes_to_sectors(op.size))  OBVIOUS
  <2>3. \/ op' = [op EXCEPT !.at = "undo"]
        \/ op' = [op EXCEPT !.at = "inode", !.start = s, !.next = s]
    BY <1>2, <2>2 DEF CreateData, Goto, history
  <2>4. CASE op' = [op EXCEPT !.at = "undo"]
    <3>1. op'.at = "undo"  BY <2>1, <2>4 DEF CreateOps
    <3> QED BY <3>1 DEF ZeroInv
  <2>5. CASE op' = [op EXCEPT !.at = "inode", !.start = s, !.next = s]
    <3>1. op'.at = "inode" /\ op'.next = s /\ op'.start = s  BY <2>1, <2>5 DEF CreateOps
    <3> QED BY <3>1 DEF ZeroInv
  <2> QED BY <2>3, <2>4, <2>5
<1>3. CASE CreateInode
  <2>1. op \in CreateOps /\ op.next \in Int /\ op.start \in Int /\ op.at = "inode" /\ op.size \in Nat
        /\ op.kind = "create"
    BY <1>0, <1>3, Creating DEF CreateInode, At, history
  <2>2. op' = [op EXCEPT !.at = "zero"] /\ d_data' = d_data  BY <1>3 DEF CreateInode, Goto, history
  <2>3. /\ op'.at = "zero" /\ op'.next = op.next /\ op'.start = op.start /\ op'.size = op.size
    BY <2>1, <2>2 DEF CreateOps
  <2>4. NewInode' = NewInode  BY <2>3 DEF NewInode
  <2>5. \A x \in DataSectors(NewInode) : x \in Int /\ x >= op.start
    BY <2>1, SizeInSectors DEF DataSectors, NewInode
  <2>6. op.next = op.start  BY <2>1 DEF ZeroInv
  <2> QED BY <2>1, <2>3, <2>4, <2>5, <2>6 DEF ZeroInv
<1>4. CASE CreateZero
  <2>1. op \in CreateOps /\ op.next \in Int /\ op.start \in Int /\ op.at = "zero" /\ op.size \in Nat
        /\ op.kind = "create"
    BY <1>0, <1>4, Creating DEF CreateZero, At, history
  <2>2. PICK cnt \in Nat : cnt = bytes_to_sectors(op.size)  BY <2>1, SizeInSectors
  <2>3. DataSectors(NewInode) = op.start .. op.start + cnt - 1
    BY <2>2 DEF DataSectors, NewInode
  <2>4. /\ op.next >= op.start
        /\ \A x \in DataSectors(NewInode) : x < op.next => d_data[x] = Zeros
    BY <2>1 DEF ZeroInv
  <2>5. CASE op.next \in DataSectors(NewInode)
    <3>1. PICK k \in Int : k = op.next + 1  BY <2>1
    <3>2. op' = [op EXCEPT !.next = k] /\ d_data' = [d_data EXCEPT ![op.next] = Zeros]
      BY <1>4, <2>5, <3>1 DEF CreateZero, history
    <3>3. /\ op'.at = "zero" /\ op'.next = k /\ op'.start = op.start /\ op'.size = op.size
      BY <2>1, <3>2 DEF CreateOps
    <3>4. NewInode' = NewInode  BY <3>3 DEF NewInode
    <3>5. Fresh \subseteq Sectors /\ DataSectors(NewInode) \subseteq Fresh
      BY <1>0, <2>1 DEF FreshInv, DiskInv, Fresh
    <3>6. \A x \in DataSectors(NewInode) : d_data'[x] = IF x = op.next THEN Zeros ELSE d_data[x]
      BY <1>0, <3>2, <3>5 DEF DiskInv
    <3>7. \A x \in DataSectors(NewInode) : x \in Int /\ (x < k => x = op.next \/ x < op.next)
      BY <2>1, <2>3, <3>1
    <3>8. \A x \in DataSectors(NewInode) : x < k => d_data'[x] = Zeros
      BY <2>4, <3>6, <3>7
    <3>9. k >= op.start  BY <2>1, <2>4, <3>1
    <3> QED BY <3>3, <3>4, <3>8, <3>9 DEF ZeroInv
  <2>6. CASE op.next \notin DataSectors(NewInode)
    <3>1. op' = [op EXCEPT !.at = "add"] /\ d_data' = d_data
      BY <1>4, <2>6 DEF CreateZero, Goto, history
    <3>2. op'.at = "add" /\ op'.start = op.start /\ op'.size = op.size
      BY <2>1, <3>1 DEF CreateOps
    <3>3. NewInode' = NewInode  BY <3>2 DEF NewInode
    <3>4. \A x \in DataSectors(NewInode) : x < op.next
      BY <2>1, <2>3, <2>4, <2>6
    <3> QED BY <2>4, <3>1, <3>2, <3>3, <3>4 DEF ZeroInv
  <2> QED BY <2>5, <2>6
<1>5. CASE \/ RemoveErase \/ RemoveFails \/ CloseLast \/ CloseRelease \/ CloseReleaseData
           \/ \E n \in Names : Remove(n)
           \/ \E h \in Handles : Close(h)
  BY <1>0, <1>5, CloseOrIdle
<1>6. ASSUME NEW h \in Handles,
             \/ \E n \in Names : Open(n, h)
             \/ \E g \in Handles : Reopen(h, g)
             \/ \E pos \in Seeks : file_seek(h, pos)
             \/ file_deny_write(h) \/ file_allow_write(h)
      PROVE  FALSE
  <2>1. op = Idle /\ op' = op
    BY <1>6 DEF Open, Reopen, file_seek, file_deny_write, file_allow_write, history
  <2> QED BY <1>0, <2>1
<1>7. ASSUME NEW n \in Names, NEW size \in Sizes, Create(n, size) PROVE ZeroInv'
  <2>1. op'.at = "alloc"  BY <1>7 DEF Create, Begin, history
  <2> QED BY <2>1 DEF ZeroInv
<1>8. ASSUME NEW h \in Handles, \/ \E size \in Reads : Read(h, size)
                                \/ \E buf \in Buffers : Write(h, buf)
      PROVE  FALSE
  BY <1>8 DEF Read, Write, Begin, history
<1>9. CASE ReadChunk \/ WriteChunk
  BY <1>0, <1>9, ChunkKeeps DEF FSInv
<1>10. CASE TransferReturns \/ Crash  BY <1>0, <1>10 DEF TransferReturns, Crash, history
<1>12. CASE TransferEnds \/ TransferStarves  BY <1>0, <1>12, EndsKeep
<1>11. CASE UNCHANGED vars
  <2>1. op' = op /\ d_data' = d_data  BY <1>11 DEF vars, diskVars
  <2>2. NewInode' = NewInode  BY <2>1 DEF NewInode
  <2> QED BY <2>1, <2>2 DEF ZeroInv
<1> QED BY <1>1, <1>2, <1>3, <1>4, <1>5, <1>6, <1>7, <1>8, <1>9, <1>10, <1>11, <1>12 DEF Next

-----------------------------------------------------------------------------
(* The store that a state stands for.                                      *)

StoreVars == <<StoreLinks, StoreContent, StoreOpens, StoreDenied, starved>>

\* A formatted disk satisfies StoreInv.
LEMMA StoreInvInit == Init => StoreInv
<1> SUFFICES ASSUME Init PROVE StoreInv
  OBVIOUS
<1>1. op.kind = "none"  BY DEF Init, Idle
<1> QED BY <1>1 DEF StoreInv, WriteInv, ZeroInv

\* The link that directory entry k stands for.
LinkOf(k) == <<d_dir[k].name, d_dir[k].inode_sector>>

\* The files of the store are the inodes that have a name or a handle.
LEMMA LiveIs ==
    Store!Live(StoreLinks, StoreOpens) = Files
<1>1. {l[2] : l \in StoreLinks} = Linked
  <2>1. \A t : t \in Linked <=> \E j \in Slots : d_dir[j].in_use /\ t = d_dir[j].inode_sector
    BY DEF Linked
  <2>2. \A l : l \in StoreLinks <=> \E j \in Slots : d_dir[j].in_use /\ l = LinkOf(j)
    BY DEF StoreLinks, LinkOf
  <2>3. \A j : LinkOf(j)[2] = d_dir[j].inode_sector  BY DEF LinkOf
  <2>4. \A l \in StoreLinks : l[2] \in Linked  BY <2>1, <2>2, <2>3
  <2>5. \A t \in Linked : \E l \in StoreLinks : t = l[2]  BY <2>1, <2>2, <2>3
  <2> QED BY <2>4, <2>5
<1>2. {StoreOpens[h] : h \in Handles} \ {NoId} = Opened  BY DEF StoreOpens, Opened
<1> QED BY <1>1, <1>2 DEF Store!Live, Files

\* A file keeps its content while its inode and its data sectors do.
LEMMA ContentKept ==
    ASSUME FSInv, FSInv', NEW s \in Files, d_inode'[s] = d_inode[s],
           \A x \in DiskSectors(s) : d_data'[x] = d_data[x]
    PROVE  Content(s)' = Content(s)
<1>1. PICK d : d = d_inode[s]  OBVIOUS
<1>2. PICK c : c = Content(s)  OBVIOUS
<1>3. Holds(s, d, c)  BY <1>1, <1>2, ContentIs
<1>4. Data(s) = d /\ Data(s)' = d
  BY <1>1, <1>3 DEF Holds, Data, FSInv, MemoryInv
<1>5. \A k \in 1 .. d.length : d_data'[sector_idx(d, k - 1)] = d_data[sector_idx(d, k - 1)]
  BY <1>3 DEF Holds
<1>6. Content(s) = [i \in 1 .. d.length |-> d_data[sector_idx(d, i - 1)][sector_ofs(i - 1)]]
  BY <1>4 DEF Content, inode_length, sector_idx, sector_ofs
<1>7. Content(s)' = [i \in 1 .. d.length |-> d_data'[sector_idx(d, i - 1)][sector_ofs(i - 1)]]
  BY <1>4 DEF Content, inode_length, sector_idx, sector_ofs
<1> QED BY <1>5, <1>6, <1>7

\* The names change with the directory only.
LEMMA LinksKept ==
    ASSUME d_dir' = d_dir
    PROVE  StoreLinks' = StoreLinks /\ Linked' = Linked
BY DEF StoreLinks, Linked

\* The open files of the store change with the handles only.
LEMMA OpensKept ==
    ASSUME StoreOpens' = StoreOpens
    PROVE  Opened' = Opened
<1>1. Opened = {StoreOpens[h] : h \in Handles} \ {NoId}  BY DEF StoreOpens, Opened
<1>2. Opened' = {StoreOpens'[h] : h \in Handles} \ {NoId}  BY DEF StoreOpens, Opened
<1> QED BY <1>1, <1>2

\* A step that changes no directory entry, handle or data of a file is invisible to the
\* store.
LEMMA Stutters ==
    ASSUME FSInv, FSInv', d_dir' = d_dir, starved' = starved,
           StoreOpens' = StoreOpens, StoreDenied' = StoreDenied,
           \A s \in Files : /\ d_inode'[s] = d_inode[s]
                            /\ \A x \in DiskSectors(s) : d_data'[x] = d_data[x]
    PROVE  StoreVars' = StoreVars
<1>1. StoreLinks' = StoreLinks /\ Linked' = Linked /\ Opened' = Opened
  BY LinksKept, OpensKept
<1>2. Files' = Files  BY <1>1 DEF Files
<1>3. \A s \in Files : Content(s)' = Content(s)  BY ContentKept
<1>4. StoreContent' = StoreContent  BY <1>2, <1>3 DEF StoreContent
<1> QED BY <1>1, <1>4 DEF StoreVars

\* Steps that the store does not show: of create before dir_add(), of close after
\* file_close(), of a read, and the beginning and the end of operations.
LEMMA SilentOps ==
    ASSUME FSInv, FSInv', UNCHANGED <<d_inode, d_data, d_dir, files, starved>>
    PROVE  StoreVars' = StoreVars
<1>1. StoreOpens' = StoreOpens /\ StoreDenied' = StoreDenied  BY DEF StoreOpens, StoreDenied
<1> QED BY <1>1, Stutters

\* Beginning a call, allocating and releasing sectors are invisible to the store.
LEMMA SilentSteps ==
    ASSUME FSInv, FSInv',
           \/ \E n \in Names : Remove(n) \/ \E size \in Sizes : Create(n, size)
           \/ CreateAlloc \/ CreateData \/ CreateAddFails \/ CreateUndo
           \/ RemoveFails \/ CloseLast \/ CloseRelease \/ CloseReleaseData
           \/ TransferEnds \/ TransferStarves \/ TransferReturns
           \/ \E h \in Handles : \/ \E size \in Reads : Read(h, size)
                                 \/ \E buf \in Buffers : Write(h, buf)
           \/ UNCHANGED vars
    PROVE  StoreVars' = StoreVars
<1>1. UNCHANGED <<d_inode, d_data, d_dir, files, starved>>
  BY DEF Remove, Create, CreateAlloc, CreateData, CreateAddFails, CreateUndo, RemoveFails, CloseLast,
     CloseRelease, CloseReleaseData, TransferEnds, TransferStarves, TransferReturns, Read, Write,
     vars, diskVars, memVars, history
<1> QED BY <1>1, SilentOps

\* The inode and the data of a file are sectors of the disk.
LEMMA FileSectors ==
    ASSUME FSInv, NEW s \in Files
    PROVE  s \in Sectors /\ DiskSectors(s) \subseteq Sectors
<1>0. OpInv /\ DiskInv /\ MemoryInv /\ OwnInv /\ LinkInv  BY DEF FSInv
<1>1. s \in Sectors /\ s \in Held \ Gone
  BY <1>0, FilesAreSectors DEF Held, Gone, LinkInv
<1> QED BY <1>0, <1>1 DEF OwnInv, DiskInv

\* The inode and the zeros of the file being created are written where no file is.
LEMMA SilentCreate ==
    ASSUME FSInv, FSInv', CreateInode \/ CreateZero
    PROVE  StoreVars' = StoreVars
<1>0. OpInv /\ DiskInv /\ FreshInv  BY DEF FSInv
<1>1. /\ op.kind = "create" /\ op.at \in {"inode", "zero"}
      /\ UNCHANGED <<d_dir, files, starved>>
  BY DEF CreateInode, CreateZero, At, memVars, history
<1>2. Held = Files /\ op.sector \in Sectors  BY <1>0, <1>1, Creating
<1>3. Fresh = {op.sector} \union DataSectors(NewInode)  BY <1>1 DEF Fresh
<1>4. \A s \in Files : s # op.sector /\ DiskSectors(s) \intersect DataSectors(NewInode) = {}
  BY <1>0, <1>2, <1>3 DEF FreshInv, DiskSectors
<1>5. \A s \in Files : d_inode'[s] = d_inode[s]
  <2>1. d_inode' = d_inode \/ d_inode' = [d_inode EXCEPT ![op.sector] = NewInode]
    BY DEF CreateInode, CreateZero, history
  <2> QED BY <1>0, <1>4, <2>1, FileSectors DEF DiskInv
<1>6. \A s \in Files : \A x \in DiskSectors(s) : d_data'[x] = d_data[x]
  <2>1. CASE op.next \in DataSectors(NewInode)
    <3>1. d_data' = d_data \/ d_data' = [d_data EXCEPT ![op.next] = Zeros]
      BY DEF CreateInode, CreateZero, history
    <3>2. \A s \in Files : op.next \notin DiskSectors(s)  BY <1>4, <2>1
    <3>3. \A s \in Files : \A x \in DiskSectors(s) : x \in Sectors  BY FileSectors
    <3> QED BY <1>0, <3>1, <3>2, <3>3 DEF DiskInv
  <2>2. CASE op.next \notin DataSectors(NewInode)
    BY <2>2 DEF CreateInode, CreateZero, history
  <2> QED BY <2>1, <2>2
<1>7. StoreOpens' = StoreOpens /\ StoreDenied' = StoreDenied
  BY <1>1 DEF StoreOpens, StoreDenied
<1> QED BY <1>1, <1>5, <1>6, <1>7, Stutters

\* What the store shows of a handle that moves, or that denies or allows writes.
LEMMA HandleShows ==
    ASSUME MemoryInv, NEW h \in Handles, NEW b \in BOOLEAN, Changed(files', h, b)
    PROVE  /\ StoreOpens' = StoreOpens /\ StoreOpens[h] # NoId
           /\ StoreDenied' = IF b THEN StoreDenied \union {h} ELSE StoreDenied \ {h}
<1>1. \A g \in Handles : files'[g].inode = files[g].inode  BY DEF Changed
<1>2. StoreOpens' = StoreOpens  BY <1>1 DEF StoreOpens
<1>3. StoreOpens[h] # NoId  BY FileSysAssumption DEF StoreOpens, Changed
<1>4. \A g \in Handles : g \in StoreDenied' <=> IF g = h THEN b ELSE g \in StoreDenied
  BY DEF StoreDenied, Changed
<1>5. StoreDenied \subseteq Handles /\ StoreDenied' \subseteq Handles  BY DEF StoreDenied
<1>6. StoreDenied' = IF b THEN StoreDenied \union {h} ELSE StoreDenied \ {h}
  BY <1>4, <1>5
<1> QED BY <1>2, <1>3, <1>6

\* file_seek() is invisible to the store, which has no positions.
LEMMA SilentSeek ==
    ASSUME FSInv, FSInv', NEW h \in Handles, NEW pos \in Seeks, file_seek(h, pos)
    PROVE  StoreVars' = StoreVars
<1>0. MemoryInv /\ DiskInv  BY DEF FSInv
<1>1. pos \in Nat  BY FileSysAssumption
<1>2. /\ ~ Free(h) /\ files' = [files EXCEPT ![h].pos = pos]
      /\ UNCHANGED <<d_inode, d_data, d_dir, starved>>
  BY DEF file_seek, diskVars, history
<1>3. Changed(files', h, files[h].deny_write)  BY <1>0, <1>1, <1>2, MovesHandle
<1>4. files[h].deny_write \in BOOLEAN /\ (files[h].deny_write <=> h \in StoreDenied)
  BY <1>0 DEF MemoryInv, StoreDenied
<1>5. StoreOpens' = StoreOpens /\ StoreDenied' = StoreDenied
  BY <1>0, <1>3, <1>4, HandleShows
<1> QED BY <1>2, <1>5, Stutters

\* Both turns of a transfer's loop move the handle within its file.
LEMMA ChunkShows ==
    ASSUME FSInv, ReadChunk \/ WriteChunk
    PROVE  /\ StoreOpens' = StoreOpens /\ StoreDenied' = StoreDenied
           /\ StoreOpens[op.handle] # NoId
<1>0. OpInv /\ MemoryInv /\ DiskInv  BY DEF FSInv
<1>1. op.handle \in Handles  BY <1>0, ChunkKeeps
<1>2. Changed(files', op.handle, files[op.handle].deny_write)
  <2>1. PICK tr : tr = Transfer  OBVIOUS
  <2>2. op.kind \in {"read", "write"} /\ tr.n > 0
    BY <2>1 DEF ReadChunk, WriteChunk, At, history
  <2>3. Fits(tr) /\ ~ Free(op.handle)  BY <1>0, <2>1, <2>2, TransferFits DEF OpInv
  <2>4. PICK p \in Nat : p = files[op.handle].pos + tr.n  BY <2>2, <2>3 DEF Fits
  <2>5. files' = [files EXCEPT ![op.handle].pos = p]
    <3>1. CASE ReadChunk
      <4>1. PICK got : got = [i \in 1 .. tr.n |-> d_data[tr.sector][sector_ofs(tr.ofs) + i - 1]]
        OBVIOUS
      <4>2. Advance(tr.n, op.buffer \o got)  BY <2>1, <3>1, <4>1 DEF ReadChunk, history
      <4> QED BY <2>4, <4>2 DEF Advance
    <3>2. CASE WriteChunk
      <4>1. Advance(tr.n, SubSeq(op.buffer, tr.n + 1, Len(op.buffer)))
        BY <2>1, <3>2 DEF WriteChunk, history
      <4> QED BY <2>4, <4>1 DEF Advance
    <3> QED BY <3>1, <3>2
  <2> QED BY <1>0, <1>1, <2>3, <2>4, <2>5, MovesHandle
<1>3. files[op.handle].deny_write \in BOOLEAN
      /\ (files[op.handle].deny_write <=> op.handle \in StoreDenied)
  BY <1>0, <1>1 DEF MemoryInv, StoreDenied
<1> QED BY <1>0, <1>1, <1>2, <1>3, HandleShows

\* A turn of inode_read_at() is invisible to the store.
LEMMA SilentRead ==
    ASSUME FSInv, FSInv', ReadChunk
    PROVE  StoreVars' = StoreVars
<1>1. UNCHANGED <<d_inode, d_data, d_dir, starved>>  BY DEF ReadChunk, diskVars, history
<1> QED BY <1>1, ChunkShows, Stutters

\* Steps that the store shows.  Opening and closing: the handles' files, and the files
\* that are left.
LEMMA OpensFile ==
    ASSUME FSInv, FSInv', NEW h \in Handles, Free(h), NEW s \in Files,
           files' = [files EXCEPT ![h] = file_open(s)],
           UNCHANGED <<d_inode, d_data, d_dir, starved>>
    PROVE  Store!Open
<1>0. MemoryInv  BY DEF FSInv
<1>1. PICK r : r = file_open(s) /\ r.inode = s /\ r.deny_write = FALSE
  BY FileSectors, OpenedFile
<1>2. \A g \in Handles : files'[g] = IF g = h THEN r ELSE files[g]
  BY <1>0, <1>1 DEF MemoryInv
<1>3. NoFile.inode = NoId /\ NoFile.deny_write = FALSE  BY DEF NoFile
<1>4. StoreOpens[h] = NoId  BY <1>3 DEF StoreOpens, Free
<1>5. StoreOpens' = [StoreOpens EXCEPT ![h] = s]
  <2>1. \A g \in Handles : files'[g].inode = IF g = h THEN s ELSE files[g].inode
    BY <1>1, <1>2
  <2> QED BY <2>1 DEF StoreOpens
<1>6. StoreDenied' = StoreDenied  BY <1>1, <1>2, <1>3 DEF StoreDenied, Free
<1>7. StoreLinks' = StoreLinks /\ Linked' = Linked  BY LinksKept
<1>8. Opened' = Opened \union {s}
  <2>1. s \in Sectors /\ s # NoId  BY FileSectors, FileSysAssumption
  <2>2. \A t : t \in Opened' <=> t # NoId /\ \E g \in Handles : t = files'[g].inode
    BY DEF Opened
  <2>3. \A t : t \in Opened <=> t # NoId /\ \E g \in Handles : t = files[g].inode
    BY DEF Opened
  <2>4. files[h].inode = NoId  BY <1>3 DEF Free
  <2> QED BY <1>1, <1>2, <2>1, <2>2, <2>3, <2>4
<1>9. Files' = Files  BY <1>7, <1>8 DEF Files
<1>10. \A t \in Files : Content(t)' = Content(t)  BY ContentKept
<1>11. StoreContent' = StoreContent  BY <1>9, <1>10 DEF StoreContent
<1>12. s \in DOMAIN StoreContent  BY DEF StoreContent
<1> QED BY <1>4, <1>5, <1>6, <1>7, <1>11, <1>12 DEF Store!Open

\* filesys_open() and file_reopen() are Open of the store.
LEMMA OpenShows ==
    ASSUME FSInv, FSInv', NEW h \in Handles,
           \/ \E n \in Names : Open(n, h)
           \/ \E g \in Handles : Reopen(g, h)
    PROVE  Store!Open
<1>0. MemoryInv  BY DEF FSInv
<1>1. CASE \E n \in Names : Open(n, h)
  <2>1. PICK n \in Names : Open(n, h)  BY <1>1
  <2>2. PICK s \in dir_lookup(n) : files' = [files EXCEPT ![h] = file_open(s)]
    BY <2>1 DEF Open, history
  <2>3. s \in Files  BY DEF dir_lookup, lookup, Entries, Files, Linked
  <2> QED BY <2>1, <2>2, <2>3, OpensFile DEF Open, diskVars, history
<1>2. CASE \E g \in Handles : Reopen(g, h)
  <2>1. PICK g \in Handles : Reopen(g, h)  BY <1>2
  <2>2. PICK s : s = files[g].inode  OBVIOUS
  <2>3. s \in Files  BY <1>0, <2>1, <2>2 DEF Reopen, MemoryInv, Files, Opened, history
  <2>4. files' = [files EXCEPT ![h] = file_open(s)]  BY <2>1, <2>2 DEF Reopen, history
  <2> QED BY <2>1, <2>3, <2>4, OpensFile DEF Reopen, diskVars, history
<1> QED BY <1>1, <1>2

\* A step after which there are no files but those there were keeps their bytes.
LEMMA KeepsContent ==
    ASSUME FSInv, FSInv', Files' \subseteq Files, UNCHANGED <<d_inode, d_data>>
    PROVE  StoreContent' = [i \in Store!Live(StoreLinks', StoreOpens') |-> StoreContent[i]]
<1>1. (Store!Live(StoreLinks, StoreOpens) = Files)'  BY LiveIs, PTL
<1>2. Store!Live(StoreLinks', StoreOpens') = Files'  BY <1>1 DEF Store!Live
<1>3. \A t \in Files : Content(t)' = Content(t)  BY ContentKept
<1>4. \A t \in Files : StoreContent[t] = Content(t)  BY DEF StoreContent
<1>5. StoreContent' = [t \in Files' |-> Content(t)']  BY DEF StoreContent
<1> QED BY <1>2, <1>3, <1>4, <1>5

\* file_close() is Close of the store.
LEMMA CloseShows ==
    ASSUME FSInv, FSInv', NEW h \in Handles, Close(h)
    PROVE  Store!Close
<1>0. MemoryInv  BY DEF FSInv
<1>1. /\ ~ Free(h) /\ files' = [files EXCEPT ![h] = NoFile]
      /\ UNCHANGED <<d_inode, d_data, d_dir, starved>>
  BY DEF Close, diskVars, history
<1>2. \A g \in Handles : files'[g] = IF g = h THEN NoFile ELSE files[g]
  BY <1>0, <1>1 DEF MemoryInv
<1>3. NoFile.inode = NoId /\ NoFile.deny_write = FALSE  BY DEF NoFile
<1>4. StoreOpens[h] # NoId  BY <1>0, <1>1 DEF StoreOpens, MemoryInv
<1>5. StoreOpens' = [StoreOpens EXCEPT ![h] = NoId]  BY <1>2, <1>3 DEF StoreOpens
<1>6. StoreDenied' = StoreDenied \ {h}  BY <1>2, <1>3 DEF StoreDenied
<1>7. StoreLinks' = StoreLinks /\ Linked' = Linked  BY <1>1, LinksKept
<1>8. Opened' \subseteq Opened  BY <1>2, <1>3 DEF Opened
<1>9. Files' \subseteq Files  BY <1>7, <1>8 DEF Files
<1>10. StoreContent' = [i \in Store!Live(StoreLinks', StoreOpens') |-> StoreContent[i]]
  BY <1>1, <1>9, KeepsContent
<1>11. Store!Keep(StoreLinks, StoreOpens')  BY <1>7, <1>10 DEF Store!Keep
<1> QED BY <1>1, <1>4, <1>5, <1>6, <1>7, <1>11 DEF Store!Close

\* A power failure and the next boot are PowerFailure of the store.
LEMMA CrashShows ==
    ASSUME FSInv, FSInv', Crash
    PROVE  Store!PowerFailure
<1>1. files' = [h \in Handles |-> NoFile] /\ UNCHANGED <<d_inode, d_data, d_dir, starved>>
  BY DEF Crash, diskVars
<1>2. NoFile.inode = NoId /\ NoFile.deny_write = FALSE  BY DEF NoFile
<1>3. StoreOpens' = [h \in Handles |-> NoId]  BY <1>1, <1>2 DEF StoreOpens
<1>4. StoreDenied' = {}  BY <1>1, <1>2 DEF StoreDenied
<1>5. StoreLinks' = StoreLinks /\ Linked' = Linked  BY <1>1, LinksKept
<1>6. Opened' = {}  BY <1>1, <1>2 DEF Opened
<1>7. Files' \subseteq Files  BY <1>5, <1>6 DEF Files
<1>8. StoreContent' = [i \in Store!Live(StoreLinks', StoreOpens') |-> StoreContent[i]]
  BY <1>1, <1>7, KeepsContent
<1>9. Store!Keep(StoreLinks, StoreOpens')  BY <1>5, <1>8 DEF Store!Keep
<1> QED BY <1>1, <1>3, <1>4, <1>5, <1>9 DEF Store!PowerFailure

\* file_deny_write() and file_allow_write() are DenyWrite and AllowWrite of the store.
LEMMA DenyShows ==
    ASSUME FSInv, FSInv', NEW h \in Handles, file_deny_write(h) \/ file_allow_write(h)
    PROVE  Store!DenyWrite \/ Store!AllowWrite
<1>0. MemoryInv  BY DEF FSInv
<1>1. ~ Free(h) /\ UNCHANGED <<d_inode, d_data, d_dir, starved>>
  BY DEF file_deny_write, file_allow_write, diskVars, history
<1>2. h \in StoreDenied <=> files[h].deny_write  BY DEF StoreDenied
<1>3. ASSUME StoreOpens' = StoreOpens
      PROVE  StoreLinks' = StoreLinks /\ StoreContent' = StoreContent
  <2>1. StoreLinks' = StoreLinks /\ Linked' = Linked /\ Opened' = Opened
    BY <1>1, <1>3, LinksKept, OpensKept
  <2>2. Files' = Files  BY <2>1 DEF Files
  <2>3. \A t \in Files : Content(t)' = Content(t)  BY <1>1, ContentKept
  <2> QED BY <2>1, <2>2, <2>3 DEF StoreContent
<1>4. CASE file_deny_write(h)
  <2>1. files' = [files EXCEPT ![h].deny_write = TRUE] /\ ~ files[h].deny_write
    BY <1>4 DEF file_deny_write, history
  <2>2. Changed(files', h, TRUE)  BY <1>0, <1>1, <2>1, DeniesHandle
  <2>3. StoreOpens' = StoreOpens /\ StoreOpens[h] # NoId /\ StoreDenied' = StoreDenied \union {h}
    BY <1>0, <2>2, HandleShows
  <2>4. Store!DenyWrite  BY <1>1, <1>2, <1>3, <2>1, <2>3 DEF Store!DenyWrite
  <2> QED BY <2>4
<1>5. CASE file_allow_write(h)
  <2>1. files' = [files EXCEPT ![h].deny_write = FALSE] /\ files[h].deny_write
    BY <1>5 DEF file_allow_write, history
  <2>2. Changed(files', h, FALSE)  BY <1>0, <1>1, <2>1, DeniesHandle
  <2>3. StoreOpens' = StoreOpens /\ StoreDenied' = StoreDenied \ {h}
    BY <1>0, <2>2, HandleShows
  <2>4. Store!AllowWrite  BY <1>1, <1>2, <1>3, <2>1, <2>3 DEF Store!AllowWrite
  <2> QED BY <2>4
<1> QED BY <1>4, <1>5

\* dir_add() writing the entry of a file of zeros that the store did not have: whatever
\* the slot held is lost.
LEMMA AddShows ==
    ASSUME FSInv, FSInv', ZeroInv, op.kind = "create", op.at = "add", NEW k \in Slots, AddEntry(k),
           UNCHANGED <<d_inode, d_data, files, inodes>>
    PROVE  /\ op.name \in Names /\ op.sector \in Sectors \ DOMAIN StoreContent
           /\ Store!Adds(op.name, op.sector, IF d_dir[k].in_use THEN {LinkOf(k)} ELSE {})
<1>0. OpInv /\ DiskInv /\ MemoryInv /\ FreshInv /\ LinkInv  BY DEF FSInv
<1>1. PICK s \in Sectors : /\ s = op.sector /\ s \notin Files /\ d_inode[s] = NewInode
  BY <1>0, Creating, FreshIsNew DEF FreshInv
<1>2. PICK n \in Names : n = op.name  BY <1>0, Creating
<1>3. PICK e : e = [name |-> n, inode_sector |-> s, in_use |-> TRUE]  OBVIOUS
<1>4. d_dir' = [d_dir EXCEPT ![k] = e]  BY <1>1, <1>2, <1>3 DEF AddEntry
<1>5. \A j \in Slots : d_dir'[j] = IF j = k THEN e ELSE d_dir[j]  BY <1>0, <1>4 DEF DiskInv
<1>6. e.name = n /\ e.inode_sector = s /\ e.in_use  BY <1>3
<1>7. PICK gone : gone = IF d_dir[k].in_use THEN {LinkOf(k)} ELSE {}  OBVIOUS
<1>8. StoreLinks' = (StoreLinks \ gone) \union {<<n, s>>}
  <2>1. \A l : l \in StoreLinks <=> \E j \in Slots : d_dir[j].in_use /\ l = LinkOf(j)
    BY DEF StoreLinks, LinkOf
  <2>2. \A l : l \in StoreLinks' <=> \E j \in Slots : d_dir'[j].in_use /\ l = LinkOf(j)'
    BY DEF StoreLinks, LinkOf
  <2>3. LinkOf(k)' = <<n, s>> /\ d_dir'[k].in_use  BY <1>5, <1>6 DEF LinkOf
  <2>4. \A j \in Slots : j # k => LinkOf(j)' = LinkOf(j) /\ d_dir'[j].in_use = d_dir[j].in_use
    BY <1>5 DEF LinkOf
  <2>5. \A j \in Slots : j # k /\ d_dir[j].in_use => LinkOf(j) \notin gone
    <3>1. SUFFICES ASSUME NEW j \in Slots, j # k, d_dir[j].in_use, d_dir[k].in_use
                   PROVE  LinkOf(j) # LinkOf(k)
      BY <1>7
    <3>2. d_dir[j].inode_sector # d_dir[k].inode_sector  BY <1>0, <3>1 DEF LinkInv
    <3> QED BY <3>2 DEF LinkOf
  <2>6. \A l \in StoreLinks \ gone : l \in StoreLinks'
    <3>1. SUFFICES ASSUME NEW l \in StoreLinks \ gone PROVE l \in StoreLinks'
      OBVIOUS
    <3>2. PICK j \in Slots : d_dir[j].in_use /\ l = LinkOf(j)  BY <2>1, <3>1
    <3>3. j # k  BY <1>7, <3>1, <3>2
    <3> QED BY <2>2, <2>4, <3>2, <3>3
  <2>7. \A l \in StoreLinks' : l \in (StoreLinks \ gone) \union {<<n, s>>}
    <3>1. SUFFICES ASSUME NEW l \in StoreLinks', l # <<n, s>> PROVE l \in StoreLinks \ gone
      OBVIOUS
    <3>2. PICK j \in Slots : d_dir'[j].in_use /\ l = LinkOf(j)'  BY <2>2, <3>1
    <3>3. j # k  BY <2>3, <3>1, <3>2
    <3> QED BY <2>1, <2>4, <2>5, <3>2, <3>3
  <2>8. <<n, s>> \in StoreLinks'  BY <2>2, <2>3
  <2> QED BY <2>6, <2>7, <2>8
<1>9. Opened' = Opened /\ StoreOpens' = StoreOpens /\ StoreDenied' = StoreDenied
  BY DEF Opened, StoreOpens, StoreDenied
<1>10. Files' \subseteq Files \union {s} /\ s \in Files'
  <2>1. \A t : t \in Linked <=> \E j \in Slots : d_dir[j].in_use /\ t = d_dir[j].inode_sector
    BY DEF Linked
  <2>2. \A t : t \in Linked' <=> \E j \in Slots : d_dir'[j].in_use /\ t = d_dir'[j].inode_sector
    BY DEF Linked
  <2>3. Linked' \subseteq Linked \union {s} /\ s \in Linked'  BY <1>5, <1>6, <2>1, <2>2
  <2> QED BY <1>9, <2>3 DEF Files
<1>11. \A t \in Files : Content(t)' = Content(t)  BY ContentKept
<1>12. /\ DOMAIN StoreContent = Files /\ DOMAIN StoreContent' = Files'
       /\ StoreContent'[s] = Content(s)'
       /\ \A t \in Files' \ {s} : StoreContent'[t] = StoreContent[t]
  BY <1>10, <1>11 DEF StoreContent
<1>13. \A i \in DOMAIN Content(s)' : Content(s)'[i] = 0
  <2>1. PICK d : d = NewInode /\ d \in Inodes /\ d.length \in Nat /\ d.start \in Int
    BY <1>0, Creating DEF Inodes
  <2>2. Data(s)' = d  BY <1>1, <2>1 DEF FSInv, MemoryInv, Data
  <2>3. Content(s)' = [i \in 1 .. d.length |-> d_data[sector_idx(d, i - 1)][sector_ofs(i - 1)]]
    BY <2>2 DEF Content, inode_length, sector_idx, sector_ofs
  <2>4. ASSUME NEW i \in 1 .. d.length
        PROVE  d_data[sector_idx(d, i - 1)][sector_ofs(i - 1)] = 0
    <3>1. i - 1 \in Nat /\ i - 1 < d.length  BY <2>1
    <3>2. sector_idx(d, i - 1) \in DataSectors(d)  BY <2>1, <3>1, SectorOfByte
    <3>3. d_data[sector_idx(d, i - 1)] = Zeros  BY <2>1, <3>2 DEF ZeroInv
    <3>4. sector_ofs(i - 1) \in 0 .. SECTOR_SIZE - 1
      BY <3>1, Division, FileSysAssumption DEF sector_ofs
    <3> QED BY <3>3, <3>4 DEF Zeros
  <2> QED BY <2>3, <2>4
<1>14. Store!Live(StoreLinks', StoreOpens) = Files'
  <2>1. (Store!Live(StoreLinks, StoreOpens) = Files)'  BY LiveIs, PTL
  <2> QED BY <1>9, <2>1 DEF Store!Live
<1>15. Store!Adds(n, s, gone)
  BY <1>8, <1>9, <1>10, <1>12, <1>13, <1>14 DEF Store!Adds
<1>16. op.name \in Names /\ op.sector \in Sectors \ DOMAIN StoreContent
  BY <1>1, <1>2, <1>12
<1> QED BY <1>1, <1>2, <1>7, <1>15, <1>16

\* dir_add() is Create of the store, or CreateStarved.
LEMMA CreateAddShows ==
    ASSUME FSInv, FSInv', ZeroInv, CreateAdd
    PROVE  Store!Create
<1>1. PICK k \in Slots : AddEntry(k) /\ ~ d_dir[k].in_use
  BY DEF CreateAdd, FreeSlots
<1>2. /\ op.kind = "create" /\ op.at = "add" /\ Entries(op.name) = {}
      /\ UNCHANGED <<d_inode, d_data, files, inodes, starved>>
  BY DEF CreateAdd, At, memVars, history
<1>3. PICK gone : gone = IF d_dir[k].in_use THEN {LinkOf(k)} ELSE {}  OBVIOUS
<1>4. /\ op.name \in Names /\ op.sector \in Sectors \ DOMAIN StoreContent
      /\ Store!Adds(op.name, op.sector, gone)
  BY <1>1, <1>2, <1>3, AddShows
<1>5. op.name \notin Store!InUse
  BY <1>2 DEF Store!InUse, StoreLinks, Entries
<1>6. gone = {}  BY <1>1, <1>3
<1>7. Store!Adds(op.name, op.sector, {})  BY <1>4, <1>6
<1> QED BY <1>2, <1>4, <1>5, <1>7 DEF Store!Create

\* dir_add() after a read that failed for lack of memory.
LEMMA CreateAddStarvedShows ==
    ASSUME FSInv, FSInv', ZeroInv, CreateAddStarved
    PROVE  Store!CreateStarved
<1>1. PICK k \in Slots : AddEntry(k)
  BY DEF CreateAddStarved, Reached
<1>2. /\ op.kind = "create" /\ op.at = "add" /\ starved' = starved + 1
      /\ UNCHANGED <<d_inode, d_data, files, inodes>>
  BY DEF CreateAddStarved, At, memVars
<1>3. PICK gone : gone = IF d_dir[k].in_use THEN {LinkOf(k)} ELSE {}  OBVIOUS
<1>4. /\ op.name \in Names /\ op.sector \in Sectors \ DOMAIN StoreContent
      /\ Store!Adds(op.name, op.sector, gone)
  BY <1>1, <1>2, <1>3, AddShows
<1>5. \/ Store!Adds(op.name, op.sector, {})
      \/ \E l \in StoreLinks : Store!Adds(op.name, op.sector, {l})
  <2>1. CASE d_dir[k].in_use
    <3>1. LinkOf(k) \in StoreLinks /\ gone = {LinkOf(k)}  BY <1>3, <2>1 DEF StoreLinks, LinkOf
    <3>2. Store!Adds(op.name, op.sector, {LinkOf(k)})  BY <1>4, <3>1
    <3> QED BY <3>1, <3>2
  <2>2. CASE ~ d_dir[k].in_use
    <3>1. gone = {}  BY <1>3, <2>2
    <3> QED BY <1>4, <3>1
  <2> QED BY <2>1, <2>2
<1> QED BY <1>2, <1>4, <1>5 DEF Store!CreateStarved

\* dir_remove(): the name goes, and with it the file unless a handle is on it.
LEMMA RemoveEraseShows ==
    ASSUME FSInv, FSInv', RemoveErase
    PROVE  Store!Unlink
<1>0. OpInv /\ DiskInv /\ MemoryInv /\ LinkInv  BY DEF FSInv
<1>1. /\ op.kind = "remove" /\ d_dir' = [d_dir EXCEPT ![op.slot].in_use = FALSE]
      /\ UNCHANGED <<d_inode, d_data, files, starved>>
  BY DEF RemoveErase, At, history
<1>2. PICK k \in Slots : k = op.slot /\ d_dir[k].in_use
  BY <1>0, <1>1, Finishing DEF LinkInv, RemoveOps, CloseOps
<1>3. PICK r : r = [d_dir[k] EXCEPT !.in_use = FALSE]  OBVIOUS
<1>4. ~ r.in_use  BY <1>0, <1>3 DEF DiskInv
<1>5. d_dir' = [d_dir EXCEPT ![k] = r]  BY <1>1, <1>2, <1>3
<1>6. \A j \in Slots : /\ j = k => ~ d_dir'[j].in_use
                       /\ j # k => d_dir'[j] = d_dir[j]
                       /\ j # k /\ d_dir[j].in_use => d_dir[j].inode_sector # d_dir[k].inode_sector
  BY <1>0, <1>2, <1>4, <1>5 DEF DiskInv, LinkInv
<1>7. PICK l : l = LinkOf(k) /\ l \in StoreLinks  BY <1>2 DEF LinkOf, StoreLinks
<1>8. StoreLinks' = StoreLinks \ {l}
  <2>1. \A m : m \in StoreLinks <=> \E j \in Slots : d_dir[j].in_use /\ m = LinkOf(j)
    BY DEF StoreLinks, LinkOf
  <2>2. \A m : m \in StoreLinks' <=> \E j \in Slots : d_dir'[j].in_use /\ m = LinkOf(j)'
    BY DEF StoreLinks, LinkOf
  <2>3. \A j \in Slots : j # k => LinkOf(j)' = LinkOf(j) /\ d_dir'[j].in_use = d_dir[j].in_use
    BY <1>6 DEF LinkOf
  <2>4. \A j \in Slots : j # k /\ d_dir[j].in_use => LinkOf(j) # l
    BY <1>6, <1>7 DEF LinkOf
  <2>5. \A m \in StoreLinks \ {l} : m \in StoreLinks'  BY <1>7, <2>1, <2>2, <2>3
  <2>6. \A m \in StoreLinks' : m \in StoreLinks \ {l}  BY <1>6, <2>1, <2>2, <2>3, <2>4
  <2> QED BY <2>5, <2>6
<1>9. Opened' = Opened /\ StoreOpens' = StoreOpens /\ StoreDenied' = StoreDenied
  BY <1>1 DEF Opened, StoreOpens, StoreDenied
<1>10. Linked' \subseteq Linked  BY <1>6 DEF Linked
<1>11. Files' \subseteq Files  BY <1>9, <1>10 DEF Files
<1>12. StoreContent' = [i \in Store!Live(StoreLinks', StoreOpens') |-> StoreContent[i]]
  BY <1>1, <1>11, KeepsContent
<1>13. Store!Keep(StoreLinks', StoreOpens)  BY <1>9, <1>12 DEF Store!Keep
<1> QED BY <1>1, <1>7, <1>8, <1>9, <1>13 DEF Store!Unlink

\* inode_write_at(): only the file of the handle changes, and nobody denies that.
LEMMA WriteChunkShows ==
    ASSUME FSInv, FSInv', WriteInv, WriteChunk
    PROVE  Store!Write
<1>0. OpInv /\ DiskInv /\ MemoryInv /\ OwnInv /\ CountInv  BY DEF FSInv
<1>1. PICK tr : tr = Transfer  OBVIOUS
<1>2. PICK b : b = Overlay(d_data[tr.sector], sector_ofs(tr.ofs), tr.n, op.buffer)  OBVIOUS
<1>3. /\ op.kind = "write" /\ tr.n > 0 /\ d_data' = [d_data EXCEPT ![tr.sector] = b]
      /\ UNCHANGED <<d_inode, d_dir, starved>>
  BY <1>1, <1>2 DEF WriteChunk, At, history
<1>4. Fits(tr) /\ op.handle \in Handles /\ files[op.handle].inode \in Opened
  BY <1>1, <1>3, TransferFits
<1>5. PICK h \in Handles : h = op.handle  BY <1>4
<1>6. PICK s : s = files[h].inode /\ s \in Files /\ s \in DOMAIN inodes
  BY <1>0, <1>4, <1>5 DEF Files, CountInv
<1>7. tr.sector \in DiskSectors(s)
  BY <1>3, <1>4, <1>5, <1>6 DEF Fits, DiskSectors
<1>8. StoreOpens' = StoreOpens /\ StoreDenied' = StoreDenied /\ StoreOpens[h] # NoId
  BY <1>5, ChunkShows
<1>9. StoreOpens[h] = s  BY <1>6 DEF StoreOpens
<1>10. \A g \in StoreDenied : StoreOpens[g] # s
  <2>1. inodes[s].deny_write_cnt = 0  BY <1>3, <1>5, <1>6 DEF WriteInv
  <2>2. Cardinality(Deniers(s)) = 0  BY <1>0, <1>6, <2>1 DEF CountInv, Counted
  <2>3. IsFiniteSet(Deniers(s))  BY HandlesFinite
  <2>4. Deniers(s) = {}  BY <2>2, <2>3, FS_EmptySet
  <2> QED BY <2>4 DEF Deniers, HandlesOn, StoreDenied, StoreOpens
<1>11. StoreLinks' = StoreLinks /\ Linked' = Linked /\ Opened' = Opened
  BY <1>3, <1>8, LinksKept, OpensKept
<1>12. Files' = Files  BY <1>11 DEF Files
<1>13. ASSUME NEW t \in Files, t # s PROVE Content(t)' = Content(t)
  <2>1. DiskSectors(t) \subseteq Sectors /\ tr.sector \notin DiskSectors(t)
    BY <1>0, <1>6, <1>7, <1>13, FileSectors DEF OwnInv, Held
  <2>2. \A x \in DiskSectors(t) : d_data'[x] = d_data[x]
    BY <1>0, <1>3, <2>1 DEF DiskInv
  <2> QED BY <1>3, <1>13, <2>2, ContentKept
<1>14. ASSUME NEW t \in Files PROVE DOMAIN Content(t)' = DOMAIN Content(t)
  <2>1. Data(t)' = Data(t)
    BY <1>3 DEF FSInv, MemoryInv, Data
  <2> QED BY <2>1 DEF Content, inode_length
<1>15. /\ DOMAIN StoreContent' = DOMAIN StoreContent /\ DOMAIN StoreContent = Files
       /\ \A t \in Files : StoreContent'[t] = Content(t)' /\ StoreContent[t] = Content(t)
  BY <1>12 DEF StoreContent
<1> QED BY <1>3, <1>8, <1>9, <1>10, <1>11, <1>13, <1>14, <1>15 DEF Store!Write

\* Every step is a step of the store or invisible to it.
LEMMA StoreSteps ==
    FSInv /\ FSInv' /\ StoreInv /\ StoreInv' /\ [Next]_vars => [Store!SNext]_StoreVars
<1> SUFFICES ASSUME FSInv, FSInv', StoreInv, StoreInv', [Next]_vars
             PROVE  Store!SNext \/ StoreVars' = StoreVars
  OBVIOUS
<1>0. WriteInv /\ ZeroInv  BY DEF StoreInv
<1>1. CASE \/ \E n \in Names : Remove(n) \/ \E size \in Sizes : Create(n, size)
           \/ CreateAlloc \/ CreateData \/ CreateAddFails \/ CreateUndo
           \/ RemoveFails \/ CloseLast \/ CloseRelease \/ CloseReleaseData
           \/ TransferEnds \/ TransferStarves \/ TransferReturns
           \/ \E h \in Handles : \/ \E size \in Reads : Read(h, size)
                                 \/ \E buf \in Buffers : Write(h, buf)
           \/ UNCHANGED vars
  BY <1>1, SilentSteps
<1>2. CASE CreateInode \/ CreateZero \/ ReadChunk
           \/ \E h \in Handles : \E pos \in Seeks : file_seek(h, pos)
  BY <1>2, SilentCreate, SilentRead, SilentSeek
<1>3. CASE CreateAdd \/ CreateAddStarved
  BY <1>0, <1>3, CreateAddShows, CreateAddStarvedShows DEF Store!SNext
<1>4. CASE RemoveErase  BY <1>0, <1>4, RemoveEraseShows DEF Store!SNext
<1>5. ASSUME NEW h \in Handles, (\E n \in Names : Open(n, h)) \/ (\E g \in Handles : Reopen(g, h))
      PROVE  Store!SNext
  BY <1>5, OpenShows DEF Store!SNext
<1>6. ASSUME NEW h \in Handles, Close(h) \/ file_deny_write(h) \/ file_allow_write(h)
      PROVE  Store!SNext
  BY <1>0, <1>6, CloseShows, DenyShows DEF Store!SNext
<1>7. CASE WriteChunk \/ Crash  BY <1>0, <1>7, WriteChunkShows, CrashShows DEF Store!SNext
<1> QED BY <1>1, <1>2, <1>3, <1>4, <1>5, <1>6, <1>7 DEF Next

\* filesys/, for any disk, directory, names and handles: whatever the order of the
\* operations and wherever the power fails between two writes, what they show is a store
\* of named files: new files are zeros, only an allowed write to a file changes it, an
\* unlinked file lives on under its handles, and a power failure leaves names and bytes.
\* A name is doubled or taken over only where dir_add() could not read the directory.
THEOREM StoreImplemented == Spec => ImplementsStore
<1>1. Init => Store!SInit
  <2> SUFFICES ASSUME Init PROVE Store!SInit
    OBVIOUS
  <2>1. NoFile.inode = NoId /\ NoFile.deny_write = FALSE  BY DEF NoFile
  <2>2. \A k \in Slots : ~ d_dir[k].in_use  BY DEF Init, dir_create
  <2>3. Linked = {} /\ Opened = {}  BY <2>1, <2>2 DEF Linked, Opened, Init
  <2>4. StoreLinks = {} /\ starved = 0  BY <2>2 DEF StoreLinks, Init
  <2>5. StoreContent = << >>  BY <2>3 DEF StoreContent, Files
  <2>6. StoreOpens = [h \in Handles |-> NoId] /\ StoreDenied = {}
    BY <2>1 DEF StoreOpens, StoreDenied, Init
  <2> QED BY <2>4, <2>5, <2>6 DEF Store!SInit
<1>2. FSInv /\ FSInv' /\ StoreInv /\ [Next]_vars => StoreInv'
  BY WriteInvNext, ZeroInvNext DEF StoreInv
<1>3. [Store!SNext]_StoreVars => [Store!SNext]_<<StoreLinks, StoreContent, StoreOpens, StoreDenied, starved>>
  BY DEF StoreVars
<1> QED BY <1>1, <1>2, <1>3, StoreInvInit, StoreSteps, FileSysInvariant, PTL
        DEF Spec, ImplementsStore, Store!SSpec

-----------------------------------------------------------------------------
(* Sector transfers.                                                       *)

Inside == {"select", "issue", "down", "busy", "data", "release"}
OnDisk(d, n) == d \in Disks /\ n \in 0 .. Blocks[d].size - 1
Contents == {m \in [Disks -> UNION {[0 .. Blocks[d].size - 1 -> Values] : d \in Disks}] :
                \A d \in Disks : m[d] \in [0 .. Blocks[d].size - 1 -> Values]}
CtlRecords == [disk : Int, sector : Int, cmd : {"none", "read", "write", "store", "stuck"},
               bsy : BOOLEAN, drq : BOOLEAN, data : Values]
TransferRecords == [op : {"none", "read", "write"}, disk : Int, sector : Int, val : Values]
IdeRecords ==
    [lock : Clients \union {Nobody}, expecting_interrupt : BOOLEAN, completion_wait : Nat, irq : BOOLEAN,
     ctl : CtlRecords, media : Contents, written : Contents,
     pc : [Clients -> Inside \union {"idle", "acquire"}], req : [Clients -> TransferRecords],
     spurious : Nat, lost : Nat, panicked : BOOLEAN]

\* The lock of the channel is held from select_sector() to the end of the transfer.
ChannelInv(s) ==
    \A t \in Clients :
        /\ (s.pc[t] \in Inside) <=> (s.lock = t)
        /\ s.pc[t] # "idle" => s.req[t].op # "none" /\ OnDisk(s.req[t].disk, s.req[t].sector)
\* What the controller does is what the holder of the lock told it to, or the rest of a write.
Transfers(s, t) ==
    /\ s.pc[t] \in {"down", "busy", "data"} /\ s.req[t].op = s.ctl.cmd
    /\ s.pc[t] = "down" => s.ctl.cmd = "read"
CommandInv(s) ==
    /\ s.ctl.cmd = "none" => ~ s.ctl.bsy /\ ~ s.ctl.drq
    /\ s.ctl.cmd \in {"store", "stuck"} => s.ctl.bsy /\ ~ s.ctl.drq
    /\ s.ctl.cmd \in {"read", "write"} => (s.ctl.bsy <=> ~ s.ctl.drq) /\ s.lock # Nobody
    /\ s.ctl.cmd = "store" => OnDisk(s.ctl.disk, s.ctl.sector)
    /\ \A t \in Clients : s.lock = t =>
          /\ s.ctl.cmd \in {"read", "write"} => Transfers(s, t)
          /\ s.pc[t] = "issue" \/ s.ctl.cmd \in {"read", "write"} =>
                s.ctl.disk = s.req[t].disk /\ s.ctl.sector = s.req[t].sector
          /\ s.pc[t] = "issue" => s.ctl.cmd \in {"none", "stuck"}
          /\ s.pc[t] = "data" => s.ctl.cmd = s.req[t].op /\ s.ctl.drq
\* The disk has what was written, but for a write under way; what was read is there too.
Completes(s) == s.written = [s.media EXCEPT ![s.ctl.disk][s.ctl.sector] = s.ctl.data]
CopyInv(s) ==
    /\ s.ctl.cmd \in {"none", "read", "write"} => s.media = s.written
    /\ s.ctl.cmd = "store" => Completes(s)
    /\ s.ctl.cmd = "read" /\ s.ctl.drq => s.ctl.data = s.written[s.ctl.disk][s.ctl.sector]
    /\ \A t \in Clients : s.pc[t] = "release" /\ s.req[t].op = "read" =>
          s.req[t].val = s.written[s.req[t].disk][s.req[t].sector]
\* Without unasked interrupts: a completion is due only to the holder, who waits for it or
\* is about to find the command failed, and a write is only left when the disk has it.
Due(s) == s.irq \/ s.completion_wait # 0
Expected(s, t) ==
    /\ Due(s) => /\ s.pc[t] = "down" \/ (s.pc[t] = "busy" /\ s.req[t].op = "write")
                 /\ s.ctl.cmd = "none" \/ (s.ctl.cmd = "read" /\ s.ctl.drq)
    /\ s.pc[t] = "busy" /\ s.req[t].op = "read" => s.ctl.cmd = "none" \/ (s.ctl.cmd = "read" /\ s.ctl.drq)
    /\ s.pc[t] = "release" => s.ctl.cmd = "none"
    /\ s.ctl.cmd = "store" => s.pc[t] = "down" /\ s.req[t].op = "write"
CompletionInv(s) ==
    s.spurious = 0 =>
        /\ s.completion_wait <= 1 /\ (s.irq => s.completion_wait = 0)
        /\ s.lock = Nobody => ~ Due(s) /\ s.ctl.cmd # "store"
        /\ \A t \in Clients : s.lock = t => Expected(s, t)
TransferInv(s) == s \in IdeRecords /\ ChannelInv(s) /\ CommandInv(s) /\ CopyInv(s) /\ CompletionInv(s)

\* The invariant has the property.
LEMMA TransferInvExact == IdeAssumption /\ TransferInv(ide) => DiskExact
<1> SUFFICES ASSUME IdeAssumption, TransferInv(ide) PROVE DiskExact
  OBVIOUS
<1>1. ide \in IdeRecords /\ ChannelInv(ide) /\ CommandInv(ide) /\ CopyInv(ide) /\ CompletionInv(ide)
  BY DEF TransferInv
<1>2. ASSUME NEW t \in Clients
      PROVE  /\ ide.pc[t] = "release" /\ ide.req[t].op = "read" =>
                   ide.req[t].val = ide.written[ide.req[t].disk][ide.req[t].sector]
             /\ ide.pc[t] = "issue" => CtlIdle(ide.ctl) \/ Stuck
             /\ ide.pc[t] = "release" /\ ide.req[t].op = "write" /\ ide.spurious = 0 => ide.media = ide.written
  <2>1. ide.pc[t] \in Inside => ide.lock = t
    BY <1>1 DEF ChannelInv
  <2>2. ide.pc[t] = "issue" => CtlIdle(ide.ctl) \/ Stuck
    BY <1>1, <2>1 DEF CommandInv, Inside, CtlIdle, Stuck
  <2>3. ide.pc[t] = "release" /\ ide.spurious = 0 => ide.ctl.cmd = "none"
    BY <1>1, <2>1 DEF CompletionInv, Expected, Inside
  <2> QED
    BY <1>1, <2>2, <2>3 DEF CopyInv
<1>3. ide.lock = Nobody /\ ide.spurious = 0 => ide.completion_wait = 0 /\ ~ ide.irq
  BY <1>1 DEF CompletionInv, Due
<1> QED
  BY <1>2, <1>3 DEF DiskExact

\* Sectors of the disks: what is read of them and what a write leaves.
LEMMA SectorRead ==
    ASSUME NEW m \in Contents, NEW d, NEW n, OnDisk(d, n)
    PROVE  m[d][n] \in Values
BY DEF Contents, OnDisk

LEMMA SectorWritten ==
    ASSUME NEW m \in Contents, NEW d, NEW n, OnDisk(d, n), NEW v \in Values
    PROVE  [m EXCEPT ![d][n] = v] \in Contents
<1>1. PICK f : f = [m[d] EXCEPT ![n] = v]
  OBVIOUS
<1>2. f \in [0 .. Blocks[d].size - 1 -> Values] /\ d \in Disks
  BY <1>1 DEF Contents, OnDisk
<1>3. PICK w : w = [m EXCEPT ![d] = f]
  OBVIOUS
<1>4. w \in Contents
  BY <1>2, <1>3 DEF Contents
<1> QED
  BY <1>1, <1>3, <1>4, Zenon

\* A call reaches the driver with a sector of a disk, or the kernel panics.
LEMMA AccessOnDisk ==
    ASSUME IdeAssumption, NEW b \in DOMAIN Blocks, NEW n \in Nat, NEW o
    PROVE  LET at == block_access(Blocks, b, n, o) IN at = << >> \/ OnDisk(at[1], at[2])
<1>1. PICK p : p = Blocks[b].parent
  OBVIOUS
<1>2. PICK at : at = IF p = 0 THEN <<b, n>> ELSE <<p, Blocks[b].start + n>>
  OBVIOUS
<1>3. at[1] \in Disks /\ at[2] \in Nat /\ Blocks[at[1]].size \in Nat
  BY <1>1, <1>2 DEF IdeAssumption, Disks
<1>4. Accepts(Blocks[at[1]], at[2], o) => OnDisk(at[1], at[2])
  BY <1>3 DEF Accepts, OnDisk
<1>5. block_access(Blocks, b, n, o) = at \/ block_access(Blocks, b, n, o) = << >>
  BY <1>1, <1>2 DEF block_access
<1>6. block_access(Blocks, b, n, o) = at => Accepts(Blocks[at[1]], at[2], o) \/ at = << >>
  BY <1>1, <1>2 DEF block_access
<1> QED
  BY <1>4, <1>5, <1>6

\* The lock of the channel.
LEMMA LockChannelKeeps ==
    ASSUME IdeAssumption, TransferInv(ide), NEW t \in Clients, LockChannel(t)
    PROVE  TransferInv(ide')
<1>1. /\ ide \in IdeRecords /\ ChannelInv(ide) /\ CommandInv(ide) /\ CopyInv(ide) /\ CompletionInv(ide)
      /\ ide.pc[t] = "acquire" /\ ide.lock = Nobody
  BY DEF TransferInv, LockChannel, InCall
<1>2. PICK p : p = [ide.pc EXCEPT ![t] = "select"]
  OBVIOUS
<1>3. /\ p \in [Clients -> Inside \union {"idle", "acquire"}] /\ p[t] = "select"
      /\ \A u \in Clients \ {t} : p[u] = ide.pc[u]
  BY <1>1, <1>2 DEF IdeRecords, Inside
<1>4. ide' = [ide EXCEPT !.lock = t, !.pc = p]
  BY <1>2, Zenon DEF LockChannel
<1>5. ide' \in IdeRecords
  BY <1>1, <1>3, <1>4 DEF IdeRecords
<1>6. /\ ide'.lock = t /\ ide'.pc = p /\ ide'.req = ide.req /\ ide'.ctl = ide.ctl /\ ide'.irq = ide.irq
      /\ ide'.completion_wait = ide.completion_wait /\ ide'.media = ide.media
      /\ ide'.written = ide.written /\ ide'.spurious = ide.spurious
  BY <1>1, <1>4 DEF IdeRecords
<1>7. ChannelInv(ide')
  BY <1>1, <1>3, <1>6 DEF ChannelInv, Inside, IdeAssumption
<1>8. CommandInv(ide')
  BY <1>1, <1>3, <1>6 DEF CommandInv, IdeAssumption
<1>9. CopyInv(ide')
  BY <1>1, <1>3, <1>6 DEF CopyInv, Completes
<1>10. CompletionInv(ide')
  BY <1>1, <1>3, <1>6 DEF CompletionInv, Expected, Due, IdeAssumption
<1> QED
  BY <1>5, <1>7, <1>8, <1>9, <1>10 DEF TransferInv

\* The lock goes when the transfer is over.
LEMMA UnlockChannelKeeps ==
    ASSUME IdeAssumption, TransferInv(ide), NEW t \in Clients, UnlockChannel(t)
    PROVE  TransferInv(ide')
<1>1. /\ ide \in IdeRecords /\ ChannelInv(ide) /\ CommandInv(ide) /\ CopyInv(ide) /\ CompletionInv(ide)
      /\ ide.pc[t] = "release" /\ ide.lock = t
  BY DEF TransferInv, UnlockChannel, InCall, ChannelInv, Inside
<1>2. PICK p : p = [ide.pc EXCEPT ![t] = "idle"]
  OBVIOUS
<1>3. /\ p \in [Clients -> Inside \union {"idle", "acquire"}] /\ p[t] = "idle"
      /\ \A u \in Clients \ {t} : p[u] = ide.pc[u]
  BY <1>1, <1>2 DEF IdeRecords, Inside
<1>4. PICK r : r = [ide.req EXCEPT ![t] = Nothing]
  OBVIOUS
<1>5. r \in [Clients -> TransferRecords] /\ \A u \in Clients \ {t} : r[u] = ide.req[u]
  <2>1. (CHOOSE v \in Values : TRUE) \in Values
    BY DEF IdeAssumption
  <2>2. Nothing \in TransferRecords
    BY <2>1 DEF Nothing, TransferRecords
  <2> QED
    BY <1>1, <1>4, <2>2 DEF IdeRecords
<1>6. ide' = [ide EXCEPT !.lock = Nobody, !.pc = p, !.req = r]
  BY <1>2, <1>4, Zenon DEF UnlockChannel
<1>7. ide' \in IdeRecords
  BY <1>1, <1>3, <1>5, <1>6 DEF IdeRecords
<1>8. /\ ide'.lock = Nobody /\ ide'.pc = p /\ ide'.req = r /\ ide'.ctl = ide.ctl
      /\ ide'.irq = ide.irq /\ ide'.completion_wait = ide.completion_wait /\ ide'.media = ide.media
      /\ ide'.written = ide.written /\ ide'.spurious = ide.spurious
  BY <1>1, <1>3, <1>5, <1>6 DEF IdeRecords
<1>9. ChannelInv(ide')
  BY <1>1, <1>3, <1>5, <1>8 DEF ChannelInv, Inside, IdeAssumption
<1>10. CommandInv(ide')
  BY <1>1, <1>3, <1>5, <1>8 DEF CommandInv, Transfers, IdeAssumption
<1>11. CopyInv(ide')
  BY <1>1, <1>3, <1>5, <1>8 DEF CopyInv, Completes
<1>12. CompletionInv(ide')
  BY <1>1, <1>3, <1>5, <1>8 DEF CompletionInv, Expected, Due, IdeAssumption
<1> QED
  BY <1>7, <1>9, <1>10, <1>11, <1>12 DEF TransferInv

\* select_sector(): the controller is idle, or stuck, when it is told of the sector.
LEMMA SelectKeeps ==
    ASSUME IdeAssumption, TransferInv(ide), NEW t \in Clients, select_sector(t)
    PROVE  TransferInv(ide')
<1>1. /\ ide \in IdeRecords /\ ChannelInv(ide) /\ CommandInv(ide) /\ CopyInv(ide) /\ CompletionInv(ide)
      /\ ide.pc[t] = "select" /\ ide.lock = t /\ ((~ ide.ctl.bsy /\ ~ ide.ctl.drq) \/ ide.ctl.cmd = "stuck")
  BY DEF TransferInv, select_sector, InCall, ChannelInv, Inside, CtlIdle, Stuck
<1>2. PICK p : p = [ide.pc EXCEPT ![t] = "issue"]
  OBVIOUS
<1>3. /\ p \in [Clients -> Inside \union {"idle", "acquire"}] /\ p[t] = "issue"
      /\ \A u \in Clients \ {t} : p[u] = ide.pc[u]
  BY <1>1, <1>2 DEF IdeRecords, Inside
<1>4. PICK c : c = [ide.ctl EXCEPT !.disk = ide.req[t].disk, !.sector = ide.req[t].sector]
  OBVIOUS
<1>5. c \in CtlRecords /\ c.disk = ide.req[t].disk /\ c.sector = ide.req[t].sector /\ c.cmd = ide.ctl.cmd
      /\ c.bsy = ide.ctl.bsy /\ c.drq = ide.ctl.drq /\ c.data = ide.ctl.data
  BY <1>1, <1>4 DEF IdeRecords, CtlRecords, TransferRecords
<1>6. ide.ctl.cmd \in {"none", "stuck"}
  <2>1. ide.ctl.cmd \in {"none", "read", "write", "store", "stuck"}
    BY <1>1 DEF IdeRecords, CtlRecords
  <2> QED
    BY <1>1, <2>1 DEF CommandInv, Transfers
<1>7. ide' = [ide EXCEPT !.irq = FALSE, !.ctl = c, !.pc = p]
  BY <1>2, <1>4, Zenon DEF select_sector
<1>8. ide' \in IdeRecords
  BY <1>1, <1>3, <1>5, <1>7 DEF IdeRecords
<1>9. /\ ide'.lock = ide.lock /\ ide'.pc = p /\ ide'.req = ide.req /\ ide'.ctl = c
      /\ ide'.irq = FALSE /\ ide'.completion_wait = ide.completion_wait /\ ide'.media = ide.media
      /\ ide'.written = ide.written /\ ide'.spurious = ide.spurious
  BY <1>1, <1>3, <1>5, <1>7 DEF IdeRecords
<1>10. ChannelInv(ide')
  BY <1>1, <1>3, <1>9 DEF ChannelInv, Inside
<1>11. CommandInv(ide')
  BY <1>1, <1>3, <1>5, <1>6, <1>9 DEF CommandInv, Transfers
<1>12. CopyInv(ide')
  BY <1>1, <1>3, <1>5, <1>6, <1>9 DEF CopyInv
<1>13. CompletionInv(ide')
  BY <1>1, <1>3, <1>5, <1>6, <1>9 DEF CompletionInv, Expected, Due
<1> QED
  BY <1>8, <1>10, <1>11, <1>12, <1>13 DEF TransferInv

\* issue_pio_command(): a command, unless the controller is stuck with an earlier one.
LEMMA IssueKeeps ==
    ASSUME IdeAssumption, TransferInv(ide), NEW t \in Clients, issue_pio_command(t)
    PROVE  TransferInv(ide')
<1>1. /\ ide \in IdeRecords /\ ChannelInv(ide) /\ CommandInv(ide) /\ CopyInv(ide) /\ CompletionInv(ide)
      /\ ide.pc[t] = "issue" /\ ide.lock = t
  BY DEF TransferInv, issue_pio_command, InCall, ChannelInv, Inside
<1>2. PICK to : to = IF ide.req[t].op = "read" THEN "down" ELSE "busy"
  OBVIOUS
<1>3. PICK p : p = [ide.pc EXCEPT ![t] = to]
  OBVIOUS
<1>4. /\ p \in [Clients -> Inside \union {"idle", "acquire"}] /\ p[t] = to
      /\ \A u \in Clients \ {t} : p[u] = ide.pc[u]
  BY <1>1, <1>2, <1>3 DEF IdeRecords, Inside
<1>5. ide.req[t].op \in {"read", "write"} /\ ide.ctl.cmd \in {"none", "stuck"} /\ ~ ide.ctl.drq
  BY <1>1 DEF ChannelInv, CommandInv, IdeRecords, TransferRecords
<1>6. PICK k : k = IF Stuck THEN ide.ctl.cmd ELSE ide.req[t].op
  OBVIOUS
<1>7. (ide.ctl.cmd = "stuck" => k = "stuck") /\ (ide.ctl.cmd = "none" => k = ide.req[t].op)
  BY <1>6 DEF Stuck
<1>8. PICK c : c = [ide.ctl EXCEPT !.cmd = k, !.bsy = TRUE]
  OBVIOUS
<1>9. /\ c \in CtlRecords /\ c.disk = ide.ctl.disk /\ c.sector = ide.ctl.sector /\ c.cmd = k
      /\ c.bsy /\ ~ c.drq
  BY <1>1, <1>5, <1>7, <1>8 DEF IdeRecords, CtlRecords
<1>10. ide' = [ide EXCEPT !.expecting_interrupt = TRUE, !.ctl = c, !.pc = p]
  BY <1>2, <1>3, <1>6, <1>8, Zenon DEF issue_pio_command
<1>11. ide' \in IdeRecords
  BY <1>1, <1>4, <1>9, <1>10 DEF IdeRecords
<1>12. /\ ide'.lock = ide.lock /\ ide'.pc = p /\ ide'.req = ide.req /\ ide'.ctl = c
       /\ ide'.irq = ide.irq /\ ide'.completion_wait = ide.completion_wait /\ ide'.media = ide.media
       /\ ide'.written = ide.written /\ ide'.spurious = ide.spurious
  BY <1>1, <1>4, <1>9, <1>10 DEF IdeRecords
<1>13. ChannelInv(ide')
  BY <1>1, <1>2, <1>4, <1>12 DEF ChannelInv, Inside
<1>14. CommandInv(ide')
  BY <1>1, <1>2, <1>4, <1>5, <1>7, <1>9, <1>12 DEF CommandInv, Transfers, IdeAssumption
<1>15. CopyInv(ide')
  BY <1>1, <1>2, <1>4, <1>5, <1>7, <1>9, <1>12 DEF CopyInv
<1>16. CompletionInv(ide')
  BY <1>1, <1>2, <1>4, <1>5, <1>7, <1>9, <1>12 DEF CompletionInv, Expected, Due
<1> QED
  BY <1>11, <1>13, <1>14, <1>15, <1>16 DEF TransferInv

\* sema_down() takes a completion.
LEMMA DownKeeps ==
    ASSUME IdeAssumption, TransferInv(ide), NEW t \in Clients, Down(t)
    PROVE  TransferInv(ide')
<1>1. /\ ide \in IdeRecords /\ ChannelInv(ide) /\ CommandInv(ide) /\ CopyInv(ide) /\ CompletionInv(ide)
      /\ ide.pc[t] = "down" /\ ide.lock = t /\ ide.completion_wait > 0
  BY DEF TransferInv, Down, InCall, ChannelInv, Inside
<1>2. PICK to : to = IF ide.req[t].op = "read" THEN "busy" ELSE "release"
  OBVIOUS
<1>3. PICK p : p = [ide.pc EXCEPT ![t] = to]
  OBVIOUS
<1>4. /\ p \in [Clients -> Inside \union {"idle", "acquire"}] /\ p[t] = to
      /\ \A u \in Clients \ {t} : p[u] = ide.pc[u]
  BY <1>1, <1>2, <1>3 DEF IdeRecords, Inside
<1>5. PICK n : n = ide.completion_wait - 1
  OBVIOUS
<1>6. n \in Nat /\ (ide.completion_wait <= 1 => n = 0)
  BY <1>1, <1>5 DEF IdeRecords
<1>7. ide.req[t].op \in {"read", "write"} /\ ide.ctl.cmd \in {"none", "read", "write", "store", "stuck"}
  BY <1>1 DEF ChannelInv, IdeRecords, TransferRecords, CtlRecords
<1>8. ide.completion_wait # 0
  BY <1>1 DEF IdeRecords
<1>9. ide' = [ide EXCEPT !.completion_wait = n, !.pc = p]
  BY <1>2, <1>3, <1>5, Zenon DEF Down
<1>10. ide' \in IdeRecords
  BY <1>1, <1>4, <1>6, <1>9 DEF IdeRecords
<1>11. /\ ide'.lock = ide.lock /\ ide'.pc = p /\ ide'.req = ide.req /\ ide'.ctl = ide.ctl
       /\ ide'.irq = ide.irq /\ ide'.completion_wait = n /\ ide'.media = ide.media
       /\ ide'.written = ide.written /\ ide'.spurious = ide.spurious
  BY <1>1, <1>4, <1>6, <1>9 DEF IdeRecords
<1>12. ChannelInv(ide')
  BY <1>1, <1>2, <1>4, <1>7, <1>11 DEF ChannelInv, Inside
<1>13. CommandInv(ide')
  BY <1>1, <1>2, <1>4, <1>7, <1>11 DEF CommandInv, Transfers
<1>14. CopyInv(ide')
  BY <1>1, <1>2, <1>4, <1>7, <1>11 DEF CopyInv, Completes
<1>15. CompletionInv(ide')
  BY <1>1, <1>2, <1>4, <1>6, <1>7, <1>8, <1>11 DEF CompletionInv, CommandInv, Transfers, Expected, Due
<1> QED
  BY <1>10, <1>12, <1>13, <1>14, <1>15 DEF TransferInv

\* wait_while_busy(): the transfer goes on, or the kernel panics.
LEMMA BusyKeeps ==
    ASSUME IdeAssumption, TransferInv(ide), NEW t \in Clients, wait_while_busy(t)
    PROVE  TransferInv(ide')
<1>1. /\ ide \in IdeRecords /\ ChannelInv(ide) /\ CommandInv(ide) /\ CopyInv(ide) /\ CompletionInv(ide)
      /\ ide.pc[t] = "busy" /\ ide.lock = t
  BY DEF TransferInv, wait_while_busy, InCall, ChannelInv, Inside
<1>2. PICK p, b : /\ b \in BOOLEAN /\ ide' = [ide EXCEPT !.panicked = b, !.pc = p]
                  /\ p = ide.pc \/ (p = [ide.pc EXCEPT ![t] = "data"] /\ ide.ctl.drq)
  <2>1. CASE ~ ide.ctl.drq
    <3>1. ide' = [ide EXCEPT !.panicked = TRUE]
      BY <2>1 DEF wait_while_busy
    <3>2. ide' = [ide EXCEPT !.panicked = TRUE, !.pc = ide.pc]
      BY <1>1, <3>1 DEF IdeRecords
    <3> QED
      BY <3>2, Zenon
  <2>2. CASE ide.ctl.drq
    <3>1. ide' = [ide EXCEPT !.pc = [ide.pc EXCEPT ![t] = "data"]]
      BY <2>2 DEF wait_while_busy
    <3>2. ide' = [ide EXCEPT !.panicked = ide.panicked, !.pc = [ide.pc EXCEPT ![t] = "data"]]
      BY <1>1, <3>1 DEF IdeRecords
    <3>3. ide.panicked \in BOOLEAN
      BY <1>1 DEF IdeRecords
    <3> QED
      BY <2>2, <3>2, <3>3, Zenon
  <2> QED
    BY <2>1, <2>2
<1>3. /\ p \in [Clients -> Inside \union {"idle", "acquire"}] /\ (p[t] = "busy" \/ (p[t] = "data" /\ ide.ctl.drq))
      /\ \A u \in Clients \ {t} : p[u] = ide.pc[u]
  BY <1>1, <1>2 DEF IdeRecords, Inside
<1>4. /\ ide.req[t].op \in {"read", "write"}
      /\ ide.ctl.drq => ide.ctl.cmd \in {"read", "write"} /\ ide.ctl.cmd = ide.req[t].op
  BY <1>1 DEF ChannelInv, CommandInv, Transfers, IdeRecords, TransferRecords, CtlRecords
<1>5. ide' \in IdeRecords
  BY <1>1, <1>2, <1>3 DEF IdeRecords
<1>6. /\ ide'.lock = ide.lock /\ ide'.pc = p /\ ide'.req = ide.req /\ ide'.ctl = ide.ctl
      /\ ide'.irq = ide.irq /\ ide'.completion_wait = ide.completion_wait /\ ide'.media = ide.media
      /\ ide'.written = ide.written /\ ide'.spurious = ide.spurious
  BY <1>1, <1>2, <1>3 DEF IdeRecords
<1>7. ChannelInv(ide')
  BY <1>1, <1>3, <1>4, <1>6 DEF ChannelInv, Inside
<1>8. CommandInv(ide')
  BY <1>1, <1>3, <1>4, <1>6 DEF CommandInv, Transfers
<1>9. CopyInv(ide')
  BY <1>1, <1>3, <1>4, <1>6 DEF CopyInv, Completes
<1>10. CompletionInv(ide')
  BY <1>1, <1>3, <1>4, <1>6 DEF CompletionInv, Expected, Due
<1> QED
  BY <1>5, <1>7, <1>8, <1>9, <1>10 DEF TransferInv

\* input_sector(): the data of the sector, which is what was last written to it.
LEMMA InputKeeps ==
    ASSUME IdeAssumption, TransferInv(ide), NEW t \in Clients, input_sector(t)
    PROVE  TransferInv(ide')
<1>1. /\ ide \in IdeRecords /\ ChannelInv(ide) /\ CommandInv(ide) /\ CopyInv(ide) /\ CompletionInv(ide)
      /\ ide.pc[t] = "data" /\ ide.lock = t /\ ide.req[t].op = "read"
  BY DEF TransferInv, input_sector, InCall, ChannelInv, Inside
<1>2. PICK p : p = [ide.pc EXCEPT ![t] = "release"]
  OBVIOUS
<1>3. /\ p \in [Clients -> Inside \union {"idle", "acquire"}] /\ p[t] = "release"
      /\ \A u \in Clients \ {t} : p[u] = ide.pc[u]
  BY <1>1, <1>2 DEF IdeRecords, Inside
<1>4. PICK c : c = [ide.ctl EXCEPT !.drq = FALSE, !.cmd = "none"]
  OBVIOUS
<1>5. /\ c \in CtlRecords /\ c.cmd = "none" /\ ~ c.drq /\ c.bsy = ide.ctl.bsy
  BY <1>1, <1>4 DEF IdeRecords, CtlRecords
<1>6. PICK x : x = [ide.req[t] EXCEPT !.val = ide.ctl.data]
  OBVIOUS
<1>7. /\ x \in TransferRecords /\ x.op = "read" /\ x.disk = ide.req[t].disk /\ x.sector = ide.req[t].sector
      /\ x.val = ide.ctl.data
  BY <1>1, <1>6 DEF IdeRecords, TransferRecords, CtlRecords
<1>8. PICK r : r = [ide.req EXCEPT ![t] = x]
  OBVIOUS
<1>9. r \in [Clients -> TransferRecords] /\ r[t] = x /\ \A u \in Clients \ {t} : r[u] = ide.req[u]
  BY <1>1, <1>7, <1>8 DEF IdeRecords
<1>10. ide' = [ide EXCEPT !.ctl = c, !.req = r, !.pc = p]
  BY <1>2, <1>4, <1>6, <1>8, Zenon DEF input_sector
<1>11. ide.ctl.cmd = "read" /\ ide.ctl.drq /\ ~ ide.ctl.bsy
  BY <1>1 DEF CommandInv
<1>12. /\ x.val = ide.written[x.disk][x.sector] /\ ide.media = ide.written
  BY <1>1, <1>7, <1>11 DEF CopyInv, CommandInv
<1>13. ide' \in IdeRecords
  BY <1>1, <1>3, <1>5, <1>9, <1>10 DEF IdeRecords
<1>14. /\ ide'.lock = ide.lock /\ ide'.pc = p /\ ide'.req = r /\ ide'.ctl = c /\ ide'.irq = ide.irq
       /\ ide'.completion_wait = ide.completion_wait /\ ide'.media = ide.media
       /\ ide'.written = ide.written /\ ide'.spurious = ide.spurious
  BY <1>1, <1>3, <1>5, <1>9, <1>10 DEF IdeRecords
<1>15. ChannelInv(ide')
  BY <1>1, <1>3, <1>7, <1>9, <1>14 DEF ChannelInv, Inside
<1>16. CommandInv(ide')
  BY <1>1, <1>3, <1>5, <1>7, <1>9, <1>11, <1>14 DEF CommandInv, Transfers
<1>17. CopyInv(ide')
  <2>1. ide'.ctl.cmd = "none" /\ ide'.media = ide'.written
    BY <1>5, <1>12, <1>14
  <2>2. ASSUME NEW u \in Clients, ide'.pc[u] = "release", ide'.req[u].op = "read"
        PROVE  ide'.req[u].val = ide'.written[ide'.req[u].disk][ide'.req[u].sector]
    <3>1. CASE u = t
      BY <1>9, <1>12, <1>14, <3>1
    <3>2. CASE u # t
      <4>1. ide'.req[u] = ide.req[u] /\ ide.pc[u] = "release"
        BY <1>3, <1>9, <1>14, <2>2, <3>2
      <4>2. ide.req[u].val = ide.written[ide.req[u].disk][ide.req[u].sector]
        BY <1>1, <2>2, <4>1 DEF CopyInv
      <4> QED BY <1>14, <4>1, <4>2
    <3> QED BY <3>1, <3>2
  <2> QED BY <2>1, <2>2 DEF CopyInv
<1>18. CompletionInv(ide')
  BY <1>1, <1>3, <1>5, <1>7, <1>9, <1>11, <1>14 DEF CompletionInv, Expected, Due
<1> QED
  BY <1>13, <1>15, <1>16, <1>17, <1>18 DEF TransferInv

\* output_sector(): what was written is what the disk will have after the command.
LEMMA OutputKeeps ==
    ASSUME IdeAssumption, TransferInv(ide), NEW t \in Clients, output_sector(t)
    PROVE  TransferInv(ide')
<1>1. /\ ide \in IdeRecords /\ ChannelInv(ide) /\ CommandInv(ide) /\ CopyInv(ide) /\ CompletionInv(ide)
      /\ ide.pc[t] = "data" /\ ide.lock = t /\ ide.req[t].op = "write"
  BY DEF TransferInv, output_sector, InCall, ChannelInv, Inside
<1>2. PICK p : p = [ide.pc EXCEPT ![t] = "down"]
  OBVIOUS
<1>3. /\ p \in [Clients -> Inside \union {"idle", "acquire"}] /\ p[t] = "down"
      /\ \A u \in Clients \ {t} : p[u] = ide.pc[u]
  BY <1>1, <1>2 DEF IdeRecords, Inside
<1>4. PICK c : c = [ide.ctl EXCEPT !.drq = FALSE, !.bsy = TRUE, !.cmd = "store", !.data = ide.req[t].val]
  OBVIOUS
<1>5. /\ c \in CtlRecords /\ c.cmd = "store" /\ ~ c.drq /\ c.bsy /\ c.data = ide.req[t].val
      /\ c.disk = ide.ctl.disk /\ c.sector = ide.ctl.sector
  BY <1>1, <1>4 DEF IdeRecords, CtlRecords, TransferRecords
<1>6. ide.ctl.cmd = "write" /\ ide.ctl.drq /\ OnDisk(ide.ctl.disk, ide.ctl.sector)
  BY <1>1 DEF CommandInv, ChannelInv
<1>7. PICK w : w = [ide.written EXCEPT ![ide.ctl.disk][ide.ctl.sector] = ide.req[t].val]
  OBVIOUS
<1>8. w \in Contents
  <2>1. ide.req[t].val \in Values /\ ide.written \in Contents
    BY <1>1 DEF IdeRecords, TransferRecords
  <2> QED
    BY <1>6, <1>7, <2>1, SectorWritten
<1>9. w = [ide.media EXCEPT ![c.disk][c.sector] = c.data]
  <2>1. ide.media = ide.written
    BY <1>1, <1>6 DEF CopyInv
  <2> QED
    BY <1>5, <1>7, <2>1, Zenon
<1>10. ide' = [ide EXCEPT !.ctl = c, !.written = w, !.pc = p]
  BY <1>2, <1>4, <1>7, Zenon DEF output_sector
<1>11. \A u \in Clients : p[u] # "release"
  BY <1>1, <1>3 DEF ChannelInv, Inside
<1>12. ide' \in IdeRecords
  BY <1>1, <1>3, <1>5, <1>8, <1>10 DEF IdeRecords
<1>13. /\ ide'.lock = ide.lock /\ ide'.pc = p /\ ide'.req = ide.req /\ ide'.ctl = c
       /\ ide'.irq = ide.irq /\ ide'.completion_wait = ide.completion_wait /\ ide'.media = ide.media
       /\ ide'.written = w /\ ide'.spurious = ide.spurious
  BY <1>1, <1>3, <1>5, <1>8, <1>10 DEF IdeRecords
<1>14. ChannelInv(ide')
  BY <1>1, <1>3, <1>5, <1>6, <1>13 DEF ChannelInv, Inside
<1>15. CommandInv(ide')
  BY <1>1, <1>3, <1>5, <1>6, <1>13 DEF CommandInv, Transfers
<1>16. CopyInv(ide')
  <2>1. Completes(ide')
    BY <1>9, <1>13, Zenon DEF Completes
  <2> QED
    BY <1>5, <1>11, <1>13, <2>1 DEF CopyInv
<1>17. CompletionInv(ide')
  BY <1>1, <1>3, <1>5, <1>6, <1>13 DEF CompletionInv, Expected, Due, IdeAssumption
<1> QED
  BY <1>12, <1>14, <1>15, <1>16, <1>17 DEF TransferInv

\* interrupt_handler(): an interrupt becomes a completion.
LEMMA HandlerKeeps ==
    ASSUME IdeAssumption, TransferInv(ide), interrupt_handler
    PROVE  TransferInv(ide')
<1>1. /\ ide \in IdeRecords /\ ChannelInv(ide) /\ CommandInv(ide) /\ CopyInv(ide) /\ CompletionInv(ide)
      /\ ide.irq
  BY DEF TransferInv, interrupt_handler
<1>2. PICK n : n = IF ide.expecting_interrupt THEN ide.completion_wait + 1 ELSE ide.completion_wait
  OBVIOUS
<1>3. n \in Nat /\ (ide.completion_wait = 0 => n <= 1)
  BY <1>1, <1>2 DEF IdeRecords
<1>4. ide' = [ide EXCEPT !.irq = FALSE, !.completion_wait = n]
  BY <1>2, Zenon DEF interrupt_handler
<1>5. ide' \in IdeRecords
  BY <1>1, <1>3, <1>4 DEF IdeRecords
<1>6. /\ ide'.lock = ide.lock /\ ide'.pc = ide.pc /\ ide'.req = ide.req /\ ide'.ctl = ide.ctl
      /\ ide'.irq = FALSE /\ ide'.completion_wait = n /\ ide'.media = ide.media
      /\ ide'.written = ide.written /\ ide'.spurious = ide.spurious
  BY <1>1, <1>3, <1>4 DEF IdeRecords
<1>7. ChannelInv(ide')
  BY <1>1, <1>3, <1>6 DEF ChannelInv, Inside
<1>8. CommandInv(ide')
  BY <1>1, <1>3, <1>6 DEF CommandInv, Transfers
<1>9. CopyInv(ide')
  BY <1>1, <1>3, <1>6 DEF CopyInv, Completes
<1>10. CompletionInv(ide')
  BY <1>1, <1>3, <1>6 DEF CompletionInv, Expected, Due
<1> QED
  BY <1>5, <1>7, <1>8, <1>9, <1>10 DEF TransferInv

\* The controller has read the sector.
LEMMA ReadReadyKeeps ==
    ASSUME IdeAssumption, TransferInv(ide), ReadReady
    PROVE  TransferInv(ide')
<1>1. /\ ide \in IdeRecords /\ ChannelInv(ide) /\ CommandInv(ide) /\ CopyInv(ide) /\ CompletionInv(ide)
      /\ ide.ctl.cmd = "read" /\ ide.ctl.bsy /\ ~ ide.ctl.drq /\ ide.lock # Nobody
  BY DEF TransferInv, ReadReady, CommandInv
<1>2. PICK t \in Clients : ide.lock = t
  BY <1>1 DEF IdeRecords
<1>3. /\ Transfers(ide, t) /\ ide.ctl.disk = ide.req[t].disk /\ ide.ctl.sector = ide.req[t].sector
      /\ OnDisk(ide.ctl.disk, ide.ctl.sector)
  BY <1>1, <1>2 DEF CommandInv, ChannelInv, Transfers
<1>4. PICK v : v = ide.media[ide.ctl.disk][ide.ctl.sector]
  OBVIOUS
<1>5. v \in Values /\ v = ide.written[ide.ctl.disk][ide.ctl.sector]
  <2>1. ide.media \in Contents /\ ide.media = ide.written
    BY <1>1 DEF IdeRecords, CopyInv
  <2> QED
    BY <1>3, <1>4, <2>1, SectorRead
<1>6. PICK c : c = [ide.ctl EXCEPT !.bsy = FALSE, !.drq = TRUE, !.data = v]
  OBVIOUS
<1>7. /\ c \in CtlRecords /\ c.cmd = "read" /\ ~ c.bsy /\ c.drq /\ c.data = v
      /\ c.disk = ide.ctl.disk /\ c.sector = ide.ctl.sector
  BY <1>1, <1>5, <1>6 DEF IdeRecords, CtlRecords
<1>8. PICK b, n : b \in BOOLEAN /\ n \in Nat /\ ide' = [ide EXCEPT !.ctl = c, !.irq = b, !.lost = n]
  <2>0. PICK lose \in BOOLEAN :
            ide' = [ide EXCEPT !.ctl.bsy = FALSE, !.ctl.drq = TRUE,
                               !.ctl.data = ide.media[ide.ctl.disk][ide.ctl.sector],
                               !.irq = ~ lose, !.lost = IF lose THEN @ + 1 ELSE @]
    BY Zenon DEF ReadReady
  <2>1. ide' = [ide EXCEPT !.ctl = c, !.irq = ~ lose, !.lost = IF lose THEN ide.lost + 1 ELSE ide.lost]
    BY <1>4, <1>6, <2>0, Zenon
  <2>2. (~ lose) \in BOOLEAN /\ (IF lose THEN ide.lost + 1 ELSE ide.lost) \in Nat
    BY <1>1 DEF IdeRecords
  <2> QED
    BY <2>1, <2>2, Zenon
<1>9. ide' \in IdeRecords
  BY <1>1, <1>7, <1>8 DEF IdeRecords
<1>10. /\ ide'.lock = ide.lock /\ ide'.pc = ide.pc /\ ide'.req = ide.req /\ ide'.ctl = c
       /\ ide'.irq = b /\ ide'.completion_wait = ide.completion_wait /\ ide'.media = ide.media
       /\ ide'.written = ide.written /\ ide'.spurious = ide.spurious
  BY <1>1, <1>7, <1>8 DEF IdeRecords
<1>11. ChannelInv(ide')
  BY <1>1, <1>10 DEF ChannelInv, Inside
<1>12. CommandInv(ide')
  BY <1>1, <1>2, <1>3, <1>7, <1>10 DEF CommandInv, Transfers
<1>13. CopyInv(ide')
  BY <1>1, <1>5, <1>7, <1>10 DEF CopyInv, Completes
<1>14. CompletionInv(ide')
  BY <1>1, <1>2, <1>3, <1>7, <1>10 DEF CompletionInv, CommandInv, Transfers, Expected, Due
<1> QED
  BY <1>9, <1>11, <1>12, <1>13, <1>14 DEF TransferInv

\* The controller can take the data of a write.
LEMMA WriteReadyKeeps ==
    ASSUME IdeAssumption, TransferInv(ide), WriteReady
    PROVE  TransferInv(ide')
<1>1. /\ ide \in IdeRecords /\ ChannelInv(ide) /\ CommandInv(ide) /\ CopyInv(ide) /\ CompletionInv(ide)
      /\ ide.ctl.cmd = "write" /\ ide.ctl.bsy /\ ~ ide.ctl.drq
  BY DEF TransferInv, WriteReady, CommandInv
<1>2. PICK c : c = [ide.ctl EXCEPT !.bsy = FALSE, !.drq = TRUE]
  OBVIOUS
<1>3. /\ c \in CtlRecords /\ c.cmd = "write" /\ ~ c.bsy /\ c.drq
      /\ c.disk = ide.ctl.disk /\ c.sector = ide.ctl.sector
  BY <1>1, <1>2 DEF IdeRecords, CtlRecords
<1>4. ide' = [ide EXCEPT !.ctl = c]
  BY <1>2, Zenon DEF WriteReady
<1>5. ide' \in IdeRecords
  BY <1>1, <1>3, <1>4 DEF IdeRecords
<1>6. /\ ide'.lock = ide.lock /\ ide'.pc = ide.pc /\ ide'.req = ide.req /\ ide'.ctl = c
      /\ ide'.irq = ide.irq /\ ide'.completion_wait = ide.completion_wait /\ ide'.media = ide.media
      /\ ide'.written = ide.written /\ ide'.spurious = ide.spurious
  BY <1>1, <1>3, <1>4 DEF IdeRecords
<1>7. ChannelInv(ide')
  BY <1>1, <1>6 DEF ChannelInv, Inside
<1>8. CommandInv(ide')
  BY <1>1, <1>3, <1>6 DEF CommandInv, Transfers
<1>9. CopyInv(ide')
  BY <1>1, <1>3, <1>6 DEF CopyInv, Completes
<1>10. CompletionInv(ide')
  BY <1>1, <1>3, <1>6 DEF CompletionInv, Expected, Due
<1> QED
  BY <1>5, <1>7, <1>8, <1>9, <1>10 DEF TransferInv

\* The disk has the data of a write.
LEMMA StoredKeeps ==
    ASSUME IdeAssumption, TransferInv(ide), Stored
    PROVE  TransferInv(ide')
<1>1. /\ ide \in IdeRecords /\ ChannelInv(ide) /\ CommandInv(ide) /\ CopyInv(ide) /\ CompletionInv(ide)
      /\ ide.ctl.cmd = "store" /\ ide.ctl.bsy /\ ~ ide.ctl.drq
  BY DEF TransferInv, Stored, CommandInv
<1>2. PICK c : c = [ide.ctl EXCEPT !.bsy = FALSE, !.cmd = "none"]
  OBVIOUS
<1>3. /\ c \in CtlRecords /\ c.cmd = "none" /\ ~ c.bsy /\ ~ c.drq
  BY <1>1, <1>2 DEF IdeRecords, CtlRecords
<1>4. ide.written = [ide.media EXCEPT ![ide.ctl.disk][ide.ctl.sector] = ide.ctl.data] /\ ide.written \in Contents
  BY <1>1 DEF CopyInv, Completes, IdeRecords
<1>5. ide' = [ide EXCEPT !.ctl = c, !.irq = TRUE, !.media = ide.written]
  BY <1>2, <1>4, Zenon DEF Stored
<1>6. ide.spurious = 0 => ~ Due(ide) /\ \E t \in Clients : ide.lock = t
  BY <1>1 DEF CompletionInv, Expected, CommandInv, IdeRecords
<1>7. ide' \in IdeRecords
  BY <1>1, <1>3, <1>4, <1>5 DEF IdeRecords
<1>8. /\ ide'.lock = ide.lock /\ ide'.pc = ide.pc /\ ide'.req = ide.req /\ ide'.ctl = c
      /\ ide'.irq = TRUE /\ ide'.completion_wait = ide.completion_wait /\ ide'.media = ide.written
      /\ ide'.written = ide.written /\ ide'.spurious = ide.spurious
  BY <1>1, <1>3, <1>4, <1>5 DEF IdeRecords
<1>9. ChannelInv(ide')
  BY <1>1, <1>8 DEF ChannelInv, Inside
<1>10. CommandInv(ide')
  BY <1>1, <1>3, <1>8 DEF CommandInv, Transfers
<1>11. CopyInv(ide')
  BY <1>1, <1>3, <1>8 DEF CopyInv, Completes
<1>12. CompletionInv(ide')
  BY <1>1, <1>3, <1>6, <1>8 DEF CompletionInv, Expected, Due
<1> QED
  BY <1>7, <1>9, <1>10, <1>11, <1>12 DEF TransferInv

\* A command fails: an interrupt, and no data to transfer.
LEMMA CommandFailsKeeps ==
    ASSUME IdeAssumption, TransferInv(ide), CommandFails
    PROVE  TransferInv(ide')
<1>1. /\ ide \in IdeRecords /\ ChannelInv(ide) /\ CommandInv(ide) /\ CopyInv(ide) /\ CompletionInv(ide)
      /\ ide.ctl.cmd \in {"read", "write"} /\ ide.ctl.bsy /\ ~ ide.ctl.drq
  BY DEF TransferInv, CommandFails, CommandInv
<1>2. PICK c : c = [ide.ctl EXCEPT !.bsy = FALSE, !.cmd = "none"]
  OBVIOUS
<1>3. /\ c \in CtlRecords /\ c.cmd = "none" /\ ~ c.bsy /\ ~ c.drq
  BY <1>1, <1>2 DEF IdeRecords, CtlRecords
<1>4. ide' = [ide EXCEPT !.ctl = c, !.irq = TRUE]
  BY <1>2, Zenon DEF CommandFails
<1>5. ide.spurious = 0 => ~ Due(ide) /\ \E t \in Clients : ide.lock = t
  BY <1>1 DEF CompletionInv, Expected, CommandInv, IdeRecords
<1>6. ide' \in IdeRecords
  BY <1>1, <1>3, <1>4 DEF IdeRecords
<1>7. /\ ide'.lock = ide.lock /\ ide'.pc = ide.pc /\ ide'.req = ide.req /\ ide'.ctl = c
      /\ ide'.irq = TRUE /\ ide'.completion_wait = ide.completion_wait /\ ide'.media = ide.media
      /\ ide'.written = ide.written /\ ide'.spurious = ide.spurious
  BY <1>1, <1>3, <1>4 DEF IdeRecords
<1>8. ChannelInv(ide')
  BY <1>1, <1>7 DEF ChannelInv, Inside
<1>9. CommandInv(ide')
  BY <1>1, <1>3, <1>7 DEF CommandInv, Transfers
<1>10. CopyInv(ide')
  BY <1>1, <1>3, <1>7 DEF CopyInv, Completes
<1>11. CompletionInv(ide')
  BY <1>1, <1>3, <1>5, <1>7 DEF CompletionInv, CommandInv, Transfers, Expected, Due
<1> QED
  BY <1>6, <1>8, <1>9, <1>10, <1>11 DEF TransferInv

\* The controller hangs: nothing comes of its command.
LEMMA HangKeeps ==
    ASSUME IdeAssumption, TransferInv(ide), Hang
    PROVE  TransferInv(ide')
<1>1. /\ ide \in IdeRecords /\ ChannelInv(ide) /\ CommandInv(ide) /\ CopyInv(ide) /\ CompletionInv(ide)
      /\ ide.ctl.cmd \in {"read", "write", "store"} /\ ide.ctl.bsy /\ ~ ide.ctl.drq
  BY DEF TransferInv, Hang, CommandInv
<1>2. PICK c : c = [ide.ctl EXCEPT !.cmd = "stuck"]
  OBVIOUS
<1>3. /\ c \in CtlRecords /\ c.cmd = "stuck" /\ c.bsy /\ ~ c.drq
  BY <1>1, <1>2 DEF IdeRecords, CtlRecords
<1>4. PICK n : n = ide.lost + 1
  OBVIOUS
<1>5. n \in Nat
  BY <1>1, <1>4 DEF IdeRecords
<1>6. ide' = [ide EXCEPT !.ctl = c, !.lost = n]
  BY <1>2, <1>4, Zenon DEF Hang
<1>7. ide' \in IdeRecords
  BY <1>1, <1>3, <1>5, <1>6 DEF IdeRecords
<1>8. /\ ide'.lock = ide.lock /\ ide'.pc = ide.pc /\ ide'.req = ide.req /\ ide'.ctl = c
      /\ ide'.irq = ide.irq /\ ide'.completion_wait = ide.completion_wait /\ ide'.media = ide.media
      /\ ide'.written = ide.written /\ ide'.spurious = ide.spurious
  BY <1>1, <1>3, <1>5, <1>6 DEF IdeRecords
<1>9. ChannelInv(ide')
  BY <1>1, <1>8 DEF ChannelInv, Inside
<1>10. CommandInv(ide')
  BY <1>1, <1>3, <1>8 DEF CommandInv, Transfers
<1>11. CopyInv(ide')
  BY <1>1, <1>3, <1>8 DEF CopyInv, Completes
<1>12. CompletionInv(ide')
  BY <1>1, <1>3, <1>8 DEF CompletionInv, CommandInv, Transfers, Expected, Due
<1> QED
  BY <1>7, <1>9, <1>10, <1>11, <1>12 DEF TransferInv

\* An interrupt comes unasked.
LEMMA UnaskedKeeps ==
    ASSUME IdeAssumption, TransferInv(ide), Spurious
    PROVE  TransferInv(ide')
<1>1. /\ ide \in IdeRecords /\ ChannelInv(ide) /\ CommandInv(ide) /\ CopyInv(ide) /\ CompletionInv(ide)
      /\ ~ ide.irq
  BY DEF TransferInv, Spurious
<1>2. PICK n : n = ide.spurious + 1
  OBVIOUS
<1>3. n \in Nat /\ n # 0
  BY <1>1, <1>2 DEF IdeRecords
<1>4. ide' = [ide EXCEPT !.irq = TRUE, !.spurious = n]
  BY <1>2, Zenon DEF Spurious
<1>5. ide' \in IdeRecords
  BY <1>1, <1>3, <1>4 DEF IdeRecords
<1>6. /\ ide'.lock = ide.lock /\ ide'.pc = ide.pc /\ ide'.req = ide.req /\ ide'.ctl = ide.ctl
      /\ ide'.irq = TRUE /\ ide'.completion_wait = ide.completion_wait /\ ide'.media = ide.media
      /\ ide'.written = ide.written /\ ide'.spurious = n
  BY <1>1, <1>3, <1>4 DEF IdeRecords
<1>7. ChannelInv(ide')
  BY <1>1, <1>6 DEF ChannelInv, Inside
<1>8. CommandInv(ide')
  BY <1>1, <1>6 DEF CommandInv, Transfers
<1>9. CopyInv(ide')
  BY <1>1, <1>6 DEF CopyInv, Completes
<1>10. CompletionInv(ide')
  BY <1>1, <1>3, <1>6 DEF CompletionInv
<1> QED
  BY <1>5, <1>7, <1>8, <1>9, <1>10 DEF TransferInv

\* A call of block_read() or block_write() gets to the disk, or panics.
LEMMA StartKeeps ==
    ASSUME IdeAssumption, TransferInv(ide), NEW t \in Clients,
           NEW o \in {"read", "write"}, NEW b \in DOMAIN Blocks, NEW n \in Nat, NEW v \in Values, Start(t, o, b, n, v)
    PROVE  TransferInv(ide')
<1>1. /\ ide \in IdeRecords /\ ChannelInv(ide) /\ CommandInv(ide) /\ CopyInv(ide) /\ CompletionInv(ide)
      /\ ide.pc[t] = "idle" /\ ide.lock # t
  BY DEF TransferInv, Start, ChannelInv, Inside
<1>2. CASE block_access(Blocks, b, n, o) = << >>
  <2>1. ide' = [ide EXCEPT !.panicked = TRUE]
    BY <1>2 DEF Start
  <2>2. ide' \in IdeRecords
    BY <1>1, <2>1 DEF IdeRecords
  <2>3. /\ ide'.lock = ide.lock /\ ide'.pc = ide.pc /\ ide'.req = ide.req /\ ide'.ctl = ide.ctl
        /\ ide'.irq = ide.irq /\ ide'.completion_wait = ide.completion_wait /\ ide'.media = ide.media
        /\ ide'.written = ide.written /\ ide'.spurious = ide.spurious
    BY <1>1, <2>1 DEF IdeRecords
  <2>4. ChannelInv(ide') /\ CommandInv(ide') /\ CopyInv(ide') /\ CompletionInv(ide')
    BY <1>1, <2>3 DEF ChannelInv, CommandInv, Transfers, CopyInv, Completes, CompletionInv, Expected, Due
  <2> QED
    BY <2>2, <2>4 DEF TransferInv
<1>3. SUFFICES ASSUME block_access(Blocks, b, n, o) # << >> PROVE TransferInv(ide')
  BY <1>2
<1>4. PICK at : at = block_access(Blocks, b, n, o)
  OBVIOUS
<1>5. OnDisk(at[1], at[2]) /\ at[1] \in Int /\ at[2] \in Int
  <2>1. OnDisk(at[1], at[2])
    BY <1>3, <1>4, AccessOnDisk
  <2> QED
    BY <2>1 DEF OnDisk, Disks, IdeAssumption
<1>6. PICK p : p = [ide.pc EXCEPT ![t] = "acquire"]
  OBVIOUS
<1>7. /\ p \in [Clients -> Inside \union {"idle", "acquire"}] /\ p[t] = "acquire"
      /\ \A u \in Clients \ {t} : p[u] = ide.pc[u]
  BY <1>1, <1>6 DEF IdeRecords, Inside
<1>8. PICK x : x = [op |-> o, disk |-> at[1], sector |-> at[2], val |-> v]
  OBVIOUS
<1>9. x \in TransferRecords /\ x.op # "none" /\ OnDisk(x.disk, x.sector)
  BY <1>5, <1>8 DEF TransferRecords
<1>10. PICK r : r = [ide.req EXCEPT ![t] = x]
  OBVIOUS
<1>11. r \in [Clients -> TransferRecords] /\ r[t] = x /\ \A u \in Clients \ {t} : r[u] = ide.req[u]
  BY <1>1, <1>9, <1>10 DEF IdeRecords
<1>12. ide' = [ide EXCEPT !.pc = p, !.req = r]
  BY <1>3, <1>4, <1>6, <1>8, <1>10, Zenon DEF Start
<1>13. ide' \in IdeRecords
  BY <1>1, <1>7, <1>11, <1>12 DEF IdeRecords
<1>14. /\ ide'.lock = ide.lock /\ ide'.pc = p /\ ide'.req = r /\ ide'.ctl = ide.ctl
       /\ ide'.irq = ide.irq /\ ide'.completion_wait = ide.completion_wait /\ ide'.media = ide.media
       /\ ide'.written = ide.written /\ ide'.spurious = ide.spurious
  BY <1>1, <1>7, <1>11, <1>12 DEF IdeRecords
<1>15. ChannelInv(ide')
  BY <1>1, <1>7, <1>9, <1>11, <1>14 DEF ChannelInv, Inside
<1>16. CommandInv(ide')
  BY <1>1, <1>7, <1>11, <1>14 DEF CommandInv, Transfers
<1>17. CopyInv(ide')
  BY <1>1, <1>7, <1>11, <1>14 DEF CopyInv, Completes
<1>18. CompletionInv(ide')
  BY <1>1, <1>7, <1>11, <1>14 DEF CompletionInv, Expected, Due
<1> QED
  BY <1>13, <1>15, <1>16, <1>17, <1>18 DEF TransferInv

LEMMA IdeInitGood == IdeAssumption /\ IdeInit => TransferInv(ide)
<1> SUFFICES ASSUME IdeAssumption, IdeInit PROVE TransferInv(ide)
  OBVIOUS
<1>1. PICK v \in Values : v = CHOOSE w \in Values : TRUE
  BY DEF IdeAssumption
<1>2. PICK m : m = Erased
  OBVIOUS
<1>3. m \in Contents
  <2>1. m = [d \in Disks |-> [n \in 0 .. Blocks[d].size - 1 |-> v]]
    BY <1>1, <1>2, Zenon DEF Erased
  <2>2. \A d \in Disks : [n \in 0 .. Blocks[d].size - 1 |-> v] \in [0 .. Blocks[d].size - 1 -> Values]
    OBVIOUS
  <2> QED
    BY <2>1, <2>2 DEF Contents
<1>4. PICK x \in TransferRecords : x = Nothing
  <2>1. Nothing \in TransferRecords
    BY <1>1 DEF Nothing, TransferRecords
  <2> QED
    BY <2>1
<1>5. PICK c : c = [disk |-> 1, sector |-> 0, cmd |-> "none", bsy |-> FALSE, drq |-> FALSE, data |-> v]
  OBVIOUS
<1>6. c \in CtlRecords /\ c.cmd = "none" /\ ~ c.bsy /\ ~ c.drq
  BY <1>5 DEF CtlRecords
<1>7. PICK p, r : p = [t \in Clients |-> "idle"] /\ r = [t \in Clients |-> x]
  OBVIOUS
<1>8. p \in [Clients -> Inside \union {"idle", "acquire"}] /\ r \in [Clients -> TransferRecords]
  BY <1>7
<1>9. ide = [lock |-> Nobody, expecting_interrupt |-> FALSE, completion_wait |-> 0, irq |-> FALSE, ctl |-> c,
             media |-> m, written |-> m, pc |-> p, req |-> r, spurious |-> 0, lost |-> 0, panicked |-> FALSE]
  BY <1>1, <1>2, <1>4, <1>5, <1>7, Zenon DEF IdeInit
<1>10. ide \in IdeRecords
  BY <1>3, <1>6, <1>8, <1>9 DEF IdeRecords
<1>11. /\ ide.lock = Nobody /\ ide.pc = p /\ ide.ctl = c /\ ide.media = ide.written
       /\ ide.completion_wait = 0 /\ ~ ide.irq
  BY <1>9
<1>12. ChannelInv(ide)
  BY <1>7, <1>11 DEF ChannelInv, Inside, IdeAssumption
<1>13. CommandInv(ide)
  BY <1>6, <1>11 DEF CommandInv, IdeAssumption
<1>14. CopyInv(ide)
  BY <1>6, <1>7, <1>11 DEF CopyInv
<1>15. CompletionInv(ide)
  BY <1>6, <1>11 DEF CompletionInv, Due, IdeAssumption
<1> QED
  BY <1>10, <1>12, <1>13, <1>14, <1>15 DEF TransferInv

\* ide.c, for any disks, partitions and number of threads, and whatever interrupts come
\* unasked, are lost or announce failures: the lock, the places of the threads, the
\* controller and what is on the disks fit together.
THEOREM DiskInvariant == IdeAssumption => (IdeSpec => []TransferInv(ide))
<1> SUFFICES ASSUME IdeAssumption PROVE IdeSpec => []TransferInv(ide)
  OBVIOUS
<1>1. IdeInit => TransferInv(ide)
  BY IdeInitGood
<1>2. TransferInv(ide) /\ [IdeNext]_ide => TransferInv(ide)'
  <2> SUFFICES ASSUME TransferInv(ide), [IdeNext]_ide PROVE TransferInv(ide')
    BY DEF TransferInv, ChannelInv, CommandInv, Transfers, CopyInv, Completes, CompletionInv, Expected, Due
  <2>1. ASSUME NEW t \in Clients, NEW b \in DOMAIN Blocks, NEW o \in {"read", "write"}, NEW v \in Values,
               NEW n \in 0 .. Blocks[b].size, Start(t, o, b, n, v)
        PROVE  TransferInv(ide')
    BY <2>1, StartKeeps
  <2>2. ASSUME NEW t \in Clients, Step(t) PROVE TransferInv(ide')
    BY <2>2, LockChannelKeeps, SelectKeeps, IssueKeeps, DownKeeps, BusyKeeps, InputKeeps, OutputKeeps,
       UnlockChannelKeeps DEF Step
  <2>3. ASSUME interrupt_handler \/ Device \/ CommandFails \/ Hang \/ Spurious PROVE TransferInv(ide')
    BY <2>3, HandlerKeeps, ReadReadyKeeps, WriteReadyKeeps, StoredKeeps, CommandFailsKeeps, HangKeeps,
       UnaskedKeeps DEF Device
  <2>4. CASE UNCHANGED ide
    BY <2>4
  <2> QED
    BY <2>1, <2>2, <2>3, <2>4, Zenon DEF IdeNext
<1> QED
  BY <1>1, <1>2, PTL DEF IdeSpec

\* ide.c: a read returns what was last written to the sector, a command is only given to
\* an idle controller, and unless an interrupt came unasked or got lost a write returns
\* after the disk has the data and every completion is taken by the transfer it is for.
THEOREM DiskIsExact == IdeAssumption => (IdeSpec => []DiskExact)
<1> SUFFICES ASSUME IdeAssumption PROVE IdeSpec => []DiskExact
  OBVIOUS
<1>1. TransferInv(ide) => DiskExact
  BY TransferInvExact
<1> QED
  BY <1>1, DiskInvariant, PTL
=============================================================================
