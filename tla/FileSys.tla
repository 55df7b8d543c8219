------------------------------ MODULE FileSys ------------------------------
(***************************************************************************)
(* The file system of pintos2/src/filesys: free map, inodes, the root      *)
(* directory and open files.  One operation runs at a time; it is a        *)
(* sequence of steps with at most one disk write each, and the power may   *)
(* fail between any two of them.  What is on disk has the prefix d_.       *)
(***************************************************************************)
EXTENDS Integers, Sequences, FiniteSets

CONSTANTS
    SECTOR_SIZE,     \* BLOCK_SECTOR_SIZE
    SectorCount,     \* size of fs_device
    Reserved,        \* the sectors formatting uses for free map and root directory
    MapTail,         \* sectors whose bits are in the part of a sector that ends the free map file
    DirSlots,        \* entries of the root directory, 16 in do_format()
    Names,           \* file names; one that is too long only makes dir_add() fail
    Handles,         \* struct file objects
    Bytes, Sizes,    \* values of a byte, initial sizes
    Buffers,         \* what is written
    Reads, Seeks,    \* how much is read, where to
    MaxStarved,      \* how often dir_add() has gone wrong when no more files are created
    NoId

Sectors == 0 .. SectorCount - 1

ASSUME FileSysAssumption ==
    /\ SECTOR_SIZE \in Nat \ {0} /\ SectorCount \in Nat
    /\ Reserved \subseteq Sectors /\ {0, 1} \subseteq Reserved
    /\ MapTail \subseteq Sectors
    /\ DirSlots \in Nat \ {0}
    /\ MaxStarved \in Nat /\ 0 \in Bytes
    /\ Sizes \subseteq Nat /\ Reads \subseteq Nat /\ Seeks \subseteq Nat
    /\ Buffers \subseteq Seq(Bytes)
    /\ NoId \notin Sectors /\ IsFiniteSet(Handles)

VARIABLES
    d_map,     \* used sectors according to the free map file
    d_inode,   \* start and length in the sectors that hold an inode
    d_data,    \* bytes of the sectors that hold data
    d_dir,     \* the directory's entries: name, inode_sector, in_use
    free_map,  \* the free map in memory, as the set of used sectors
    inodes,    \* open_inodes: the struct inode of each open inode's sector
    files,     \* the struct file of each handle, pos and all
    op,        \* the operation in progress
    leaked,    \* used sectors that nothing leads to any more
    starved    \* how often dir_add() has gone wrong for lack of memory

diskVars == <<d_map, d_inode, d_data, d_dir>>
memVars  == <<free_map, inodes, files>>
history == <<leaked, starved>>
vars == <<diskVars, memVars, op, history>>

Slots == 1 .. DirSlots
Idle == [kind |-> "none"]
NoFile == [inode |-> NoId, pos |-> 0, deny_write |-> FALSE]
Free(h) == files[h] = NoFile
Zeros == [i \in 0 .. SECTOR_SIZE - 1 |-> 0]

\* bytes_to_sectors(), and the data sectors of an inode.
bytes_to_sectors(size) == (size + SECTOR_SIZE - 1) \div SECTOR_SIZE
DataSectors(d) == d.start .. d.start + bytes_to_sectors(d.length) - 1

\* free_map_create() and dir_create() as do_format() calls them.
free_map_create == Reserved
dir_create == [k \in Slots |-> [name |-> NoId, inode_sector |-> 0, in_use |-> FALSE]]

\* The state do_format() leaves.
Init ==
    /\ d_map = free_map_create /\ free_map = free_map_create
    /\ d_inode = [s \in Sectors |-> [start |-> 0, length |-> 0]]
    /\ d_data = [s \in Sectors |-> Zeros]
    /\ d_dir = dir_create
    /\ inodes = << >>
    /\ files = [h \in Handles |-> NoFile]
    /\ op = Idle
    /\ leaked = {} /\ starved = 0

-----------------------------------------------------------------------------
(* Free map and inode table.                                               *)

\* A mutant: only the first sector of a run is looked at.
RunsOfOne(cnt) == {s \in Sectors : s + cnt <= SectorCount /\ s \notin free_map}

\* bitmap_scan(): where a run of cnt unused sectors starts.
Runs(cnt) == {s \in Sectors : s + cnt <= SectorCount /\ (s .. s + cnt - 1) \intersect free_map = {}}
FirstRun(cnt) == CHOOSE s \in Runs(cnt) : \A r \in Runs(cnt) : s <= r

\* What bitmap_write() leaves of map m when it has no memory for the last part.
Torn(m) == (m \ MapTail) \union (d_map \intersect MapTail)

\* free_map_allocate(cnt): the run that starts at s, unless the map cannot be written;
\* and free_map_release(), which does not look whether it could.
Allocate(s, cnt) ==
    /\ free_map' = free_map \union (s .. s + cnt - 1)
    /\ d_map' = free_map'
AllocateFails(cnt) ==
    /\ Runs(cnt) # {} /\ MapTail # {}
    /\ d_map' = Torn(free_map \union (FirstRun(cnt) .. FirstRun(cnt) + cnt - 1))
    /\ UNCHANGED free_map
Release(S) ==
    /\ free_map' = free_map \ S
    /\ d_map' \in {free_map', Torn(free_map')}

\* inode_open(): the inode that is open already, or a new one read from disk.  The
\* mutant does not search the list of open inodes.
OpenInodeAgain(s) ==
    [t \in DOMAIN inodes \union {s} |->
        IF t # s THEN inodes[t]
        ELSE [open_cnt |-> 1, removed |-> FALSE, deny_write_cnt |-> 0, data |-> d_inode[s]]]
inode_reopen(s) == [inodes EXCEPT ![s].open_cnt = @ + 1]
OpenInode(s) == IF s \in DOMAIN inodes THEN inode_reopen(s) ELSE OpenInodeAgain(s)

DropInode(s) == [t \in DOMAIN inodes \ {s} |-> inodes[t]]

inode_remove(s) == [inodes EXCEPT ![s].removed = TRUE]
inode_deny_write(s) == [inodes EXCEPT ![s].deny_write_cnt = @ + 1]

\* lookup(): the first entry with the name, if memory lasts until it is read (a search
\* that is cut short finds nothing); and the inode dir_lookup() opens.
Entries(n) == {k \in Slots : d_dir[k].in_use /\ d_dir[k].name = n}
lookup(n) == {k \in Entries(n) : \A j \in Entries(n) : k <= j}
dir_lookup(n) == {d_dir[k].inode_sector : k \in lookup(n)}

file_open(s) == [NoFile EXCEPT !.inode = s]

-----------------------------------------------------------------------------
(* filesys_create(), with inode_create() and dir_add().                    *)

Begin(o) == op = Idle /\ op' = o
At(k, a) == op.kind = k /\ op.at = a
Goto(a) == op' = [op EXCEPT !.at = a]

Create(n, size) ==
    /\ starved <= MaxStarved
    /\ Begin([kind |-> "create", at |-> "alloc", name |-> n, size |-> size,
              sector |-> 0, start |-> 0, next |-> 0])
    /\ UNCHANGED <<diskVars, memVars, history>>

\* dir_open_root() and free_map_allocate (1, &inode_sector); there may be no memory for
\* either, or no sector.
CreateAlloc ==
    /\ At("create", "alloc")
    /\ \/ op' = Idle /\ UNCHANGED <<free_map, d_map>>
       \/ op' = Idle /\ AllocateFails(1)
       \/ /\ Runs(1) # {}
          /\ Allocate(FirstRun(1), 1)
          /\ op' = [op EXCEPT !.at = "data", !.sector = FirstRun(1)]
    /\ UNCHANGED <<d_inode, d_data, d_dir, inodes, files, history>>

\* inode_create() up to its free_map_allocate(); there may be no memory.
CreateData ==
    LET cnt == bytes_to_sectors(op.size) IN
    /\ At("create", "data")
    /\ \/ Goto("undo") /\ UNCHANGED <<free_map, d_map>>
       \/ Goto("undo") /\ AllocateFails(cnt)
       \/ /\ Runs(cnt) # {}
          /\ Allocate(FirstRun(cnt), cnt)
          /\ op' = [op EXCEPT !.at = "inode", !.start = FirstRun(cnt), !.next = FirstRun(cnt)]
    /\ UNCHANGED <<d_inode, d_data, d_dir, inodes, files, history>>

NewInode == [start |-> op.start, length |-> op.size]

\* The inode is written to disk.
CreateInode ==
    /\ At("create", "inode")
    /\ d_inode' = [d_inode EXCEPT ![op.sector] = NewInode]
    /\ Goto("zero")
    /\ UNCHANGED <<d_map, d_data, d_dir, memVars, history>>

\* Its data sectors are written with zeros; the mutant trusts them to be zero.
CreateZeroSkips ==
    /\ At("create", "zero")
    /\ Goto("add")
    /\ UNCHANGED <<diskVars, memVars, history>>
CreateZero ==
    /\ At("create", "zero")
    /\ IF op.next \in DataSectors(NewInode)
       THEN /\ d_data' = [d_data EXCEPT ![op.next] = Zeros]
            /\ op' = [op EXCEPT !.next = @ + 1]
       ELSE Goto("add") /\ UNCHANGED d_data
    /\ UNCHANGED <<d_map, d_inode, d_dir, memVars, history>>

\* dir_add(): the first slot that is not in use, unless the name is taken.
FreeSlots == {k \in Slots : ~ d_dir[k].in_use}
AddEntry(k) ==
    d_dir' = [d_dir EXCEPT ![k] = [name |-> op.name, inode_sector |-> op.sector, in_use |-> TRUE]]
CreateAdd ==
    /\ At("create", "add")
    /\ Entries(op.name) = {}
    /\ \E k \in FreeSlots : (\A j \in FreeSlots : k <= j) /\ AddEntry(k)
    /\ op' = Idle
    /\ UNCHANGED <<d_map, d_inode, d_data, memVars, history>>

\* The files there are: linked into the directory, or open.
Linked == {d_dir[k].inode_sector : k \in {j \in Slots : d_dir[j].in_use}}
Opened == {files[h].inode : h \in Handles} \ {NoId}
DiskSectors(s) == {s} \union DataSectors(d_inode[s])

\* dir_add() takes a read that fails for lack of memory for the end of the directory: it
\* misses an entry with the name, or writes over the entry it could not read, all those
\* before it being in use.
Reached == {k \in Slots : \A j \in 1 .. k - 1 : d_dir[j].in_use}
CreateAddStarved ==
    /\ At("create", "add")
    /\ \E k \in Reached :
          /\ Entries(op.name) # {} \/ d_dir[k].in_use
          /\ AddEntry(k)
          /\ leaked' = leaked \union (IF d_dir[k].in_use /\ d_dir[k].inode_sector \notin Opened
                                      THEN DiskSectors(d_dir[k].inode_sector) ELSE {})
    /\ starved' = starved + 1
    /\ op' = Idle
    /\ UNCHANGED <<d_map, d_inode, d_data, memVars>>

\* dir_add() fails, for the name, for a full directory or because the entry cannot be
\* written for lack of memory: nobody gives the data sectors back.
CreateAddFails ==
    /\ At("create", "add")
    /\ leaked' = leaked \union DataSectors(NewInode)
    /\ Goto("undo")
    /\ UNCHANGED <<diskVars, memVars, starved>>

\* free_map_release (inode_sector, 1).
CreateUndo ==
    /\ At("create", "undo")
    /\ Release({op.sector})
    /\ op' = Idle
    /\ UNCHANGED <<d_inode, d_data, d_dir, inodes, files, history>>

-----------------------------------------------------------------------------
(* filesys_remove(), file_close() and inode_close().                       *)

\* dir_remove() up to its inode_open().
Remove(n) ==
    /\ \E k \in lookup(n) :
          /\ Begin([kind |-> "remove", at |-> "erase", slot |-> k,
                    sector |-> d_dir[k].inode_sector])
          /\ inodes' = OpenInode(d_dir[k].inode_sector)
    /\ UNCHANGED <<diskVars, free_map, files, history>>

Closing(s) == [kind |-> "close", at |-> "last", sector |-> s]

\* The entry is erased and the inode marked.
RemoveErase ==
    /\ At("remove", "erase")
    /\ d_dir' = [d_dir EXCEPT ![op.slot].in_use = FALSE]
    /\ inodes' = inode_remove(op.sector)
    /\ op' = Closing(op.sector)
    /\ UNCHANGED <<d_map, d_inode, d_data, free_map, files, history>>

\* There is no memory to write the entry: dir_remove() closes the inode and fails.
RemoveFails ==
    /\ At("remove", "erase")
    /\ op' = Closing(op.sector)
    /\ UNCHANGED <<diskVars, memVars, history>>

\* inode_allow_write() as part of file_allow_write().
Allowed(h) == IF files[h].deny_write
              THEN [inodes EXCEPT ![files[h].inode].deny_write_cnt = @ - 1] ELSE inodes

\* file_close() up to its inode_close().
Close(h) ==
    /\ ~ Free(h)
    /\ Begin(Closing(files[h].inode))
    /\ inodes' = Allowed(h)
    /\ files' = [files EXCEPT ![h] = NoFile]
    /\ UNCHANGED <<diskVars, free_map, history>>

\* inode_close(): one opener less; the last one goes on to free what was removed.  A
\* file whose entry was written over is lost with its last opener.
CloseLast ==
    /\ At("close", "last")
    /\ \/ /\ inodes[op.sector].open_cnt > 1
          /\ inodes' = [inodes EXCEPT ![op.sector].open_cnt = @ - 1]
          /\ op' = Idle /\ UNCHANGED leaked
       \/ /\ inodes[op.sector].open_cnt <= 1 /\ inodes[op.sector].removed
          /\ Goto("release") /\ UNCHANGED <<inodes, leaked>>
       \/ /\ inodes[op.sector].open_cnt <= 1 /\ ~ inodes[op.sector].removed
          /\ inodes' = DropInode(op.sector)
          /\ leaked' = leaked \union (IF op.sector \in Linked THEN {} ELSE DiskSectors(op.sector))
          /\ op' = Idle
    /\ UNCHANGED <<diskVars, free_map, files, starved>>

\* free_map_release (inode->sector, 1).
CloseRelease ==
    /\ At("close", "release")
    /\ Release({op.sector})
    /\ Goto("release_data")
    /\ UNCHANGED <<d_inode, d_data, d_dir, inodes, files, history>>

\* free_map_release() of the data, and free (inode).
CloseReleaseData ==
    /\ At("close", "release_data")
    /\ Release(DataSectors(inodes[op.sector].data))
    /\ inodes' = DropInode(op.sector)
    /\ op' = Idle
    /\ UNCHANGED <<d_inode, d_data, d_dir, files, history>>

-----------------------------------------------------------------------------
(* Open files.                                                             *)

\* filesys_open(): lookup(), inode_open(), file_open().
Open(n, h) ==
    /\ op = Idle /\ Free(h)
    /\ \E s \in dir_lookup(n) :
          /\ inodes' = OpenInode(s)
          /\ files' = [files EXCEPT ![h] = file_open(s)]
    /\ UNCHANGED <<diskVars, free_map, op, history>>

\* file_reopen(): a second handle, at position 0.
Reopen(h, g) ==
    /\ op = Idle /\ ~ Free(h) /\ Free(g)
    /\ inodes' = inode_reopen(files[h].inode)
    /\ files' = [files EXCEPT ![g] = file_open(files[h].inode)]
    /\ UNCHANGED <<diskVars, free_map, op, history>>

file_seek(h, pos) ==
    /\ op = Idle /\ ~ Free(h)
    /\ files' = [files EXCEPT ![h].pos = pos]
    /\ UNCHANGED <<diskVars, free_map, inodes, op, history>>

file_deny_write(h) ==
    /\ op = Idle /\ ~ Free(h) /\ ~ files[h].deny_write
    /\ files' = [files EXCEPT ![h].deny_write = TRUE]
    /\ inodes' = inode_deny_write(files[h].inode)
    /\ UNCHANGED <<diskVars, free_map, op, history>>

file_allow_write(h) ==
    /\ op = Idle /\ ~ Free(h) /\ files[h].deny_write
    /\ inodes' = Allowed(h)
    /\ files' = [files EXCEPT ![h].deny_write = FALSE]
    /\ UNCHANGED <<diskVars, free_map, op, history>>

\* file_read() and file_write() begin.  A denied write returns 0.
Read(h, size) ==
    /\ ~ Free(h)
    /\ Begin([kind |-> "read", at |-> "chunk", handle |-> h, size |-> size, buffer |-> <<>>,
              bounce |-> FALSE])
    /\ UNCHANGED <<diskVars, memVars, history>>

Write(h, buf) ==
    /\ ~ Free(h)
    /\ inodes[files[h].inode].deny_write_cnt = 0
    /\ Begin([kind |-> "write", at |-> "chunk", handle |-> h, size |-> Len(buf), buffer |-> buf,
              bounce |-> FALSE])
    /\ UNCHANGED <<diskVars, memVars, history>>

\* One turn of the loops of inode_read_at() and inode_write_at(), at byte ofs of an
\* inode with size bytes to go: how much of which sector (byte_to_sector()).
MinOf(a, b) == IF a < b THEN a ELSE b
sector_ofs(ofs) == ofs % SECTOR_SIZE
\* A mutant: every byte is looked for in the first sector.
sector_idxFirst(d, ofs) == d.start
sector_idx(d, ofs) == d.start + ofs \div SECTOR_SIZE
chunk_size(d, ofs, size) ==
    MinOf(size, MinOf(d.length - ofs, SECTOR_SIZE - sector_ofs(ofs)))

Transfer ==
    LET f == files[op.handle]
        d == inodes[f.inode].data
        chunk == chunk_size(d, f.pos, op.size)
    IN [d |-> d, ofs |-> f.pos, n |-> chunk, sector |-> sector_idx(d, f.pos)]

\* Some bytes of one sector are copied.  (The position is advanced as the loop
\* goes on; nobody looks at it before it ends.)
Advance(n, buf) ==
    /\ files' = [files EXCEPT ![op.handle].pos = @ + n]
    /\ op' = [op EXCEPT !.size = @ - n, !.buffer = buf, !.bounce = @ \/ n < SECTOR_SIZE]

ReadChunk ==
    LET tr == Transfer
        got == [i \in 1 .. tr.n |-> d_data[tr.sector][sector_ofs(tr.ofs) + i - 1]]
    IN
    /\ At("read", "chunk")
    /\ op.size > 0 /\ tr.n > 0
    /\ Advance(tr.n, op.buffer \o got)
    /\ UNCHANGED <<diskVars, free_map, inodes, history>>

\* The sector a write leaves: read first unless it is overwritten up to its end.
Overlay(old, ofs, n, buf) ==
    LET base == IF ofs > 0 \/ n < SECTOR_SIZE - ofs THEN old ELSE Zeros
    IN [i \in 0 .. SECTOR_SIZE - 1 |-> IF i \in ofs .. ofs + n - 1 THEN buf[i - ofs + 1] ELSE base[i]]

WriteChunk ==
    LET tr == Transfer IN
    /\ At("write", "chunk")
    /\ op.size > 0 /\ tr.n > 0
    /\ d_data' = [d_data EXCEPT
                    ![tr.sector] = Overlay(@, sector_ofs(tr.ofs), tr.n, op.buffer)]
    /\ Advance(tr.n, SubSeq(op.buffer, tr.n + 1, Len(op.buffer)))
    /\ UNCHANGED <<d_map, d_inode, d_dir, free_map, inodes, history>>

\* The loop ends: nothing left, or the end of the file; or there is no memory for the
\* bounce buffer that the first part of a sector needs.
Chunks == op.kind \in {"read", "write"} /\ op.at = "chunk"
TransferEnds ==
    /\ Chunks
    /\ op.size = 0 \/ Transfer.n <= 0
    /\ Goto("done")
    /\ UNCHANGED <<diskVars, memVars, history>>
TransferStarves ==
    /\ Chunks
    /\ op.size > 0 /\ Transfer.n > 0
    /\ ~ op.bounce /\ Transfer.n < SECTOR_SIZE
    /\ Goto("starved")
    /\ UNCHANGED <<diskVars, memVars, history>>

\* The call returns how much it has transferred.
TransferReturns ==
    /\ op.kind \in {"read", "write"} /\ op.at \in {"done", "starved"}
    /\ op' = Idle
    /\ UNCHANGED <<diskVars, memVars, history>>

-----------------------------------------------------------------------------
\* The power fails, and filesys_init (false) reads the free map from disk.
free_map_open == d_map
Crash ==
    /\ free_map' = free_map_open
    /\ inodes' = << >>
    /\ files' = [h \in Handles |-> NoFile]
    /\ op' = Idle
    /\ leaked' = (d_map \ Reserved) \ UNION {DiskSectors(s) : s \in Linked}
    /\ UNCHANGED <<diskVars, starved>>

Next ==
    \/ \E n \in Names : \/ \E size \in Sizes : Create(n, size)
                        \/ Remove(n)
                        \/ \E h \in Handles : Open(n, h)
    \/ CreateAlloc \/ CreateData \/ CreateInode \/ CreateZero \/ CreateAdd \/ CreateAddStarved
    \/ CreateAddFails \/ CreateUndo \/ RemoveErase \/ RemoveFails \/ CloseLast \/ CloseRelease \/ CloseReleaseData
    \/ \E h \in Handles : \/ Close(h) \/ file_deny_write(h) \/ file_allow_write(h)
                          \/ \E g \in Handles : Reopen(h, g)
                          \/ \E pos \in Seeks : file_seek(h, pos)
                          \/ \E size \in Reads : Read(h, size)
                          \/ \E buf \in Buffers : Write(h, buf)
    \/ ReadChunk \/ WriteChunk \/ TransferEnds \/ TransferStarves \/ TransferReturns
    \/ Crash

Spec == Init /\ [][Next]_vars

-----------------------------------------------------------------------------
\* The inode of a file, as its openers see it.
Data(s) == IF s \in DOMAIN inodes THEN inodes[s].data ELSE d_inode[s]
Files == Linked \union Opened
SectorsOf(s) == {s} \union DataSectors(Data(s))

\* free_map_allocate() and free_map_release() in the order create, remove and close
\* call them: the sectors of different files never overlap, are never free in the
\* map that is on disk (so that this holds again after a crash at any step), and
\* neither overlap with those of a file being created.
SectorsDisjoint ==
    /\ \A s \in Files : SectorsOf(s) \subseteq d_map \ Reserved
    /\ \A s, t \in Files : s # t => SectorsOf(s) \intersect SectorsOf(t) = {}
    /\ At("create", "zero") =>
          \A s \in Files : SectorsOf(s) \intersect ({op.sector} \union DataSectors(NewInode)) = {}

\* Every sector marked used belongs to a file, to the operation in progress, or is one of
\* those known to be lost: the data of a file dir_add() failed for, a file whose entry
\* it wrote over, what a crash left behind.
InProgress ==
    IF op.kind = "create" /\ op.at # "alloc"
    THEN {op.sector} \union IF op.at \in {"inode", "zero", "add"} THEN DataSectors(NewInode) ELSE {}
    ELSE IF op.kind \in {"remove", "close"} THEN SectorsOf(op.sector) ELSE {}
SectorsAccounted ==
    free_map \subseteq Reserved \union leaked \union InProgress \union UNION {SectorsOf(s) : s \in Files}

\* The free map through every create, remove, close and crash: SectorsDisjoint and
\* SectorsAccounted, no sector in two files and none lost but the known ones.
SectorsKept == SectorsDisjoint /\ SectorsAccounted

\* inode.c's assertions: an inode is open exactly while handles or the operation in
\* progress refer to it, and counts them and those of them that deny writes, so that
\* no close can free an inode under another handle.
HandlesOn(s) == {h \in Handles : files[h].inode = s}
CountsMatch ==
    LET busy(s) == IF op.kind \in {"remove", "close"} /\ op.sector = s THEN 1 ELSE 0 IN
    /\ Opened \subseteq DOMAIN inodes
    /\ \A s \in DOMAIN inodes :
          /\ inodes[s].open_cnt = Cardinality(HandlesOn(s)) + busy(s)
          /\ inodes[s].deny_write_cnt = Cardinality({h \in HandlesOn(s) : files[h].deny_write})
          /\ inodes[s].open_cnt > 0

inode_length(s) == Data(s).length
Content(s) ==
    LET d == Data(s)
    IN [i \in 1 .. inode_length(s) |->
          d_data[d.start + (i - 1) \div SECTOR_SIZE][(i - 1) % SECTOR_SIZE]]

\* inode_read_at(): what has been read is what the file holds before the position
\* reached, and a read ends only at its size, at the end of the file, or for lack of
\* memory and then only where it needs part of a sector.
ReadsExactly ==
    op.kind = "read" =>
        LET f == files[op.handle]
            n == Len(op.buffer)
        IN /\ n > 0 => op.buffer = SubSeq(Content(f.inode), f.pos - n + 1, f.pos)
           /\ op.at = "done" => op.size = 0 \/ f.pos >= inode_length(f.inode)
           /\ op.at = "starved" => \/ f.pos % SECTOR_SIZE # 0 \/ op.size < SECTOR_SIZE
                                   \/ inode_length(f.inode) - f.pos < SECTOR_SIZE

\* The store that a state stands for.
StoreLinks == {<<d_dir[k].name, d_dir[k].inode_sector>> : k \in {j \in Slots : d_dir[j].in_use}}
StoreContent == [s \in Files |-> Content(s)]
StoreOpens == [h \in Handles |-> files[h].inode]
StoreDenied == {h \in Handles : files[h].deny_write}

Store == INSTANCE FileStore WITH
    Ids <- Sectors, links <- StoreLinks, content <- StoreContent, opens <- StoreOpens,
    denied <- StoreDenied

\* filesys/: the operations, whatever their order, wherever the power fails and whenever
\* memory runs out, are those of a store of named files, in which a name is doubled or
\* taken over only if dir_add() could not read the directory.
ImplementsStore == Store!SSpec
=============================================================================
