------------------------------- MODULE Block -------------------------------
(***************************************************************************)
(* Block devices of pintos2: the registry and roles of devices/block.c,    *)
(* the scan of devices/partition.c, ide_init()'s detection of disks and    *)
(* init.c's choice of a device for each role.  A sector number has         *)
(* SectorBits bits (32 in the code), reading stops at StackDepth nested    *)
(* tables, where the kernel's stack ends.                                  *)
(***************************************************************************)
EXTENDS Ide, Sequences

CONSTANTS SectorBits, StackDepth, Gigabyte

Wrap(n) == n % 2 ^ SectorBits
Roles == {"kernel", "filesys", "scratch", "swap"}
NoBlock == << >>

\* The list of all block devices is a sequence in probe order; a partition names the
\* place of its disk in it and its first sector there.
block_register(blocks, name, type, size, parent, start) ==
    Append(blocks, [name |-> name, type |-> type, size |-> size, parent |-> parent, start |-> start])
block_get_by_name(blocks, name) == SelectSeq(blocks, LAMBDA b : b.name = name)
block_first_of(blocks, role) == SelectSeq(blocks, LAMBDA b : b.type = role)

-----------------------------------------------------------------------------
(* devices/partition.c.  scan is the number of partitions met and the      *)
(* devices registered; a table is a sequence of entries.                   *)
found_partition(scan, disk, e, start) ==
    LET size == scan.blocks[disk].size
        end == Wrap(start + e.size)
        type == IF e.type \in Roles THEN e.type ELSE "foreign"
        nr == scan.nr + 1
    IN IF start >= size \/ end < start \/ end > size THEN [scan EXCEPT !.nr = nr]
       ELSE [scan EXCEPT !.nr = nr,
                         !.blocks = block_register(@, <<scan.blocks[disk].name[1], nr>>, type,
                                                   e.size, disk, start)]

\* Whatever sector a table is to be read from, sector 0 is read.
RECURSIVE read_partition_table(_, _, _, _, _, _)
RECURSIVE ParseEntries(_, _, _, _, _, _, _)
read_partition_table(scan, disk, mbr, sector, primary, depth) ==
    IF scan.overflow \/ depth = 0 THEN [scan EXCEPT !.overflow = TRUE]
    ELSE IF sector >= scan.blocks[disk].size \/ ~ mbr.signature THEN scan
    ELSE ParseEntries(scan, disk, mbr, sector, primary, depth, 1)
ParseEntries(scan, disk, mbr, sector, primary, depth, i) ==
    IF i > Len(mbr.partitions) \/ scan.overflow THEN scan
    ELSE LET e == mbr.partitions[i]
             after ==
               IF e.size = 0 \/ e.type = "empty" THEN scan
               ELSE IF e.type = "extended"
               THEN IF sector = 0
                    THEN read_partition_table(scan, disk, mbr, e.offset, e.offset, depth - 1)
                    ELSE read_partition_table(scan, disk, mbr, Wrap(e.offset + primary), primary, depth - 1)
               ELSE found_partition(scan, disk, e, Wrap(e.offset + sector))
         IN ParseEntries(after, disk, mbr, sector, primary, depth, i + 1)

partition_scan(blocks, disk, mbr) ==
    read_partition_table([nr |-> 0, blocks |-> blocks, overflow |-> FALSE], disk, mbr, 0, 0, StackDepth)

-----------------------------------------------------------------------------
(* devices/ide.c: what a channel's registers say of its two devices.       *)
\* reset_channel(): a device is there when it keeps what is written to its registers;
\* only then is its reset waited for.
Reset(d) == IF d.present THEN [d EXCEPT !.bsy = FALSE] ELSE d
check_device_type(d, dev_no) ==
    IF (d.error # "ok" /\ (d.error # "ok_no_slave" \/ dev_no = 1)) \/ ~ d.drdy \/ d.bsy
    THEN [is_ata |-> FALSE, slave |-> d.error # "ok_no_slave"]
    ELSE [is_ata |-> d.lba \in {"ata", "sata"}, slave |-> TRUE]
\* identify_ata_device(): a disk that does not answer, or of a gigabyte or more, is left out.
identify_ata_device(blocks, name, d) ==
    IF ~ d.drq \/ d.capacity >= Gigabyte THEN [blocks |-> blocks, overflow |-> FALSE, nr |-> 0]
    ELSE partition_scan(block_register(blocks, name, "raw", d.capacity, 0, 0), Len(blocks) + 1, d.mbr)
ide_init(master, slave) ==
    LET m == check_device_type(Reset(master), 0)
        s == check_device_type(Reset(slave), 1)
        first == IF m.is_ata THEN identify_ata_device(<< >>, <<"hda", 0>>, master)
                 ELSE [blocks |-> << >>, overflow |-> FALSE, nr |-> 0]
    IN IF m.slave /\ s.is_ata /\ ~ first.overflow THEN identify_ata_device(first.blocks, <<"hdb", 0>>, slave) ELSE first

\* descramble_ata_string(): every pair of bytes is swapped, blanks at the end go.
RECURSIVE Trimmed(_, _)
Trimmed(s, n) == IF n = 0 THEN << >> ELSE IF s[n] # " " THEN SubSeq(s, 1, n) ELSE Trimmed(s, n - 1)
descramble_ata_string(s) ==
    Trimmed([i \in DOMAIN s |-> IF i % 2 = 0 THEN s[i - 1] ELSE IF i < Len(s) THEN s[i + 1] ELSE s[i]],
            Len(s) - 1)

block_set_role(by_role, role, block) == [by_role EXCEPT ![role] = <<block>>]
block_get_role(by_role, role) == by_role[role]
\* init.c: the device named on the command line (<< >> when none is), or the first of the
\* role's type, takes the role; << >> for the panic when the name is not known.
locate_block_device(by_role, blocks, role, name) ==
    LET found == IF name # << >> THEN block_get_by_name(blocks, name) ELSE block_first_of(blocks, role)
    IN IF found # << >> THEN block_set_role(by_role, role, found[1])
       ELSE IF name # << >> THEN << >> ELSE by_role
RECURSIVE LocateAll(_, _, _, _)
LocateAll(by_role, blocks, roles, names) ==
    IF roles = << >> \/ by_role = << >> THEN by_role
    ELSE LocateAll(locate_block_device(by_role, blocks, Head(roles), names[Head(roles)]), blocks, Tail(roles), names)
locate_block_devices(blocks, names) ==
    LocateAll([r \in Roles |-> NoBlock], blocks, <<"filesys", "scratch", "swap">>, names)

-----------------------------------------------------------------------------
\* A scan registers every partition of a table without extended partitions that lies on
\* the disk, with its number in the table, and nothing else, no access to one leaves its
\* sectors, and a role goes to the device named for it or to the first of its type.  An
\* extended partition is an exception: partition.c:36 speaks of "the partition table in the
\* given SECTOR", but sector 0 is read again (partition.c:91), so that the scan goes round
\* until the stack is exhausted, unless the first or the second table it leads to is past
\* the end of the disk.
Primary(mbr) == SelectSeq(mbr.partitions, LAMBDA e : e.size # 0 /\ e.type # "empty")
Lies(e, size) == e.offset < size /\ e.offset + e.size <= size
ScanAgrees(mbr, size) ==
    LET scan == partition_scan(block_register(<< >>, <<"hda", 0>>, "raw", size, 0, 0), 1, mbr)
        parts == Primary(mbr)
        extended == {parts[i].offset : i \in {i \in DOMAIN parts : parts[i].type = "extended"}}
    IN /\ mbr.signature /\ extended # {} =>
          (scan.overflow <=> \E o, p \in extended : o < size /\ Wrap(o + p) < size)
       /\ mbr.signature /\ extended = {} =>
          /\ ~ scan.overflow /\ scan.nr = Len(parts)
          /\ \A i \in DOMAIN parts :
                (block_get_by_name(scan.blocks, <<"hda", i>>) # << >>) <=> Lies(parts[i], size)
          /\ \A b \in 2 .. Len(scan.blocks) :
                LET e == parts[scan.blocks[b].name[2]] IN
                /\ scan.blocks[b].size = e.size /\ scan.blocks[b].start = e.offset
                /\ \A sector \in 0 .. size : \A op \in {"read", "write"} :
                      LET at == block_access(scan.blocks, b, sector, op)
                      IN IF at = << >> THEN sector >= e.size \/ (op = "write" /\ e.type \notin Roles)
                         ELSE at[1] = 1 /\ at[2] = e.offset + sector /\ sector < e.size
          /\ \A name \in {<< >>, <<"hda", 1>>} :
                LET by_role == locate_block_devices(scan.blocks, [r \in Roles |-> IF r = "swap" THEN name ELSE << >>])
                    Is(r, i) == parts[i].type = r /\ Lies(parts[i], size)
                IN IF by_role = << >> THEN name # << >> /\ (parts = << >> \/ ~ Lies(parts[1], size))
                   ELSE \A r \in {"filesys", "scratch", "swap"} :
                           LET block == block_get_role(by_role, r) IN
                           IF block = NoBlock THEN \A i \in DOMAIN parts : ~ Is(r, i)
                           ELSE IF r = "swap" /\ name # << >> THEN block[1].name = name
                           ELSE Is(r, block[1].name[2]) /\ \A i \in 1 .. block[1].name[2] - 1 : ~ Is(r, i)
\* Only ATA disks that answer are used, and a slave only if there can be one.
DetectionAgrees(master, slave) ==
    LET r == ide_init(master, slave)
        Answers(d) == d.drdy /\ ~ Reset(d).bsy /\ d.lba \in {"ata", "sata"} /\ d.drq /\ d.capacity < Gigabyte
    IN /\ block_get_by_name(r.blocks, <<"hda", 0>>) # << >> <=> Answers(master) /\ master.error \in {"ok", "ok_no_slave"}
       /\ block_get_by_name(r.blocks, <<"hdb", 0>>) # << >> => Answers(slave) /\ slave.error = "ok"
=============================================================================
