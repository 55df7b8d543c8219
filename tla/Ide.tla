-------------------------------- MODULE Ide --------------------------------
(***************************************************************************)
(* Sector transfers of pintos2: block_read() and block_write() of          *)
(* devices/block.c through devices/partition.c to ide_read() and           *)
(* ide_write() of devices/ide.c, for the disks of one channel.  The        *)
(* controller, modelled from what the driver expects of it, may also raise *)
(* an interrupt nobody asked for, lose one, fail a command or hang.        *)
(***************************************************************************)
EXTENDS Integers

CONSTANTS
    Clients, Values,
    Blocks,                   \* the block devices registered, see Block
    MaxSpurious, MaxLost,     \* how many interrupts come unasked, do not come
    Nobody

VARIABLE ide

\* What ide_init() and partition_scan() register: disks and partitions of disks.
IdeAssumption ==
    /\ Values # {} /\ Nobody \notin Clients
    /\ \A b \in DOMAIN Blocks :
          /\ b \in Nat \ {0} /\ Blocks[b].size \in Nat /\ Blocks[b].start \in Nat
          /\ Blocks[b].parent # 0 => Blocks[b].parent \in DOMAIN Blocks /\ Blocks[Blocks[b].parent].parent = 0

\* block_read() and block_write() through partition_read() and partition_write(): the disk
\* and sector an access ends at, << >> when the kernel panics on the way.  found_partition()
\* only makes partitions of disks.
Accepts(b, sector, op) == sector < b.size /\ ~ (op = "write" /\ b.type = "foreign")
block_access(blocks, b, sector, op) ==
    LET disk == blocks[b].parent
        at == IF disk = 0 THEN <<b, sector>> ELSE <<disk, blocks[b].start + sector>>
    IN IF Accepts(blocks[b], sector, op) /\ Accepts(blocks[at[1]], at[2], op) THEN at ELSE << >>

Disks == {b \in DOMAIN Blocks : Blocks[b].parent = 0}
Erased == [b \in Disks |-> [s \in 0 .. Blocks[b].size - 1 |-> CHOOSE v \in Values : TRUE]]
Nothing == [op |-> "none", disk |-> 1, sector |-> 0, val |-> CHOOSE v \in Values : TRUE]

\* The start of a transfer: every check on the way to the disk, or a panic.
Start(t, op, b, sector, val) ==
    LET at == block_access(Blocks, b, sector, op) IN
    /\ ~ ide.panicked /\ ide.pc[t] = "idle"
    /\ ide' = IF at = << >> THEN [ide EXCEPT !.panicked = TRUE]
              ELSE [ide EXCEPT !.pc[t] = "acquire",
                               !.req[t] = [op |-> op, disk |-> at[1], sector |-> at[2], val |-> val]]
InCall(t, place) == ~ ide.panicked /\ ide.pc[t] = place
CtlIdle(c) == ~ c.bsy /\ ~ c.drq
Stuck == ide.ctl.cmd = "stuck"

LockChannel(t) == InCall(t, "acquire") /\ ide.lock = Nobody /\ ide' = [ide EXCEPT !.lock = t, !.pc[t] = "select"]
\* select_sector(): wait_until_idle() reads the status, which takes back a pending interrupt,
\* and goes on after its time-out, within which a controller that works is taken to be idle.
select_sector(t) ==
    /\ InCall(t, "select") /\ (CtlIdle(ide.ctl) \/ Stuck)
    /\ ide' = [ide EXCEPT !.irq = FALSE, !.ctl.disk = ide.req[t].disk, !.ctl.sector = ide.req[t].sector,
                          !.pc[t] = "issue"]
\* A mutant: the driver is not told to expect an interrupt.
issue_pio_commandQuiet(t) ==
    /\ InCall(t, "issue")
    /\ ide' = [ide EXCEPT !.ctl.cmd = IF Stuck THEN @ ELSE ide.req[t].op, !.ctl.bsy = TRUE,
                          !.pc[t] = IF ide.req[t].op = "read" THEN "down" ELSE "busy"]
issue_pio_command(t) ==
    /\ InCall(t, "issue")
    /\ ide' = [ide EXCEPT !.expecting_interrupt = TRUE, !.ctl.cmd = IF Stuck THEN @ ELSE ide.req[t].op, !.ctl.bsy = TRUE,
                          !.pc[t] = IF ide.req[t].op = "read" THEN "down" ELSE "busy"]
\* sema_down() of completion_wait: before the data of a read, after the data of a write.
Down(t) ==
    /\ InCall(t, "down") /\ ide.completion_wait > 0
    /\ ide' = [ide EXCEPT !.completion_wait = @ - 1,
                          !.pc[t] = IF ide.req[t].op = "read" THEN "busy" ELSE "release"]
\* wait_while_busy(): no DRQ once BSY clears is a panic, and so is its time-out.
wait_while_busy(t) ==
    /\ InCall(t, "busy") /\ (~ ide.ctl.bsy \/ Stuck)
    /\ ide' = IF ~ ide.ctl.drq THEN [ide EXCEPT !.panicked = TRUE]
              ELSE [ide EXCEPT !.pc[t] = "data"]
input_sector(t) ==
    /\ InCall(t, "data") /\ ide.req[t].op = "read"
    /\ ide' = [ide EXCEPT !.ctl.drq = FALSE, !.ctl.cmd = "none", !.req[t].val = ide.ctl.data, !.pc[t] = "release"]
\* A mutant: the write does not wait for the disk.
output_sectorOnly(t) ==
    /\ InCall(t, "data") /\ ide.req[t].op = "write"
    /\ ide' = [ide EXCEPT !.ctl.drq = FALSE, !.ctl.bsy = TRUE, !.ctl.cmd = "store",
                          !.ctl.data = ide.req[t].val, !.pc[t] = "release",
                          !.written[ide.ctl.disk][ide.ctl.sector] = ide.req[t].val]
output_sector(t) ==
    /\ InCall(t, "data") /\ ide.req[t].op = "write"
    /\ ide' = [ide EXCEPT !.ctl.drq = FALSE, !.ctl.bsy = TRUE, !.ctl.cmd = "store",
                          !.ctl.data = ide.req[t].val, !.pc[t] = "down",
                          !.written[ide.ctl.disk][ide.ctl.sector] = ide.req[t].val]
UnlockChannel(t) == InCall(t, "release") /\ ide' = [ide EXCEPT !.lock = Nobody, !.pc[t] = "idle", !.req[t] = Nothing]

interrupt_handler ==
    /\ ~ ide.panicked /\ ide.irq
    /\ ide' = [ide EXCEPT !.irq = FALSE,
                          !.completion_wait = IF ide.expecting_interrupt THEN @ + 1 ELSE @]

-----------------------------------------------------------------------------
(* The controller.                                                         *)
ReadReady ==
    /\ ide.ctl.cmd = "read" /\ ide.ctl.bsy
    /\ \E lose \in BOOLEAN :
          /\ lose => ide.lost < MaxLost
          /\ ide' = [ide EXCEPT !.ctl.bsy = FALSE, !.ctl.drq = TRUE,
                                !.ctl.data = ide.media[ide.ctl.disk][ide.ctl.sector],
                                !.irq = ~ lose, !.lost = IF lose THEN @ + 1 ELSE @]
WriteReady ==
    /\ ide.ctl.cmd = "write" /\ ide.ctl.bsy
    /\ ide' = [ide EXCEPT !.ctl.bsy = FALSE, !.ctl.drq = TRUE]
Stored ==
    /\ ide.ctl.cmd = "store" /\ ide.ctl.bsy
    /\ ide' = [ide EXCEPT !.ctl.bsy = FALSE, !.ctl.cmd = "none", !.irq = TRUE,
                          !.media[ide.ctl.disk][ide.ctl.sector] = ide.ctl.data]
CommandFails ==
    /\ ide.ctl.cmd \in {"read", "write"} /\ ide.ctl.bsy
    /\ ide' = [ide EXCEPT !.ctl.bsy = FALSE, !.ctl.cmd = "none", !.irq = TRUE]
Hang ==
    /\ ide.ctl.cmd \in {"read", "write", "store"} /\ ide.ctl.bsy /\ ide.lost < MaxLost
    /\ ide' = [ide EXCEPT !.ctl.cmd = "stuck", !.lost = @ + 1]
Spurious ==
    /\ ide.spurious < MaxSpurious /\ ~ ide.irq
    /\ ide' = [ide EXCEPT !.irq = TRUE, !.spurious = @ + 1]

IdeInit ==
    ide = [lock |-> Nobody, expecting_interrupt |-> FALSE, completion_wait |-> 0, irq |-> FALSE,
           ctl |-> [disk |-> 1, sector |-> 0, cmd |-> "none", bsy |-> FALSE, drq |-> FALSE,
                    data |-> CHOOSE v \in Values : TRUE],
           media |-> Erased, written |-> Erased,
           pc |-> [t \in Clients |-> "idle"], req |-> [t \in Clients |-> Nothing],
           spurious |-> 0, lost |-> 0, panicked |-> FALSE]
Step(t) ==
    \/ LockChannel(t) \/ select_sector(t) \/ issue_pio_command(t) \/ Down(t) \/ wait_while_busy(t)
    \/ input_sector(t) \/ output_sector(t) \/ UnlockChannel(t)
Device == ReadReady \/ WriteReady \/ Stored
IdeNext ==
    \/ \E t \in Clients, b \in DOMAIN Blocks, op \in {"read", "write"}, val \in Values :
          \E sector \in 0 .. Blocks[b].size : Start(t, op, b, sector, val)
    \/ \E t \in Clients : Step(t)
    \/ interrupt_handler \/ Device \/ CommandFails \/ Hang \/ Spurious
IdeSpec == IdeInit /\ [][IdeNext]_ide

-----------------------------------------------------------------------------
\* ide.c: a read returns what was last written to the sector, a command is only given to
\* an idle controller, and unless an interrupt came unasked or got lost a write returns
\* after the disk has the data and every completion is taken by the transfer it is for.
DiskExact ==
    /\ \A t \in Clients :
          /\ ide.pc[t] = "release" /\ ide.req[t].op = "read" =>
                ide.req[t].val = ide.written[ide.req[t].disk][ide.req[t].sector]
          /\ ide.pc[t] = "issue" => CtlIdle(ide.ctl) \/ Stuck
          /\ ide.pc[t] = "release" /\ ide.req[t].op = "write" /\ ide.spurious = 0 => ide.media = ide.written
    /\ ide.lock = Nobody /\ ide.spurious = 0 /\ ide.lost = 0 => ide.completion_wait = 0 /\ ~ ide.irq
=============================================================================
