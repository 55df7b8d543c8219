----------------------------- MODULE MCDevices -----------------------------
(***************************************************************************)
(* The devices, the boot and the programs around them in one run.  A       *)
(* behaviour works with one part: one with a state of its own, or          *)
(* functions without one, which are called with every input of a small     *)
(* set.                                                                    *)
(***************************************************************************)
EXTENDS Integers, Sequences, SequencesExt, Ide, Interrupts, Relay, Terminal

CONSTANTS r1, r2, w1, w2, t1, t2

VARIABLES part, given,     \* what the behaviour works with, the input of a function called
          vga, kbd, os, mmu

Scripts == (w1 :> <<"acquire", "acquire", "x", "release", "x", "release">>) @@ (w2 :> <<"acquire", "x", "x", "release">>)
ASSUME Prints == TerminalAssumption
Registered == <<[name |-> <<"hda", 0>>, type |-> "raw", size |-> 2, parent |-> 0, start |-> 0],
                [name |-> <<"hda", 1>>, type |-> "swap", size |-> 1, parent |-> 1, start |-> 1],
                [name |-> <<"hdb", 0>>, type |-> "raw", size |-> 1, parent |-> 0, start |-> 0]>>
Disk == INSTANCE Block WITH SectorBits <- 4, StackDepth <- 4, Gigabyte <- 10
ASSUME InterruptLines == InterruptsAssumption
ASSUME BlockDevices == IdeAssumption
ASSUME Buffers == RelayAssumption
ScanCodes == {42, 54, 57400, 29, 58, 30, 3, 83}
Pc == INSTANCE Peripherals WITH Keys <- ScanCodes, COL_CNT <- 4, ROW_CNT <- 2, TabStop <- 2, MaxPuts <- 5
Time == INSTANCE Clock WITH PIT_HZ <- 1193180, TIMER_FREQ <- 100
Words == INSTANCE Descriptors WITH PGBITS <- 3, PTBITS <- 1, PDBITS <- 3, PHYS_BASE <- 96
Paging == INSTANCE PageDir WITH Threads <- Clients, UPages <- {1}, Frames <- {1, 2}, InitDir <- Nobody
ASSUME Directories == Paging!PageDirAssumption
Program == INSTANCE Loader WITH WordBits <- 5, PGSIZE <- 4, PHYS_BASE <- 24, ConsoleBuf <- 3
Frame == INSTANCE Loader WITH WordBits <- 7, PGSIZE <- 48, PHYS_BASE <- 96, ConsoleBuf <- 3

W(name) == [name |-> name, value |-> << >>]
V(name, value) == [name |-> name, value |-> <<value>>]
OptionLists == {<<W("-q")>>, <<W("-f"), W("-q")>>, <<W("-r")>>, <<V("-rs", "5"), W("-mlfqs"), V("-ul", "4")>>,
                <<V("-scratch", "hdc"), W("-f")>>, <<V("-scratch", "hdz")>>, <<W("-h")>>, <<W("-x")>>, <<W("-rs")>>}
ActionLists == {<<W("extract")>>, <<W("extract"), W("append"), W("f")>>,
                <<W("append"), W("f"), W("append"), W("g")>>, <<W("rm"), W("f"), W("ls")>>,
                <<W("cat"), W("g"), W("run"), W("f")>>, <<W("append")>>, <<W("go")>>, << >>}
CommandLines == {o \o a : o \in OptionLists, a \in ActionLists}
Archives == {<<<<"f", <<1, 2, 1>>>>, <<"g", <<2>>>>>>, <<<<"g", << >>>>>>}
Kernel == INSTANCE Boot WITH SectorSize <- 2, ScratchSize <- 7, DiskSize <- 5, MaxBoots <- 3, MaxLuck <- 7

-----------------------------------------------------------------------------
(* The inputs of the functions.                                            *)
Entries == [type : {"empty", "filesys", "swap", "other"}, offset : {0, 1, 3, 15}, size : {0, 1, 2, 15}]
Extended == [type : {"extended"}, offset : {0, 1, 2, 3, 9, 15}, size : {1}]
Tables == [signature : {TRUE}, partitions : {<<e, f>> : e, f \in Entries}]
              \union [signature : BOOLEAN, partitions : {<<e>> : e \in Extended}]
              \union [signature : {TRUE}, partitions : {<<e, f>> : e, f \in Extended}]
Blank == [signature |-> FALSE, partitions |-> << >>]
Drives == [present : BOOLEAN, bsy : BOOLEAN, error : {"ok", "ok_no_slave", "bad"}, drdy : BOOLEAN,
           lba : {"ata", "sata", "none"}, drq : BOOLEAN, capacity : {4, 10}, mbr : {Blank}]
Good == [present |-> TRUE, bsy |-> TRUE, error |-> "ok", drdy |-> TRUE, lba |-> "ata", drq |-> TRUE,
         capacity |-> 4, mbr |-> Blank]
Dates == {<<s, mi, h, d, mo, y>> : s \in {0, 58, 59}, mi \in {9, 59}, h \in {0, 23}, d \in {0, 27},
                                   mo \in {0, 1, 11}, y \in {0, 18, 30, 70, 72, 99}}
            \union {<<59, 59, 23, 30, mo, y>> : mo \in {0, 2, 11}, y \in {18, 20, 99}}
Frequencies == {0, 18, 19, 20, 100, 440, 1000, 20000, 795453, 795454, 1193180, 1193181}
Loops == {1024, 1025, 1535, 1536, 2047, 2048, 3000, 5000, 65535, 100001}
Halves == {0, 1, 255, 256, 4660, 32767, 65535}
Headers == [type : {"load"}, offset : {0, 5, 9, 12}, vaddr : {1, 4, 5, 13, 20, 23, 24, 31}, filesz : {0, 1, 3, 6},
            memsz : {0, 1, 5, 7, 10, 14, 31}, writable : BOOLEAN]
Pairs == [type : {"load", "note", "dynamic"}, offset : {4}, vaddr : {4, 8, 12, 20}, filesz : {2, 4},
          memsz : {4, 5}, writable : {TRUE}]
Files == [elf : BOOLEAN, bytes : {[i \in 1 .. 10 |-> i]}, headers : {<<h>> : h \in Headers} \union {<< >>}]
            \union [elf : {TRUE}, bytes : {[i \in 1 .. 10 |-> i]}, headers : {<<g, h>> : g, h \in Pairs}]
Typed == UNION {[1 .. n -> {"a", " "}] : n \in 1 .. 8}

Called(type) == part = type /\ given = << >>
Call(x) == given' = <<x>>
CallScan == Called("scan") /\ \E table \in Tables : Call(table)
CallDetect == Called("detect") /\ \E drive \in Drives : Call(drive)
CallDate == Called("date") /\ \E d \in Dates, tick \in 1 .. 8 : Call(<<d, tick>>)
CallPit == Called("pit") /\ \E f \in Frequencies : Call(f)
CallDelay == Called("delay") /\ \E n \in Loops : Call(n)
CallDescriptor == Called("descriptor") /\ \E lo, hi \in Halves, limit \in {0, 1, 103, 65535, 65536, 983041, 1048575}, type \in {0, 9, 15},
                     dpl \in {0, 3} : Call(<<<<lo, hi>>, limit, type, dpl>>)
CallPaging == Called("paging") /\ \E ram \in 0 .. 4, start \in {96, 104}, end \in {96, 100, 104, 112, 120},
                 pool \in {<<96, 104, 112>>, <<120, 96, 112>>} : Call(<<pool, ram, start, end>>)
CallLoad == Called("load") /\ \E file \in Files : Call(file)
CallLine == Called("line") /\ \E line \in Typed : Call(line)
CallStub == Called("stub") /\ \E call \in DOMAIN Frame!SYS, esp \in 30 .. 48 : Call(<<call, esp>>)
CallWords == Called("words") /\ \E n \in 0 .. 3 : \E words \in [1 .. n -> {<< >>, <<1>>, <<1, 2>>}] : Call(words)
CallReturns == given # << >> /\ given' = << >>
Functions ==
    \/ CallScan \/ CallDetect \/ CallDate \/ CallPit \/ CallDelay \/ CallDescriptor \/ CallPaging
    \/ CallLoad \/ CallLine \/ CallStub \/ CallWords \/ CallReturns

-----------------------------------------------------------------------------
\* The terminal starts loaded in two ways: with bytes from the line and readers, or with
\* two writers, a handler that prints and a panic.
Init ==
    /\ part \in {"terminal", "disk", "interrupts", "screen", "keyboard", "relay", "boot", "mmu",
                 "scan", "detect", "date", "pit", "delay", "descriptor", "paging", "load", "line", "stub", "words"}
    /\ given = << >>
    /\ \/ term = [TerminalStart EXCEPT !.at[w2] = 5, !.prints = 1]
       \/ part = "terminal" /\ term = [TerminalStart EXCEPT !.arrived = 1, !.keys = 1]
    /\ IdeInit
    /\ cpu = Booted /\ vga = Pc!ScreenStart /\ kbd = Pc!KeyboardStart /\ os = Kernel!BootStart
    /\ mmu = Paging!PageDirStart(t1)
    /\ sq = RelayStart("pty") \/ (part = "relay" /\ sq = RelayStart("unix"))
Next ==
    \/ Functions /\ UNCHANGED <<part, term, ide, cpu, vga, kbd, sq, os, mmu>>
    \/ part = "terminal" /\ TerminalNext /\ UNCHANGED <<part, given, ide, cpu, vga, kbd, sq, os, mmu>>
    \/ part = "disk" /\ IdeNext /\ UNCHANGED <<part, given, term, cpu, vga, kbd, sq, os, mmu>>
    \/ part = "interrupts" /\ InterruptsNext /\ UNCHANGED <<part, given, term, ide, vga, kbd, sq, os, mmu>>
    \/ part = "screen" /\ Pc!ScreenNext /\ UNCHANGED <<part, given, term, ide, cpu, kbd, sq, os, mmu>>
    \/ part = "keyboard" /\ Pc!KeyboardNext /\ UNCHANGED <<part, given, term, ide, cpu, vga, sq, os, mmu>>
    \/ part = "relay" /\ RelayNext /\ UNCHANGED <<part, given, term, ide, cpu, vga, kbd, os, mmu>>
    \/ part = "boot" /\ Kernel!BootNext /\ UNCHANGED <<part, given, term, ide, cpu, vga, kbd, sq, mmu>>
    \/ part = "mmu" /\ Paging!PageDirNext /\ UNCHANGED <<part, given, term, ide, cpu, vga, kbd, sq, os>>
vars == <<part, given, term, ide, cpu, vga, kbd, sq, os, mmu>>

\* A thread that can run runs in the end, hardware answers, a signal is delivered.
Fairness ==
    /\ \A x \in Writers : WF_term(part = "terminal" /\ Writes(x))
    /\ \A x \in Readers : WF_term(part = "terminal" /\ Reads(x))
    /\ \A x \in Readers \union Writers : WF_term(part = "terminal" /\ Locked(x))
    /\ WF_term(part = "terminal" /\ serial_init_queue)
    /\ WF_term(part = "terminal" /\ serial_interrupt)
    /\ WF_term(part = "terminal" /\ Depart)
    /\ \A t \in Clients : WF_ide(part = "disk" /\ Step(t))
    /\ WF_ide(part = "disk" /\ interrupt_handler) /\ WF_ide(part = "disk" /\ Device)
    /\ WF_sq(part = "relay" /\ Relays) /\ WF_sq(part = "relay" /\ sigchld_handler)
Spec == Init /\ [][Next]_vars /\ Fairness

-----------------------------------------------------------------------------
\* init.c, fsutil.c: what boots and actions leave on both disks (see Boot).
BootExact == Kernel!BootExact
\* vga.c, kbd.c: the screen shows what was printed, a key gives the character its shifts
\* say; pagedir.c, process.c: no stale translation and no lost dirty bit; partition.c, ide.c,
\* rtc.c, pit.c, timer.c, gdt.c, tss.c, interrupt.c, init.c, process.c and lib/user: every
\* call gives what its comment promises, at the edges too: partitions past the end or
\* wrapping around, drives that do not answer, a clock tick during a read, segments that
\* overlap or wrap around, arguments that fill the stack.  Three calls do not, and the
\* formula says what they give instead: rtc_get_time() is 27 to 32 days ahead (ReadAgrees),
\* a scan never reads an extended partition's table and mostly does not end (ScanAgrees),
\* and timer_calibrate() gets only the highest bit of its estimate right (DelayAgrees).
DevicesAgree ==
    /\ part = "screen" => Pc!ScreenShows
    /\ part = "keyboard" => Pc!KeysAgree
    /\ part = "mmu" => Paging!TranslationExact
    /\ given # << >> =>
        LET x == given[1] IN
        CASE part = "scan" -> Disk!ScanAgrees(x, 4)
          [] part = "detect" -> Disk!DetectionAgrees(x, Good) /\ Disk!DetectionAgrees(Good, x)
          [] part = "date" -> Time!ReadAgrees(x[1], x[2])
          [] part = "pit" -> Time!PitAgrees(x)
          [] part = "delay" -> Time!DelayAgrees(x)
          [] part = "descriptor" -> Words!DescriptorAgrees(x[1], x[2], x[3], x[4])
          [] part = "paging" -> Words!PagingAgrees(x[1], x[2], x[3], x[4])
          [] part = "load" -> \A frames \in {0, 1, 2, 3, 9} : Program!LoadAgrees(x, frames)
          [] part = "line" -> Frame!ArgumentsAgree(x) /\ Frame!PrintAgrees(x)
          [] part = "stub" -> Frame!CallAgrees(x[1], <<11, 12, 13>>, x[2])
          [] part = "words" -> Kernel!WordsAgree(x, 5)

Settled ==
    /\ part = "terminal" =>
          \/ term.failed \/ term.panicked
          \/ /\ \A x \in Writers : Done(x)
             /\ term.line = term.sent /\ term.rbr = << >> /\ term.taken = term.accepted
    /\ ide.lock = Nobody \/ ide.panicked \/ ide.lost > 0
    /\ sq.signalled => sq.pc = "exited"
\* No thread waits for ever: unless an assertion fails or the kernel panics, writers
\* finish, the line gets every byte, what arrived is read; a transfer whose interrupt is not
\* lost gives its channel back; a relay ends once it knows that its child is dead.
DevicesServe == []<>Settled
=============================================================================
