-------------------------------- MODULE Boot --------------------------------
(***************************************************************************)
(* A pintos2 machine from power-on to shutdown: threads/init.c's main(),   *)
(* the command line, the actions it names, filesys/fsutil.c's transfers    *)
(* between the file system and the scratch device, devices/shutdown.c.     *)
(* Both disks outlive the machine, static variables do not.  Sectors hold  *)
(* SectorSize bytes.  The file system is external here (FileSys models     *)
(* it): a map from names to contents in which DiskSize bytes fit.          *)
(***************************************************************************)
EXTENDS Integers, Sequences, SequencesExt

CONSTANTS SectorSize, ScratchSize, DiskSize, CommandLines, Archives, MaxBoots, MaxLuck

VARIABLE os

\* A sector of zeros, and one whose last byte is something else.
Zero == <<"zero">>
Torn == <<"torn">>
Size(files) == FoldSet(LAMBDA f, n : n + Len(files[f]), 0, DOMAIN files)
Panic(k) == [k EXCEPT !.state = "panic"]
Running(k) == k.state = "running"
-----------------------------------------------------------------------------
(* The command line.  The loader leaves the words, each with a 0 behind    *)
(* it, in an area of fixed length; 0 stands for the null byte.             *)
RECURSIVE strnlen(_, _)
strnlen(area, p) == IF p > Len(area) \/ area[p] = 0 THEN 0 ELSE 1 + strnlen(area, p + 1)
\* The words found from p on, << >> for the panic.
RECURSIVE ReadWords(_, _, _)
ReadWords(area, p, argc) ==
    IF argc = 0 THEN <<<< >>>>
    ELSE IF p > Len(area) THEN << >>
    ELSE LET n == strnlen(area, p)
             rest == ReadWords(area, p + n + 1, argc - 1)
         IN IF rest = << >> THEN << >> ELSE <<<<SubSeq(area, p, p + n - 1)>> \o rest[1]>>
read_command_line(area, argc) == ReadWords(area, 1, argc)

\* A word of the command line has a name and, behind "=", a value (<< >> when it has none);
\* options come first.
Options == {"-h", "-q", "-r", "-f", "-scratch", "-rs", "-mlfqs", "-ul", "-x"}
RECURSIVE parse_options(_)
parse_options(k) ==
    IF k.argv = << >> \/ Head(k.argv).name \notin Options THEN [k EXCEPT !.seed = "rtc"]
    ELSE LET o == Head(k.argv)
             next == [k EXCEPT !.argv = Tail(@)]
         IN CASE o.name = "-h" -> [next EXCEPT !.state = "off"]
              [] o.name = "-q" -> parse_options([next EXCEPT !.how = "power_off"])
              [] o.name = "-r" -> parse_options([next EXCEPT !.how = "reboot"])
              [] o.name = "-f" -> parse_options([next EXCEPT !.format = TRUE])
              [] o.name = "-scratch" -> parse_options([next EXCEPT !.scratch_bdev_name = o.value])
              [] o.name = "-mlfqs" -> parse_options([next EXCEPT !.mlfqs = TRUE])
              [] o.name \in {"-rs", "-ul"} /\ o.value = << >> -> Panic(next)
              [] o.name = "-rs" -> parse_options([next EXCEPT !.seed = o.value[1]])
              [] o.name = "-ul" -> parse_options([next EXCEPT !.user_page_limit = o.value])
              [] OTHER -> Panic(next)

-----------------------------------------------------------------------------
(* filesys/fsutil.c.  A sector of the scratch device holds zeros, the      *)
(* header of a member of an archive, data, or something else.              *)
filesys_create(k, name, size) == name \notin DOMAIN k.files /\ Size(k.files) + size <= DiskSize
Sectors(size) == (size + SectorSize - 1) \div SectorSize
Chunk(content, i) ==
    <<"data">> \o [j \in 1 .. SectorSize |->
                      LET n == (i - 1) * SectorSize + j IN IF n <= Len(content) THEN content[n] ELSE 0]

\* A call of the allocator or of the file system that may fail, which panics: luck of them
\* succeed before one fails, all of them when it is negative.
Try(k) == IF k.luck = 0 THEN Panic(k) ELSE [k EXCEPT !.luck = @ - 1]

\* fsutil_extract(): sector is a static variable, advanced by every sector read.
RECURSIVE CopyIn(_, _, _, _)
CopyIn(k, name, size, pos) ==
    IF size <= 0 \/ ~ Running(k) THEN k
    ELSE IF k.extract >= ScratchSize THEN Panic(k)
    ELSE LET s == k.scratch[k.extract + 1]
             chunk == IF size > SectorSize THEN SectorSize ELSE size
             read == Try([k EXCEPT !.extract = @ + 1])
             content == [j \in DOMAIN k.files[name] |->
                            IF j \notin pos + 1 .. pos + chunk THEN k.files[name][j]
                            ELSE IF s[1] = "data" THEN s[j - pos + 1] ELSE 0]
         IN IF Running(read) THEN CopyIn([read EXCEPT !.files[name] = content], name, size - chunk, pos + chunk)
            ELSE read
RECURSIVE ExtractAll(_)
ExtractAll(k) ==
    IF ~ Running(k) THEN k
    ELSE IF k.extract >= ScratchSize THEN Panic(k)
    ELSE LET s == k.scratch[k.extract + 1]
             next == [k EXCEPT !.extract = @ + 1]
         IN CASE s = Zero -> next
              [] s[1] = "directory" -> ExtractAll(next)
              [] s[1] = "regular" ->
                   LET created == Try(next)
                       opened == Try([created EXCEPT !.files = @ @@ (s[2] :> [j \in 1 .. s[3] |-> 0])])
                   IN IF ~ filesys_create(k, s[2], s[3]) THEN Panic(next)
                      ELSE IF ~ Running(created) THEN created
                      ELSE ExtractAll(CopyIn(opened, s[2], s[3], 0))
              [] OTHER -> Panic(next)
Erase(k) ==
    IF ~ Running(k) THEN k
    ELSE IF ScratchSize < 2 THEN Panic(k)
    ELSE [k EXCEPT !.scratch[1] = Zero, !.scratch[2] = Zero]
\* A mutant: the archive stays.
fsutil_extractKeeps(k) == IF k.role = "none" THEN Panic(k) ELSE ExtractAll(Try(k))
fsutil_extract(k) == IF k.role = "none" THEN Panic(k) ELSE Erase(ExtractAll(Try(k)))

\* fsutil_append(): the end marker's second sector is written over the first one, from one
\* byte further on, so that its last byte is whatever lies behind the buffer: past.
Put(k, at, sector) ==
    IF ~ Running(k) THEN k
    ELSE IF at >= ScratchSize THEN Panic(k) ELSE [k EXCEPT !.scratch[at + 1] = sector]
RECURSIVE CopyOut(_, _, _)
CopyOut(k, content, i) ==
    IF i > Sectors(Len(content)) \/ ~ Running(k) THEN k
    ELSE IF k.append >= ScratchSize THEN Panic(k)
    ELSE CopyOut([Put(Try(k), k.append, Chunk(content, i)) EXCEPT !.append = @ + 1], content, i + 1)
fsutil_append(k, name, past) ==
    LET opened == Try(Try(k)) IN
    IF name \notin DOMAIN k.files \/ k.role = "none" \/ ~ Running(opened) THEN Panic(k)
    ELSE LET content == k.files[name]
             header == [Put(opened, k.append, <<"regular", name, Len(content)>>) EXCEPT !.append = @ + 1]
             copied == CopyOut(header, content, 1)
         IN Put(Put(copied, copied.append, Zero), copied.append, IF past = 0 THEN Zero ELSE Torn)

fsutil_rm(k, name) ==
    IF name \notin DOMAIN k.files \/ ~ Running(Try(k)) THEN Panic(k)
    ELSE [k EXCEPT !.files = [f \in DOMAIN @ \ {name} |-> @[f]]]
\* fsutil_cat(): a page at a time, page is the size of the buffer.
RECURSIVE CatFrom(_, _, _)
CatFrom(content, pos, page) ==
    LET n == IF Len(content) - pos > page THEN page ELSE Len(content) - pos
    IN IF n = 0 THEN << >> ELSE SubSeq(content, pos + 1, pos + n) \o CatFrom(content, pos + n, page)
fsutil_cat(k, name) ==
    IF name \notin DOMAIN k.files \/ ~ Running(Try(k)) THEN Panic(k)
    ELSE [k EXCEPT !.out = CatFrom(k.files[name], 0, 2)]
fsutil_ls(k) == IF Running(Try(k)) THEN [k EXCEPT !.listed = DOMAIN k.files] ELSE Panic(k)

-----------------------------------------------------------------------------
(* Running the machine.  wantFiles and archive are what the actions done   *)
(* so far promise: the files, and the members of the archive at the start  *)
(* of the scratch device.  ends is how the archive must end: with two      *)
(* zero sectors, with one, which is all that fsutil_append() writes, or    *)
(* with one that the byte behind the buffer spoilt.  partial are the files *)
(* an extraction that panicked may have left unfinished; cut: a panic in   *)
(* fsutil_append() has left the scratch device half written.               *)
argc == [run |-> 2, ls |-> 1, cat |-> 2, rm |-> 2, extract |-> 1, append |-> 2]
Statics == [how |-> "none", format |-> FALSE, scratch_bdev_name |-> << >>, seed |-> "none",
            mlfqs |-> FALSE, user_page_limit |-> << >>, extract |-> 0, append |-> 0,
            out |-> << >>, listed |-> {}, role |-> "none", appended |-> FALSE, luck |-> -1]
\* locate_block_devices(): a scratch device is found unless the name given is not one.
Located(k) == IF k.scratch_bdev_name \in {<< >>, <<"hdc">>} THEN [k EXCEPT !.role = "scratch"] ELSE Panic(k)
main(k) ==
    LET parsed == parse_options(k)
        located == IF Running(parsed) THEN Located(parsed) ELSE parsed
    IN IF Running(located) /\ located.format
       THEN [located EXCEPT !.files = << >>, !.wantFiles = << >>, !.partial = {}] ELSE located
Start(k, line) == main([Statics @@ k EXCEPT !.state = "running", !.boots = @ + 1, !.argv = line, !.line = line])
PowerOn == /\ os.state = "off" /\ os.boots < MaxBoots
           /\ \E line \in CommandLines : os' = Start(os, line)

\* run_actions(): the name is looked up, its arguments counted, it runs to its end.
Members(archive) == {archive[i] : i \in DOMAIN archive}
Names(archive) == {m[1] : m \in Members(archive)}
\* k is the machine after the action.
Promise(k, do, name, past) ==
    CASE do = "rm" -> [k EXCEPT !.wantFiles = [f \in DOMAIN @ \ {name} |-> @[f]], !.partial = @ \ {name}]
      [] do = "extract" ->
           [k EXCEPT !.archive = << >>, !.ends = "two", !.cut = FALSE,
                     !.wantFiles = IF k.cut THEN k.files
                                   ELSE @ @@ [f \in Names(k.archive) |->
                                                 (CHOOSE m \in Members(k.archive) : m[1] = f)[2]]]
      [] do = "append" ->
           [k EXCEPT !.archive = Append(IF k.appended THEN @ ELSE << >>, <<name, k.files[name]>>),
                     !.ends = IF past = 0 THEN "one" ELSE "torn", !.appended = TRUE,
                     !.cut = IF k.appended THEN @ ELSE FALSE]
      [] OTHER -> k
\* What an action that panics leaves undecided.
Undecided(k, do, written) ==
    CASE do = "extract" ->
           [k EXCEPT !.partial = @ \union ((IF k.cut THEN DOMAIN k.files ELSE Names(k.archive)) \ DOMAIN k.wantFiles)]
      [] do = "append" -> [k EXCEPT !.cut = @ \/ written]
      [] OTHER -> k
Invoke(k, do, name, past) ==
    CASE do = "run" -> k
      [] do = "ls" -> fsutil_ls(k)
      [] do = "cat" -> fsutil_cat(k, name)
      [] do = "rm" -> fsutil_rm(k, name)
      [] do = "extract" -> fsutil_extract(k)
      [] do = "append" -> fsutil_append(k, name, past)
run_actions ==
    /\ Running(os) /\ os.argv # << >>
    /\ LET do == os.argv[1].name IN
       IF do \notin DOMAIN argc \/ argc[do] > Len(os.argv)
       THEN os' = Panic(os)
       ELSE \E past \in {0, 1}, luck \in -1 .. MaxLuck :
               LET name == IF argc[do] = 2 THEN os.argv[2].name ELSE ""
                   done == Invoke([os EXCEPT !.luck = luck], do, name, past)
                   next == [done EXCEPT !.argv = SubSeq(@, argc[do] + 1, Len(@)), !.luck = -1]
               IN os' = IF Running(done) THEN Promise(next, do, name, past)
                        ELSE Undecided(next, do, done.scratch # os.scratch)

shutdown_power_off(k) == [k EXCEPT !.state = "off"]
shutdown_reboot(k) == Start(k, k.line)
\* shutdown(), at the end of main() or of debug_panic(): a machine that is not told to stop
\* stays on, one that reboots does its command line once more.
shutdown ==
    /\ os.state = "panic" \/ (Running(os) /\ os.argv = << >>)
    /\ os' = CASE os.how = "power_off" -> shutdown_power_off(os)
               [] os.how = "reboot" /\ os.boots < MaxBoots -> shutdown_reboot(os)
               [] OTHER -> [os EXCEPT !.state = "idle"]

\* External: the pintos script switches a machine off, and puts an archive on the scratch
\* device of one that is off.
Layout(archive) ==
    LET member(m) == <<<<"regular", m[1], Len(m[2])>>>> \o [i \in 1 .. Sectors(Len(m[2])) |-> Chunk(m[2], i)]
        all == FoldLeft(LAMBDA acc, m : acc \o member(m), << >>, archive) \o <<Zero, Zero>>
    IN all \o [i \in 1 .. ScratchSize - Len(all) |-> <<"other">>]
SwitchOff == os.state = "idle" /\ os' = [os EXCEPT !.state = "off"]
HostPuts == /\ os.state = "off" /\ os.boots < MaxBoots /\ (os.archive = << >> \/ os.cut)
            /\ \E a \in Archives : os' = [os EXCEPT !.scratch = Layout(a), !.archive = a, !.ends = "two",
                                                   !.cut = FALSE]

BootStart ==
    Statics @@ [state |-> "off", boots |-> 0, argv |-> << >>, line |-> << >>, files |-> << >>,
                scratch |-> [i \in 1 .. ScratchSize |-> Zero], wantFiles |-> << >>, archive |-> << >>,
                ends |-> "two", cut |-> FALSE, partial |-> {}]
BootNext == PowerOn \/ run_actions \/ shutdown \/ SwitchOff \/ HostPuts

-----------------------------------------------------------------------------
\* What a reader of the scratch device finds from sector at on: the members before the
\* sector that is neither a header nor data, and the number of that sector; << >> when
\* the device ends first.
RECURSIVE Found(_, _)
Found(scratch, at) ==
    IF at > ScratchSize THEN << >>
    ELSE LET s == scratch[at] IN
    IF s[1] # "regular" THEN <<[members |-> << >>, end |-> at]>>
    ELSE IF at + Sectors(s[3]) > ScratchSize THEN << >>
    ELSE LET rest == Found(scratch, at + 1 + Sectors(s[3]))
             Byte(n) == scratch[at + 1 + (n - 1) \div SectorSize][2 + ((n - 1) % SectorSize)]
         IN IF rest = << >> THEN << >>
            ELSE <<[rest[1] EXCEPT !.members = <<<<s[2], [n \in 1 .. s[3] |-> Byte(n)]>>>> \o @]>>

\* However boots, archives put by the host, and actions follow each other, and wherever
\* an action panics for lack of memory or of space:
\* - the files are those the finished actions promise, but for the members of an archive
\*   whose extraction panicked, each of which may be there, unfinished, or not;
\* - unless a panic has cut an append short, the scratch device holds, readable from its
\*   start, exactly the files appended in the last boot that appended, or the archive put
\*   there, until an extraction, which leaves an empty one: extracting again at the next
\*   boot changes nothing;
\* - two zero sectors follow an archive of the host or an extraction.  After an append it
\*   is not the "two consecutive sectors full of zeros" of fsutil.c:213: only one sector
\*   is written, and the last byte of it is the byte behind the buffer (fsutil.c:218).
BootExact ==
    /\ \A f \in (DOMAIN os.files \union DOMAIN os.wantFiles) \ os.partial :
          f \in DOMAIN os.files /\ f \in DOMAIN os.wantFiles /\ os.files[f] = os.wantFiles[f]
    /\ ~ os.cut =>
          LET found == Found(os.scratch, 1)
              end == found[1].end
          IN /\ found # << >> /\ found[1].members = os.archive
             /\ CASE os.ends = "two" -> os.scratch[end] = Zero /\ os.scratch[end + 1] = Zero
                  [] os.ends = "one" -> os.scratch[end] = Zero
                  [] os.ends = "torn" -> os.scratch[end] = Torn
    /\ Size(os.files) <= DiskSize
\* The words of a command line that fits come back, and one that does not is noticed
\* unless only the last word is cut.
WordsAgree(words, length) ==
    LET laid == FoldLeft(LAMBDA acc, w : acc \o w \o <<0>>, << >>, words)
        area == [i \in 1 .. length |-> IF i <= Len(laid) THEN laid[i] ELSE 0]
        r == read_command_line(area, Len(words))
        kept(n) == FoldLeft(LAMBDA m, w : m + Len(w) + 1, 0, SubSeq(words, 1, n))
    IN IF \A n \in 0 .. Len(words) - 1 : kept(n) < length
       THEN r # << >> /\ SubSeq(r[1], 1, Len(words) - 1) = SubSeq(words, 1, Len(words) - 1)
            /\ (Len(laid) <= length => r[1] = words)
       ELSE r = << >>
=============================================================================
