------------------------------- MODULE Loader -------------------------------
(***************************************************************************)
(* How a pintos2 user program comes into memory and talks to the kernel:   *)
(* load() and the stack start_process() builds (userprog/process.c), the   *)
(* system call stubs and the console of lib/user, and where                *)
(* syscall_handler() looks for arguments.  Addresses have WordBits bits    *)
(* (32 in the code), a page PGSIZE bytes, user memory ends at PHYS_BASE.   *)
(***************************************************************************)
EXTENDS Integers, Sequences, SequencesExt

CONSTANTS WordBits, PGSIZE, PHYS_BASE, ConsoleBuf

Wrap(n) == n % 2 ^ WordBits
is_user_vaddr(va) == va < PHYS_BASE
Page(va) == (va \div PGSIZE) * PGSIZE
ROUND_UP(n) == Wrap(((n + PGSIZE - 1) \div PGSIZE) * PGSIZE)

-----------------------------------------------------------------------------
(* An executable is its bytes, its program headers and whether its header  *)
(* is one of an ELF program for this machine; a program header names a     *)
(* type, an offset in the file, an address, two sizes and a flag.          *)
validate_segment(p, file) ==
    /\ p.offset % PGSIZE = p.vaddr % PGSIZE
    /\ p.offset <= Len(file.bytes)
    /\ p.memsz >= p.filesz /\ p.memsz # 0
    /\ is_user_vaddr(p.vaddr) /\ is_user_vaddr(Wrap(p.vaddr + p.memsz))
    /\ Wrap(p.vaddr + p.memsz) >= p.vaddr
    /\ p.vaddr >= PGSIZE

\* m is the process being loaded: what its pages hold and whether it may write them, the
\* frames left in the user pool, those it took and has not given back, and whether the
\* load still succeeds.
Fail(m) == [m EXCEPT !.ok = FALSE]
install_page(m, upage, content, writable) ==
    IF upage \in DOMAIN m.pages THEN [Fail(m) EXCEPT !.taken = @ - 1, !.frames = @ + 1]
    ELSE [m EXCEPT !.pages = @ @@ (upage :> [bytes |-> content, writable |-> writable])]
palloc_get_page(m) ==
    IF m.frames = 0 THEN Fail(m) ELSE [m EXCEPT !.frames = @ - 1, !.taken = @ + 1]
palloc_free_page(m) == [m EXCEPT !.frames = @ + 1, !.taken = @ - 1]
RECURSIVE load_segment(_, _, _, _, _, _, _)
load_segment(m, file, ofs, upage, read_bytes, zero_bytes, writable) ==
    IF ~ m.ok \/ (read_bytes = 0 /\ zero_bytes = 0) THEN m
    ELSE LET page_read == IF read_bytes < PGSIZE THEN read_bytes ELSE PGSIZE
             page_zero == PGSIZE - page_read
             got == palloc_get_page(m)
             size == Len(file.bytes)
             content == SubSeq(file.bytes, ofs + 1, IF ofs + page_read < size THEN ofs + page_read ELSE size)
         IN IF ~ got.ok THEN got
            ELSE IF Len(content) < page_read THEN Fail(palloc_free_page(got))
            ELSE load_segment(install_page(got, upage, content \o [i \in 1 .. page_zero |-> 0], writable),
                              file, ofs + page_read, Wrap(upage + PGSIZE), read_bytes - page_read,
                              zero_bytes - page_zero, writable)
LoadHeader(m, file, p) ==
    IF p.type \in {"dynamic", "interp", "shlib"} THEN Fail(m)
    ELSE IF p.type # "load" THEN m
    ELSE IF ~ validate_segment(p, file) THEN Fail(m)
    ELSE LET page_offset == p.vaddr % PGSIZE
             read_bytes == IF p.filesz > 0 THEN page_offset + p.filesz ELSE 0
         IN load_segment(m, file, Page(p.offset), Page(p.vaddr), read_bytes,
                         ROUND_UP(page_offset + p.memsz) - read_bytes, p.writable)
setup_stack(m) ==
    LET got == palloc_get_page(m)
    IN IF ~ got.ok THEN got
       ELSE install_page(got, PHYS_BASE - PGSIZE, [i \in 1 .. PGSIZE |-> 0], TRUE)
RECURSIVE LoadHeaders(_, _, _)
LoadHeaders(m, file, i) ==
    IF ~ m.ok THEN m ELSE IF i > Len(file.headers) THEN setup_stack(m)
    ELSE LoadHeaders(LoadHeader(m, file, file.headers[i]), file, i + 1)
load(file, frames) ==
    LET m == [pages |-> << >>, frames |-> frames, taken |-> 0, ok |-> TRUE]
    IN IF ~ file.elf THEN Fail(m) ELSE LoadHeaders(m, file, 1)

-----------------------------------------------------------------------------
(* start_process(): the words of the command line on the stack, which      *)
(* begins at byte 0 and ends at PGSIZE: lower bytes are not mapped.        *)
RECURSIVE strtok_r(_, _)
strtok_r(line, word) ==
    LET rest == IF word = << >> THEN << >> ELSE <<word>> IN
    IF line = << >> THEN rest
    ELSE IF Head(line) = " " THEN rest \o strtok_r(Tail(line), << >>)
    ELSE strtok_r(Tail(line), Append(word, Head(line)))
Write(stack, at, bytes) ==
    [stack EXCEPT !.mem = [a \in DOMAIN @ |-> IF a - at + 1 \in DOMAIN bytes THEN bytes[a - at + 1] ELSE @[a]],
                  !.fault = @ \/ (bytes # << >> /\ at < 0)]
Bytes(n) == <<<<n % 256>>, <<n \div 256>>, <<0>>, <<0>>>>
Text(word) == [i \in 1 .. Len(word) + 1 |-> IF i > Len(word) THEN <<0>> ELSE <<word[i]>>]
RECURSIVE PushWords(_, _, _, _)
PushWords(stack, words, stack_top, at) ==
    IF words = << >> THEN stack
    ELSE PushWords(Write(Write(stack, stack_top, Text(Head(words))), at, Bytes(stack_top)),
                   Tail(words), stack_top + Len(Head(words)) + 1, at + 4)
start_process(line) ==
    LET words == strtok_r(line, << >>)
        arg_count == Len(words)
        arg_length == FoldLeft(LAMBDA n, w : n + Len(w) + 1, 0, words)
        word_align == (4 - (arg_length % 4)) % 4
        stack_top == PGSIZE - arg_length
        null_at == stack_top - word_align - 4
        argv0_addr == null_at - 4 * arg_count
        empty == [mem |-> [a \in 0 .. PGSIZE - 1 |-> <<0>>], fault |-> FALSE]
        zeroed == Write(empty, null_at, [i \in 1 .. word_align + 4 |-> <<0>>])
        pushed == PushWords(zeroed, words, stack_top, argv0_addr)
        argv == Write(pushed, argv0_addr - 4, Bytes(argv0_addr))
        argc == Write(argv, argv0_addr - 8, Bytes(arg_count))
    IN [stack |-> Write(argc, argv0_addr - 12, Bytes(0)), esp |-> argv0_addr - 12]

-----------------------------------------------------------------------------
(* lib/user/syscall.c pushes the arguments, the last one first, and the    *)
(* number; the stack is the sequence of words from esp upward.             *)
SYS == [halt |-> 0, exit |-> 1, exec |-> 2, wait |-> 3, create |-> 4, remove |-> 5, open |-> 6,
        filesize |-> 7, read |-> 8, write |-> 9, seek |-> 10, tell |-> 11, close |-> 12,
        mmap |-> 13, munmap |-> 14, chdir |-> 15, mkdir |-> 16, readdir |-> 17, isdir |-> 18, inumber |-> 19]
syscall0(number) == <<number>>
syscall1(number, arg0) == <<number, arg0>>
syscall2(number, arg0, arg1) == <<number, arg0, arg1>>
syscall3(number, arg0, arg1, arg2) == <<number, arg0, arg1, arg2>>
Stub(call, a) ==
    CASE call = "halt" -> syscall0(SYS[call])
      [] call \in {"exit", "exec", "wait", "remove", "open", "filesize", "tell", "close",
                 "munmap", "chdir", "mkdir", "isdir", "inumber"} -> syscall1(SYS[call], a[1])
      [] call \in {"create", "seek", "mmap", "readdir"} -> syscall2(SYS[call], a[1], a[2])
      [] call \in {"read", "write"} -> syscall3(SYS[call], a[1], a[2], a[3])
\* syscall_handler(): the offset from esp that catch_addr_error() is called with, and the
\* offsets read; a number it does not know (13 and up) changes nothing.
Offsets(number) ==
    CASE number = 0 \/ number > 12 -> << >>
      [] number \in {4, 10} -> <<4, 8>>
      [] number \in {8, 9} -> <<4, 8, 12>>
      [] OTHER -> <<4>>
is_valid_addr(mapped, addr) == is_user_vaddr(addr) /\ Page(addr) \in mapped
syscall_handler(stack, esp, mapped) ==
    LET offsets == Offsets(stack[1])
        checked == {0} \union (IF offsets = << >> THEN {} ELSE {offsets[Len(offsets)]})
    IN [args |-> [i \in DOMAIN offsets |-> stack[offsets[i] \div 4 + 1]],
        killed |-> \E o \in checked : ~ is_valid_addr(mapped, esp + o),
        read |-> {0} \union {offsets[i] : i \in DOMAIN offsets}]

\* lib/user/console.c: characters collect in a buffer; aux.written is the sequence of the
\* write() calls.
flush(aux) ==
    IF aux.buf = << >> THEN aux ELSE [aux EXCEPT !.written = Append(@, <<aux.handle, aux.buf>>), !.buf = << >>]
add_char(aux, c) ==
    LET with == [aux EXCEPT !.buf = Append(@, c)]
        after == IF Len(with.buf) >= ConsoleBuf THEN flush(with) ELSE with
    IN [after EXCEPT !.char_cnt = @ + 1]
vhprintf(handle, text) == flush(FoldLeft(add_char, [handle |-> handle, buf |-> << >>, written |-> << >>, char_cnt |-> 0], text))
hprintf(handle, text) == vhprintf(handle, text)
STDOUT_FILENO == 1
vprintf(text) == vhprintf(STDOUT_FILENO, text)
putchar(c) == <<<<STDOUT_FILENO, <<c>>>>>>
puts(s) == <<<<STDOUT_FILENO, s>>>> \o putchar("newline")

-----------------------------------------------------------------------------
\* A program that loads has every byte of its segments at its address and zeros behind
\* them, a stack, no page at 0 or in the kernel, a read-only page where the file says so;
\* a load fails only for a reason, and every frame taken is then in the page directory,
\* where process_exit() finds it.
LoadAgrees(file, frames) ==
    LET m == load(file, frames)
        segments == {file.headers[i] : i \in {j \in DOMAIN file.headers : file.headers[j].type = "load"}}
        Byte(va) == m.pages[Page(va)].bytes[va - Page(va) + 1]
        Pages(p) == {Page(p.vaddr + i) : i \in 0 .. p.memsz - 1}
        bad == \/ ~ file.elf
               \/ \E i \in DOMAIN file.headers : file.headers[i].type \in {"dynamic", "interp", "shlib"}
               \/ \E p \in segments : ~ validate_segment(p, file) \/ p.offset + p.filesz > Len(file.bytes)
    IN /\ m.taken + m.frames = frames /\ m.taken = Cardinality(DOMAIN m.pages)
       /\ \A page \in DOMAIN m.pages : page >= PGSIZE /\ page < PHYS_BASE /\ Len(m.pages[page].bytes) = PGSIZE
       /\ m.ok => /\ ~ bad
                  /\ m.pages[PHYS_BASE - PGSIZE] = [bytes |-> [i \in 1 .. PGSIZE |-> 0], writable |-> TRUE]
                  /\ \A p \in segments :
                        \A i \in 0 .. p.memsz - 1 :
                           /\ Byte(p.vaddr + i) = IF i < p.filesz THEN file.bytes[p.offset + i + 1] ELSE 0
                           /\ m.pages[Page(p.vaddr + i)].writable = p.writable
       /\ ~ m.ok => \/ bad \/ frames <= 1 + FoldSet(LAMBDA p, n : n + Cardinality(Pages(p)), 0, segments)
                    \/ \E i, j \in DOMAIN file.headers :
                          i # j /\ Pages(file.headers[i]) \intersect Pages(file.headers[j]) # {}
                    \/ \E p \in segments : PHYS_BASE - PGSIZE \in Pages(p)
\* main() finds its arguments where the calling convention has them, unless they do not
\* fit the page.
ArgumentsAgree(line) ==
    LET r == start_process(line)
        words == strtok_r(line, << >>)
        Word(a) == r.stack.mem[a][1] + 256 * r.stack.mem[a + 1][1]
        argv == Word(r.esp + 8)
    IN ~ r.stack.fault =>
          /\ r.esp >= 0 /\ r.esp % 4 = 0
          /\ Word(r.esp) = 0 /\ Word(r.esp + 4) = Len(words) /\ Word(argv + 4 * Len(words)) = 0
          /\ \A i \in DOMAIN words :
                LET at == Word(argv + 4 * (i - 1))
                IN \A n \in 1 .. Len(words[i]) + 1 : r.stack.mem[at + n - 1] = Text(words[i])[n]
\* The handler finds the arguments the stub was given, and kills the process if a page it
\* would read, on an aligned stack, is not mapped.
CallAgrees(call, args, esp) ==
    \A mapped \in SUBSET {Page(esp), Page(esp + 16)} :
       LET r == syscall_handler(Stub(call, args), esp, mapped) IN
       /\ r.args = SubSeq(args, 1, Len(r.args))
       /\ Len(r.args) = IF SYS[call] > 12 THEN 0 ELSE Len(Stub(call, args)) - 1
       /\ esp % 4 = 0 => r.killed = \E o \in r.read : \E b \in 0 .. 3 : Page(esp + o + b) \notin mapped
\* What is printed is written, once, in order, in pieces that fit the buffer.
PrintAgrees(text) ==
    LET Joined(writes) == FoldLeft(LAMBDA acc, w : acc \o w[2], << >>, writes)
        aux == hprintf(2, text)
    IN /\ Joined(aux.written) = text
       /\ aux.char_cnt = Len(text) /\ aux.buf = << >>
       /\ \A i \in DOMAIN aux.written :
             aux.written[i][1] = 2 /\ aux.written[i][2] # << >> /\ Len(aux.written[i][2]) <= ConsoleBuf
       /\ Joined(puts(text)) = Joined(vprintf(Append(text, "newline")).written)
=============================================================================
