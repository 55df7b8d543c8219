------------------------------ MODULE Terminal ------------------------------
(***************************************************************************)
(* Console input and output of pintos2: lib/kernel/console.c on            *)
(* devices/serial.c, and devices/input.c fed by the serial port and the    *)
(* keyboard, both on the interrupt queues of devices/intq.c.               *)
(*                                                                         *)
(* The code between intr_disable() and the next thread_block() or          *)
(* intr_set_level() is one step; an interrupt handler is one step.  A lock *)
(* is taken when it is free (module Synch has the locks themselves).  The  *)
(* UART holds one byte in each direction.                                  *)
(***************************************************************************)
EXTENDS Integers, Sequences, FiniteSets

CONSTANTS
    Readers, Writers,
    Main,             \* the writer that boots
    Script,             \* what each writer does: "acquire", "release" or a byte
    INTQ_BUFSIZE,
    MaxArrivals, MaxKeys, MaxPrints,   \* bytes from the line, keys, bytes printed by handlers
    NoThread

\* How often a writer has the console at a place of its text: pairs of acquire_console()
\* and release_console() are nested.
Nesting(w, i) == Cardinality({j \in 1 .. i - 1 : Script[w][j] = "acquire"})
                     - Cardinality({j \in 1 .. i - 1 : Script[w][j] = "release"})

\* The text of a writer is one call of vprintf(), puts(), putbuf() or putchar(), with what
\* they call: acquired first, and released in the end at the earliest.
TerminalAssumption ==
    /\ INTQ_BUFSIZE \in Nat \ {0, 1} /\ NoThread \notin Readers \union Writers
    /\ Main \notin Readers /\ "handler" \notin Writers /\ "panic" \notin Writers
    /\ \A w \in Writers :
          /\ Len(Script[w]) \in Nat
          /\ \A i \in 1 .. Len(Script[w]) : IF i = 1 THEN Script[w][i] = "acquire" ELSE Nesting(w, i) > 0

VARIABLE term

next(pos) == (pos + 1) % INTQ_BUFSIZE
intq_init == [buf |-> [i \in 0 .. INTQ_BUFSIZE - 1 |-> << >>], head |-> 0, tail |-> 0,
              lock |-> NoThread, not_full |-> NoThread, not_empty |-> NoThread]
intq_empty(q) == q.head = q.tail
intq_full(q) == next(q.head) = q.tail

\* signal(): the waiter of the queue, if any, is made ready.
signal(s, waiter) == IF waiter = NoThread THEN s ELSE [s EXCEPT !.pc[waiter] = "woken"]

\* The ends of intq_getc() and intq_putc(), once the queue named q is not empty, not full.
Dequeued(q) == [q EXCEPT !.tail = next(q.tail), !.not_full = NoThread]
Enqueued(q, byte) ==
    [q EXCEPT !.buf = [q.buf EXCEPT ![q.head] = byte], !.head = next(q.head), !.not_empty = NoThread]
intq_getc(s, q) == signal([s EXCEPT ![q] = Dequeued(s[q])], s[q].not_full)
intq_putc(s, q, byte) == signal([s EXCEPT ![q] = Enqueued(s[q], byte)], s[q].not_empty)
Oldest(s, q) == s[q].buf[s[q].tail]

\* wait(), with the queue's lock held: its assertion, and the only waiter's place.
wait(s, q, waiter, t) ==
    LET asserted == IF waiter = "not_empty" THEN intq_empty(s[q]) ELSE intq_full(s[q])
    IN IF asserted THEN [s EXCEPT ![q] = [s[q] EXCEPT !.lock = t, ![waiter] = t], !.pc[t] = "waiting"]
       ELSE [s EXCEPT !.failed = TRUE]
\* The loop of intq_getc() or intq_putc() when the condition does not hold.
Await(s, q, waiter, t) ==
    IF s[q].lock = NoThread THEN wait(s, q, waiter, t) ELSE [s EXCEPT !.pc[t] = "locking"]
\* What a thread that wait() returns to does before it looks at the queue again.
Resume(s, q, t) == IF s.pc[t] = "woken" THEN [s EXCEPT ![q] = [s[q] EXCEPT !.lock = NoThread], !.pc[t] = "ready"] ELSE s

-----------------------------------------------------------------------------
(* devices/serial.c                                                        *)
write_ier(s) ==
    [s EXCEPT !.ier = (IF intq_empty(s.txq) THEN {} ELSE {"XMIT"})
                          \union (IF intq_full(s.buffer) THEN {} ELSE {"RECV"})]
serial_notify(s) == IF s.mode = "QUEUE" THEN write_ier(s) ELSE s
\* The byte in the holding register leaves before the next one is written to it.
putc_poll(s, byte) == [s EXCEPT !.line = @ \o s.thr, !.thr = <<byte>>]
init_poll(s) == IF s.mode = "UNINIT" THEN [s EXCEPT !.txq = intq_init, !.ier = {}, !.mode = "POLL"] ELSE s
PollOldest(s) == putc_poll(intq_getc(s, "txq"), Oldest(s, "txq"))
\* serial_flush(): a turn of its loop.  The queue is empty after as many as it has places.
FlushTurn(s) == IF intq_empty(s.txq) THEN s ELSE PollOldest(s)
serial_flush(s) ==
    LET turn[n \in 0 .. INTQ_BUFSIZE] == IF n = 0 THEN s ELSE FlushTurn(turn[n - 1])
    IN turn[INTQ_BUFSIZE]

\* serial_putc() by a thread with interrupts on: it may wait for room.
serial_putc(s, t, byte) ==
    LET r == Resume(s, "txq", t) IN
    IF s.mode # "QUEUE" THEN putc_poll(init_poll(s), byte)
    ELSE IF intq_full(r.txq) THEN Await(r, "txq", "not_full", t)
    ELSE write_ier(intq_putc(r, "txq", byte))
\* A mutant: the new byte is polled out, not the oldest.
PutcOffOvertakes(s, byte) ==
    IF s.mode # "QUEUE" \/ intq_full(s.txq) THEN putc_poll(init_poll(s), byte)
    ELSE write_ier(intq_putc(s, "txq", byte))
\* serial_putc() with interrupts off: it makes room.
PutcOff(s, byte) ==
    LET r == IF intq_full(s.txq) THEN PollOldest(s) ELSE s
    IN IF s.mode # "QUEUE" THEN putc_poll(init_poll(s), byte)
       ELSE write_ier(intq_putc(r, "txq", byte))

input_putc(s, key) == serial_notify(intq_putc(s, "buffer", key))

-----------------------------------------------------------------------------
(* Threads.  pc is "ready", "locking" for a queue's lock, "waiting" in     *)
(* wait(), "woken" from it; at is a writer's place in its text.            *)
Threads == Readers \union Writers
Runnable(t) == ~ term.failed /\ ~ term.panicked /\ term.pc[t] \in {"ready", "woken"}
Done(w) == term.at[w] > Len(Script[w])
MayRun(t) == term.mode = "QUEUE" \/ t = Main

\* A byte is known by its writer and its place.
Putc(w) ==
    LET byte == <<w, term.at[w]>>
        s == serial_putc(term, w, byte)
    IN term' = IF s.pc[w] # "ready" THEN s
               ELSE [s EXCEPT !.sent = Append(@, byte), !.at[w] = @ + 1]
acquire_console(w) ==
    /\ term.console \in {NoThread, w}
    /\ term' = IF term.console = w THEN [term EXCEPT !.depth = @ + 1, !.at[w] = @ + 1]
               ELSE [term EXCEPT !.console = w, !.at[w] = @ + 1]
release_console(w) ==
    term' = IF term.depth > 0 THEN [term EXCEPT !.depth = @ - 1, !.at[w] = @ + 1]
            ELSE [term EXCEPT !.console = NoThread, !.at[w] = @ + 1]
Writes(w) ==
    /\ Runnable(w) /\ ~ Done(w) /\ MayRun(w)
    /\ CASE Script[w][term.at[w]] = "acquire" -> acquire_console(w)
         [] Script[w][term.at[w]] = "release" -> release_console(w)
         [] OTHER -> Putc(w)

input_getc(r) ==
    LET s == Resume(term, "buffer", r) IN
    term' = IF intq_empty(s.buffer) THEN Await(s, "buffer", "not_empty", r)
            ELSE serial_notify([intq_getc(s, "buffer") EXCEPT !.taken = Append(@, Oldest(s, "buffer"))])
Reads(r) == Runnable(r) /\ MayRun(r) /\ input_getc(r)

\* lock_acquire() of a queue's lock returns: wait() comes next, whatever the queue holds now.
Locked(t) ==
    LET q == IF t \in Readers THEN "buffer" ELSE "txq" IN
    /\ ~ term.failed /\ ~ term.panicked /\ term.pc[t] = "locking" /\ term[q].lock = NoThread
    /\ term' = wait(term, q, IF t \in Readers THEN "not_empty" ELSE "not_full", t)

serial_init_queue ==
    /\ ~ term.panicked /\ term.mode # "QUEUE"
    /\ term' = write_ier([init_poll(term) EXCEPT !.mode = "QUEUE"])

-----------------------------------------------------------------------------
(* Interrupts and hardware.                                                *)
Interruptible == ~ term.failed /\ ~ term.panicked

ReceiveByte(s) ==
    IF ~ intq_full(s.buffer) /\ s.rbr # << >>
    THEN input_putc([s EXCEPT !.rbr = << >>, !.accepted = @ \o s.rbr], s.rbr[1]) ELSE s
SendByte(s) ==
    IF ~ intq_empty(s.txq) /\ s.thr = << >>
    THEN [intq_getc(s, "txq") EXCEPT !.thr = <<Oldest(s, "txq")>>] ELSE s
serial_interrupt ==
    /\ Interruptible /\ term.mode = "QUEUE"
    /\ \/ "RECV" \in term.ier /\ term.rbr # << >>
       \/ "XMIT" \in term.ier /\ term.thr = << >>
    /\ term' = write_ier(SendByte(ReceiveByte(term)))

\* A key that finds the buffer full is lost.
keyboard_interrupt ==
    /\ Interruptible /\ term.keys < MaxKeys
    /\ LET key == <<"key", term.keys + 1>>
           s == [term EXCEPT !.keys = @ + 1]
       IN term' = IF intq_full(s.buffer) THEN s
                  ELSE input_putc([s EXCEPT !.accepted = Append(@, key)], key)

\* An interrupt handler prints a byte: no lock, interrupts off.
HandlerPrints ==
    /\ Interruptible /\ term.prints < MaxPrints
    /\ LET byte == <<"handler", term.prints + 1>>
       IN term' = [PutcOff(term, byte) EXCEPT !.sent = Append(@, byte), !.prints = @ + 1]

\* debug_panic(), from a failed assertion or elsewhere, with interrupts off to the end.
debug_panic ==
    /\ ~ term.panicked
    /\ LET byte == <<"panic", 1>>
       IN term' = serial_flush([PutcOff(term, byte) EXCEPT !.sent = Append(@, byte), !.panicked = TRUE])

Arrive ==
    /\ term.rbr = << >> /\ term.arrived < MaxArrivals
    /\ term' = [term EXCEPT !.rbr = <<<<"line", term.arrived + 1>>>>, !.arrived = @ + 1]
Depart == term.thr # << >> /\ term' = [term EXCEPT !.line = @ \o term.thr, !.thr = << >>]

TerminalStart ==
    [mode |-> "UNINIT", ier |-> {}, txq |-> intq_init, buffer |-> intq_init,
     thr |-> << >>, rbr |-> << >>, line |-> << >>, sent |-> << >>,
     accepted |-> << >>, taken |-> << >>,
     pc |-> [t \in Threads |-> "ready"], at |-> [w \in Writers |-> 1],
     console |-> NoThread, depth |-> 0, arrived |-> 0, keys |-> 0, prints |-> 0,
     failed |-> FALSE, panicked |-> FALSE]
TerminalInit == term = TerminalStart
TerminalNext ==
    \/ \E w \in Writers : Writes(w)
    \/ \E r \in Readers : Reads(r)
    \/ \E t \in Threads : Locked(t)
    \/ serial_init_queue \/ serial_interrupt \/ keyboard_interrupt \/ HandlerPrints \/ debug_panic
    \/ Arrive \/ Depart
TerminalSpec == TerminalInit /\ [][TerminalNext]_term

-----------------------------------------------------------------------------
Contents(q) == [i \in 1 .. ((q.head - q.tail) % INTQ_BUFSIZE) |-> q.buf[(q.tail + i - 1) % INTQ_BUFSIZE]]

\* intq.c, serial.c, input.c: no byte is lost, doubled or overtaken on its way, whether
\* it went through the queue, was polled out by a handler or flushed by a panic, and
\* after a panic nothing is left in the queue.
BytesInOrder ==
    /\ term.line \o term.thr \o Contents(term.txq) = term.sent
    /\ term.taken \o Contents(term.buffer) = term.accepted
    /\ term.panicked => intq_empty(term.txq)

\* console.c: the bytes of a thread's output are not mixed with another thread's, printf()
\* inside printf() included; only handlers come between.
LinesWhole ==
    \A i, j \in DOMAIN term.sent : term.sent[i][1] \in Writers /\ i < j /\ term.sent[i][1] = term.sent[j][1] =>
        \A k \in i .. j : term.sent[k][1] \in Writers => term.sent[k][1] = term.sent[i][1]

\* intq.c, serial.c, console.c: no byte is lost, doubled or overtaken between a thread and
\* the line, whether it went through the queue, was polled out by a handler or flushed by
\* a panic, and a thread's output between acquire_console() and release_console() is not
\* mixed with another's.
ConsoleExact == BytesInOrder /\ LinesWhole
=============================================================================
