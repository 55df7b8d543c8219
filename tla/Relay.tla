------------------------------- MODULE Relay -------------------------------
(***************************************************************************)
(* The relays of utils/squish-pty.c and utils/squish-unix.c, which run a   *)
(* simulator as a child process and copy its console: pipe 1 from standard *)
(* input to the child, pipe 2 from the child to standard output.           *)
(*                                                                         *)
(* A descriptor is open or -1 (closed), what it carries a sequence of      *)
(* bytes.  One ready descriptor is served in a step: a pass of the code's  *)
(* loop that serves several is several steps.                              *)
(***************************************************************************)
EXTENDS Integers, Sequences

CONSTANTS
    BUFSIZ,
    MaxOutput, MaxInput       \* how much the child writes, how much is typed

\* The constant of stdio.h.
RelayAssumption == BUFSIZ \in Nat \ {0}

VARIABLE sq

Bytes(first, last) == [i \in 1 .. last - first + 1 |-> first + i - 1]
Pipe == [in |-> TRUE, out |-> TRUE, buf |-> [i \in 0 .. BUFSIZ - 1 |-> 0], size |-> 0, ofs |-> 0, active |-> FALSE]
Held(p) == [i \in 1 .. p.size |-> p.buf[p.ofs + i - 1]]

\* The parts of a pass that a read and a write of n bytes are.
Fill(p, bytes) ==
    LET n == Len(bytes)
        at == p.ofs + p.size
        buf == [i \in DOMAIN p.buf |-> IF at <= i /\ i < at + n THEN bytes[i - at + 1] ELSE p.buf[i]]
        moved == p.size + n = BUFSIZ /\ p.ofs # 0
    IN [p EXCEPT !.active = TRUE, !.size = @ + n, !.ofs = IF moved THEN 0 ELSE @,
                 !.buf = IF moved THEN [i \in DOMAIN buf |-> buf[(i + p.ofs) % BUFSIZ]] ELSE buf]
\* A mutant: the offset stays where it was.
DrainFrom(p, n) == [p EXCEPT !.ofs = IF p.size = n THEN 0 ELSE @, !.size = @ - n]
Drain(p, n) == [p EXCEPT !.ofs = IF p.size = n THEN 0 ELSE @ + n, !.size = @ - n]

\* What the loop waits for: nothing is typed at the child before it has said something.
Serves(i) == sq.pc = "loop" /\ (i = 1 => sq.pipes[2].active)
Wants(p) == p.in /\ p.size + p.ofs < BUFSIZ
Room(p) == BUFSIZ - p.ofs - p.size
Continues(s) ==
    IF s.kind = "pty" THEN s.pipes[2].in
    ELSE s.pipes[1].in \/ s.pipes[2].in \/ (s.pipes[2].size > 0 /\ s.pipes[2].out)
Looped(s) == IF Continues(s) THEN s ELSE [s EXCEPT !.pc = IF s.kind = "pty" THEN "final" ELSE "accept"]
Min2(a, b) == IF a < b THEN a ELSE b

\* read() with data there.
Read(i) ==
    LET p == sq.pipes[i]
        source == IF i = 1 THEN sq.stdin ELSE sq.wire
    IN /\ Serves(i) /\ Wants(p) /\ source # << >>
       /\ LET n == Min2(Len(source), Room(p))
              s == [sq EXCEPT !.pipes[i] = Fill(p, SubSeq(source, 1, n))]
          IN sq' = IF i = 1 THEN [s EXCEPT !.stdin = SubSeq(source, n + 1, Len(source))]
                   ELSE [s EXCEPT !.wire = SubSeq(source, n + 1, Len(source))]
\* handle_error() of squish-pty.c: end of standard input, or EIO from the terminal.
EndPty(i) ==
    /\ sq.kind = "pty" /\ Serves(i) /\ Wants(sq.pipes[i])
    /\ IF i = 1 THEN sq.stdin = << >> /\ sq.typed = MaxInput ELSE sq.wire = << >> /\ ~ sq.connected
    /\ sq' = Looped([sq EXCEPT !.pipes[i].in = FALSE])
\* handle_error() of squish-unix.c: at the end of the connection relay() returns at once.
EndUnix(i) ==
    /\ sq.kind = "unix" /\ Serves(i) /\ Wants(sq.pipes[i])
    /\ IF i = 1 THEN sq.stdin = << >> /\ sq.typed = MaxInput ELSE sq.wire = << >> /\ ~ sq.connected
    /\ sq' = IF i = 1 THEN Looped([sq EXCEPT !.pipes[1].in = FALSE])
             ELSE [sq EXCEPT !.pc = "accept", !.dropped = @ \o Held(sq.pipes[2])]
Write(i) ==
    LET p == sq.pipes[i] IN
    /\ Serves(i) /\ p.out /\ p.size > 0 /\ (i = 1 /\ sq.kind = "unix" => sq.connected)
    /\ \E n \in 1 .. p.size :
          LET s == [sq EXCEPT !.pipes[i] = Drain(p, n)] IN
          sq' = Looped(IF i = 1 THEN [s EXCEPT !.keyed = @ \o SubSeq(Held(p), 1, n)]
                       ELSE [s EXCEPT !.stdout = @ \o SubSeq(Held(p), 1, n)])
\* Writing to a terminal that is gone: EIO.
WriteFails ==
    /\ sq.kind = "pty" /\ Serves(1) /\ sq.pipes[1].out /\ sq.pipes[1].size > 0 /\ ~ sq.connected
    /\ sq' = [sq EXCEPT !.pipes[1].out = FALSE]
\* Writing to a socket whose other end is closed: SIGPIPE, which squish-unix does not
\* catch, kills it.
BrokenPipe ==
    /\ sq.kind = "unix" /\ Serves(1) /\ sq.pipes[1].out /\ sq.pipes[1].size > 0 /\ ~ sq.connected
    /\ sq' = [sq EXCEPT !.pc = "exited", !.result = "sigpipe"]
\* select() reports dead_child_fd, or pselect() is interrupted.
ChildSeen == sq.pc = "loop" /\ sq.signalled /\ sq' = [sq EXCEPT !.pc = "final"]
\* The final relaying: the buffer, then what is still to be read, then the end.
Final ==
    LET p == sq.pipes[2] IN
    /\ sq.pc = "final"
    /\ sq' = IF p.size > 0 THEN [sq EXCEPT !.stdout = @ \o Held(p), !.pipes[2].size = 0, !.pipes[2].ofs = 0]
             ELSE IF p.in /\ sq.wire # << >>
             THEN LET n == Min2(Len(sq.wire), BUFSIZ) IN
                  [sq EXCEPT !.pipes[2] = Fill([p EXCEPT !.ofs = 0], SubSeq(sq.wire, 1, n)),
                             !.wire = SubSeq(@, n + 1, Len(@))]
             ELSE [sq EXCEPT !.pc = "done"]
\* Any call may fail: those of main() before fork(), and then there is no child, and
\* select(), pselect(), accept(), read() and write() after it.
fail_io == /\ sq.pc \in {"setup", "loop", "final", "accept"}
           /\ sq' = [sq EXCEPT !.pc = "exited", !.result = "failed"]
\* The rest of main() before the relaying: squish-pty has the terminal open, squish-unix
\* goes on to wait for a connection.
SetupPty == /\ sq.pc = "setup" /\ sq.kind = "pty"
            /\ sq' = [sq EXCEPT !.alive = TRUE, !.connected = TRUE, !.pc = "loop"]
SetupUnix == /\ sq.pc = "setup" /\ sq.kind = "unix"
             /\ sq' = [sq EXCEPT !.alive = TRUE, !.pc = "accept"]
\* The end of main() of squish-pty.c: waitpid() does not wait, and a child that can be
\* reaped is imitated.
Exit ==
    /\ sq.pc = "done"
    /\ sq' = [sq EXCEPT !.pc = "exited",
                        !.result = IF sq.kind = "pty" /\ ~ sq.alive THEN sq.died ELSE "zero"]
\* main() of squish-unix.c between connections: a new one, or the child's death.
Accept ==
    /\ sq.pc = "accept"
    /\ \/ sq.signalled /\ sq' = [sq EXCEPT !.pc = "done"]
       \/ /\ ~ sq.signalled /\ sq.connected
          /\ sq' = [sq EXCEPT !.pc = "loop", !.pipes = <<Pipe, Pipe>>]

-----------------------------------------------------------------------------
(* The child, which may also drop and renew its connection (a socket's),   *)
(* the typist, and SIGCHLD.                                                *)
ChildWrites == /\ sq.alive /\ sq.connected /\ sq.written < MaxOutput
               /\ sq' = [sq EXCEPT !.written = @ + 1, !.wire = Append(@, sq.written + 1)]
ChildDies == /\ sq.alive
             /\ \E how \in {"status", "signal"} :
                   sq' = [sq EXCEPT !.alive = FALSE, !.connected = FALSE, !.died = how]
\* The kernel closes a process's descriptors before its parent can reap it.
Disconnects == sq.alive /\ sq.connected /\ sq' = [sq EXCEPT !.connected = FALSE]
Connects == sq.kind = "unix" /\ sq.alive /\ ~ sq.connected /\ sq.wire = << >> /\ sq.pc = "accept"
            /\ sq' = [sq EXCEPT !.connected = TRUE]
sigchld_handler == sq.died # "no" /\ ~ sq.signalled /\ sq' = [sq EXCEPT !.signalled = TRUE]
Types == sq.typed < MaxInput /\ sq' = [sq EXCEPT !.typed = @ + 1, !.stdin = Append(@, sq.typed + 1)]

RelayStart(kind) ==
    [kind |-> kind, pipes |-> <<Pipe, Pipe>>, pc |-> "setup", stdin |-> << >>, wire |-> << >>, stdout |-> << >>,
     keyed |-> << >>, dropped |-> << >>, typed |-> 0, written |-> 0, alive |-> FALSE, connected |-> FALSE,
     died |-> "no", signalled |-> FALSE, result |-> "none"]
Relays == \/ \E i \in {1, 2} : Read(i) \/ Write(i) \/ EndPty(i) \/ EndUnix(i)
          \/ WriteFails \/ BrokenPipe \/ ChildSeen \/ Final \/ Accept \/ SetupPty \/ SetupUnix \/ Exit
RelayNext == Relays \/ fail_io \/ ChildWrites \/ ChildDies \/ Disconnects \/ Connects \/ sigchld_handler \/ Types
RelaySpec == (\E kind \in {"pty", "unix"} : sq = RelayStart(kind)) /\ [][RelayNext]_sq

-----------------------------------------------------------------------------
\* squish-pty.c, squish-unix.c: the console is copied in order and without loss through
\* a buffer that fills and drains, and when the relay ends everything the child wrote
\* has been printed, whether its death is seen before, during or after its last output.
\* The losses are these and no others: a call that fails ends either relay (fail_io), and
\* input typed after the socket was closed ends squish-unix by SIGPIPE (line 219), with
\* what the pipe and the socket hold; squish-unix drops what it holds when a connection
\* ends (line 214), and what comes on a connection it has not accepted when the child
\* dies (line 314).  squish-pty dies "in the same fashion" as the child, unless the
\* terminal was closed first.
RelayExact ==
    /\ \A i \in {1, 2} : sq.pipes[i].ofs + sq.pipes[i].size <= BUFSIZ
    /\ sq.kind = "pty" =>
          /\ sq.stdout \o Held(sq.pipes[2]) \o sq.wire = Bytes(1, sq.written)
          /\ sq.keyed \o Held(sq.pipes[1]) \o sq.stdin = Bytes(1, sq.typed)
          /\ sq.pc = "exited" /\ sq.result # "failed" =>
                /\ sq.stdout = Bytes(1, sq.written)
                /\ sq.pipes[2].in => sq.result = sq.died
    /\ sq.kind = "unix" =>
          /\ \A i, j \in DOMAIN sq.stdout : i < j => sq.stdout[i] < sq.stdout[j]
          /\ sq.dropped = << >> /\ sq.pc # "accept" =>
                sq.stdout \o Held(sq.pipes[2]) \o sq.wire = Bytes(1, sq.written)
          /\ sq.pc = "exited" /\ sq.result \notin {"failed", "sigpipe"} =>
                (sq.dropped = << >> /\ sq.wire = << >> => sq.stdout = Bytes(1, sq.written))
=============================================================================
