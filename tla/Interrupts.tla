---------------------------- MODULE Interrupts ----------------------------
(***************************************************************************)
(* Interrupt handling of pintos2 threads/interrupt.c: the interrupt flag,  *)
(* the descriptor table, intr_handler() and the two 8259A controllers.     *)
(*                                                                         *)
(* Vectors 32 .. 39 are the master's lines, 40 .. 47 the slave's, which    *)
(* is wired to line 2 of the master.  A controller delivers no line while  *)
(* one of the same or a higher priority is in service, which it is from    *)
(* delivery to the end-of-interrupt command.  A thread's kernel stack is a *)
(* sequence of frames: an interrupt's, or a thread_yield()'s.              *)
(***************************************************************************)
EXTENDS Integers, Sequences

CONSTANTS
    KThreads,         \* the kernel's threads
    Lines,            \* the external vectors devices raise
    Handled,          \* those some driver registers a handler for
    MaxRaises         \* how many interrupts devices raise

VARIABLE cpu

\* External interrupts are the controllers' sixteen lines, and drivers register no others.
InterruptsAssumption ==
    KThreads # {} /\ Lines \subseteq 32 .. 47 /\ Handled \subseteq 32 .. 47

First == CHOOSE t \in KThreads : TRUE
Top(t) == cpu.frames[t][Len(cpu.frames[t])]
Pop(s) == SubSeq(s, 1, Len(s) - 1)
Running(t) == ~ cpu.failed /\ cpu.current = t
\* intr_context().
intr_context == cpu.in_external_intr
InHandler(t) == cpu.frames[t] # << >> /\ Top(t).kind \in {"external", "handled"}

\* intr_enable() and intr_disable(): the assertion of the first.
intr_enable(s) == IF s.in_external_intr THEN [s EXCEPT !.failed = TRUE] ELSE [s EXCEPT !.flag = TRUE]
intr_disable(s) == [s EXCEPT !.flag = FALSE]
intr_set_level(s, on) == IF on THEN intr_enable(s) ELSE intr_disable(s)

-----------------------------------------------------------------------------
(* The descriptor table: entering an interrupt gate turns interrupts off,  *)
(* entering a trap gate does not.                                          *)
make_intr_gate(dpl) == [type |-> "interrupt", dpl |-> dpl]
make_trap_gate(dpl) == [type |-> "trap", dpl |-> dpl]
\* intr_init() fills every entry; exception.c and syscall.c then register theirs.
intr_init == [v \in Lines \union {13, 14, 39, 47, 48} |-> make_intr_gate(0)]
register_handler(s, v, dpl, on) ==
    IF v \in s.handlers THEN [s EXCEPT !.failed = TRUE]
    ELSE [s EXCEPT !.handlers = @ \union {v},
                   !.idt[v] = IF on THEN make_trap_gate(dpl) ELSE make_intr_gate(dpl)]
intr_register_ext(s, v) ==
    IF v \in 32 .. 47 THEN register_handler(s, v, 0, FALSE) ELSE [s EXCEPT !.failed = TRUE]
intr_register_int(s, v, dpl, on) ==
    IF v \notin 32 .. 47 THEN register_handler(s, v, dpl, on) ELSE [s EXCEPT !.failed = TRUE]

-----------------------------------------------------------------------------
(* The controllers.                                                        *)
MasterLine(v) == IF v < 40 THEN v - 32 ELSE 2
SlaveLine(v) == v - 40
Passes(v) ==
    /\ \A l \in cpu.master : MasterLine(v) < l
    /\ v >= 40 => \A l \in cpu.slave : SlaveLine(v) < l
Precedes(v, w) == MasterLine(v) < MasterLine(w) \/ (v >= 40 /\ w >= 40 /\ v < w)
\* pic_init() leaves every line unmasked; the next line to be delivered.
pic_init == [master |-> {}, slave |-> {}]
Delivers(v) == v \in cpu.pending /\ Passes(v) /\ \A w \in cpu.pending : Passes(w) => ~ Precedes(w, v)
WithoutFirst(S) == {l \in S : \E k \in S : k < l}
\* A mutant: the slave is not told.
pic_end_of_interruptMaster(s, v) == [s EXCEPT !.master = WithoutFirst(@)]
pic_end_of_interrupt(s, v) ==
    [s EXCEPT !.master = WithoutFirst(@), !.slave = IF v >= 40 THEN WithoutFirst(@) ELSE @]

-----------------------------------------------------------------------------
(* intr_handler().                                                         *)
Enter(s, v) ==
    [s EXCEPT !.frames[s.current] = Append(@, [kind |-> "external", vec |-> v, flag |-> s.flag]),
              !.flag = s.flag /\ s.idt[v].type = "trap"]
\* The start for an external interrupt: two assertions and two flags.
Begin(s) ==
    IF s.flag \/ s.in_external_intr THEN [s EXCEPT !.failed = TRUE]
    ELSE [s EXCEPT !.in_external_intr = TRUE, !.yield_on_return = FALSE]
External(v) ==
    /\ ~ cpu.failed /\ cpu.flag /\ Delivers(v)
    /\ cpu' = Begin(Enter([cpu EXCEPT !.pending = @ \ {v}, !.master = @ \union {MasterLine(v)},
                                      !.slave = IF v >= 40 THEN @ \union {SlaveLine(v)} ELSE @], v))
\* A request that is gone when the processor asks for it comes as the last line, and that
\* line is not in service; the slave's last line still holds line 2 of the master.
SpuriousLine(v) ==
    /\ ~ cpu.failed /\ cpu.flag /\ cpu.raises < MaxRaises /\ Passes(v)
    /\ cpu' = Begin(Enter([cpu EXCEPT !.raises = @ + 1,
                                      !.master = IF v = 47 THEN @ \union {2} ELSE @], v))
\* The handler, which may ask for a yield (thread_tick() does), or none if none is registered.
intr_yield_on_return(s) == IF s.in_external_intr THEN [s EXCEPT !.yield_on_return = TRUE] ELSE [s EXCEPT !.failed = TRUE]
unexpected_interrupt(s) == [s EXCEPT !.unexpected_cnt = @ + 1]
Handler(t) ==
    /\ Running(t) /\ InHandler(t) /\ Top(t).kind = "external"
    /\ LET ran == [cpu EXCEPT !.frames[t][Len(cpu.frames[t])].kind = "handled"]
       IN \/ Top(t).vec \in cpu.handlers /\ cpu' \in {ran, intr_yield_on_return(ran)}
          \/ Top(t).vec \in {39, 47} \ cpu.handlers /\ cpu' = ran
          \/ Top(t).vec \notin {39, 47} \union cpu.handlers /\ cpu' = unexpected_interrupt(ran)
\* thread_yield(): interrupts off, and another thread, which comes out of its own.
thread_yield(s, u) ==
    LET old == s.current
        frames == [s.frames EXCEPT ![old] = Append(@, [kind |-> "yield", vec |-> 0, flag |-> s.flag])]
    IN IF s.in_external_intr THEN [s EXCEPT !.failed = TRUE]
       ELSE intr_set_level([s EXCEPT !.frames = [frames EXCEPT ![u] = Pop(@)], !.current = u],
                           frames[u][Len(frames[u])].flag)
Finish(t) ==
    /\ Running(t) /\ cpu.frames[t] # << >> /\ Top(t).kind = "handled" /\ cpu.in_external_intr
    /\ LET done == pic_end_of_interrupt([cpu EXCEPT !.in_external_intr = FALSE], Top(t).vec)
       IN IF cpu.flag THEN cpu' = [cpu EXCEPT !.failed = TRUE]
          ELSE IF cpu.yield_on_return THEN \E u \in KThreads : cpu' = thread_yield(done, u)
          ELSE cpu' = done
\* iret.
Return(t) ==
    /\ Running(t) /\ cpu.frames[t] # << >> /\ ~ cpu.in_external_intr /\ Top(t).kind # "external"
    /\ cpu' = [cpu EXCEPT !.flag = Top(t).flag, !.frames[t] = Pop(@)]

-----------------------------------------------------------------------------
(* What threads do: interrupts on and off, yields, drivers' registrations, *)
(* and software interrupts and faults of user code.                        *)
InThread(t) == Running(t) /\ ~ InHandler(t)
TurnsOff(t) == InThread(t) /\ cpu.flag /\ cpu' = intr_disable(cpu)
TurnsOn(t) == InThread(t) /\ ~ cpu.flag /\ cpu' = intr_enable(cpu)
Yields(t) == InThread(t) /\ \E u \in KThreads : cpu' = thread_yield(cpu, u)
Registers(t) == InThread(t) /\ \E v \in Handled \ cpu.handlers : cpu' = intr_register_ext(cpu, v)
\* User code may only name a gate of its own privilege; anything else is fault 13.
Software(t, v) ==
    /\ Running(t) /\ cpu.frames[t] = << >> /\ cpu.flag
    /\ LET w == IF cpu.idt[v].dpl = 3 THEN v ELSE 13
       IN cpu' = [cpu EXCEPT !.frames[t] = <<[kind |-> "internal", vec |-> w, flag |-> TRUE]>>,
                             !.flag = cpu.idt[w].type = "trap"]
\* page_fault() is entered with interrupts off, and turns them on.
Fault(t) ==
    /\ Running(t) /\ cpu.frames[t] = << >> /\ cpu.flag
    /\ cpu' = [cpu EXCEPT !.frames[t] = <<[kind |-> "internal", vec |-> 14, flag |-> TRUE]>>,
                          !.flag = cpu.idt[14].type = "trap"]
Raise(v) ==
    /\ cpu.raises < MaxRaises /\ v \notin cpu.pending
    /\ cpu' = [cpu EXCEPT !.pending = @ \union {v}, !.raises = @ + 1]

Booted ==
    intr_register_int(intr_register_int(intr_register_int(
        [flag |-> TRUE, current |-> First, in_external_intr |-> FALSE, yield_on_return |-> FALSE,
         frames |-> [t \in KThreads |-> IF t = First THEN << >>
                                       ELSE <<[kind |-> "yield", vec |-> 0, flag |-> TRUE]>>],
         idt |-> intr_init, handlers |-> {}, pending |-> {}, master |-> pic_init.master,
         slave |-> pic_init.slave, unexpected_cnt |-> 0, raises |-> 0, failed |-> FALSE],
        13, 0, TRUE), 14, 0, FALSE), 48, 3, TRUE)
InterruptsNext ==
    \/ \E v \in Lines : Raise(v) \/ External(v)
    \/ \E v \in {39, 47} : SpuriousLine(v)
    \/ \E t \in KThreads : \/ Handler(t) \/ Finish(t) \/ Return(t) \/ TurnsOff(t) \/ TurnsOn(t)
                          \/ Yields(t) \/ Registers(t) \/ Fault(t)
                          \/ \E v \in DOMAIN cpu.idt : Software(t, v)
InterruptsSpec == cpu = Booted /\ [][InterruptsNext]_cpu

-----------------------------------------------------------------------------
\* interrupt.c: external handlers never nest and run with interrupts off, whoever runs and
\* wherever a thread was left; outside of one nothing is in service, so that every line
\* can be delivered again, also after a spurious interrupt and while interrupted threads
\* wait for their turn; no assertion fails.
InterruptsExact ==
    /\ ~ cpu.failed
    /\ cpu.in_external_intr => ~ cpu.flag /\ InHandler(cpu.current)
    /\ ~ cpu.in_external_intr => cpu.master = {} /\ cpu.slave = {}
    /\ \A t \in KThreads : \A i \in DOMAIN cpu.frames[t] :
          (cpu.frames[t][i].kind = "yield") <=> (t # cpu.current /\ i = Len(cpu.frames[t]))
=============================================================================
