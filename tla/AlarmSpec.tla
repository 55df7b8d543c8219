----------------------------- MODULE AlarmSpec -----------------------------
(***************************************************************************)
(* What an alarm clock promises: a thread may go to sleep until some tick, *)
(* and every tick wakes all the sleepers whose tick has come and no other. *)
(***************************************************************************)
EXTENDS Integers

CONSTANTS Threads

VARIABLES
    now,      \* the current tick
    asleep,   \* the sleeping threads
    wake_at   \* the tick each sleeper wants to be woken at

avars == <<now, asleep, wake_at>>

AInit == now = 0 /\ asleep = {} /\ wake_at = [t \in Threads |-> 0]

\* t goes to sleep until a tick of its choice.
ASleep(t) ==
    /\ t \notin asleep
    /\ asleep' = asleep \union {t}
    /\ wake_at' = [wake_at EXCEPT ![t] = wake_at'[t]]
    /\ UNCHANGED now

ATick ==
    /\ now' = now + 1
    /\ asleep' = {t \in asleep : wake_at[t] > now'}
    /\ UNCHANGED wake_at

ASpec == AInit /\ [][ATick \/ \E t \in Threads : ASleep(t)]_avars
=============================================================================
