------------------------------ MODULE Monitor ------------------------------
(***************************************************************************)
(* What synch.c promises its callers: locks with one owner, and "Mesa"     *)
(* style condition variables.  Waiting releases the lock and joins the     *)
(* condition's queue in one step, a signal passes to the longest waiting   *)
(* thread, and nobody leaves a wait without having been signalled and      *)
(* having reacquired the lock.  Module Synch implements this.              *)
(***************************************************************************)
EXTENDS Sequences

CONSTANTS Threads, Locks, Conds, CondLock, NULL

VARIABLES
    owner,    \* the thread that owns each lock, or NULL
    waiting,  \* the queue of each condition
    woken     \* the condition a thread was signalled on and has yet to return from

mvars == <<owner, waiting, woken>>

MInit ==
    /\ owner = [l \in Locks |-> NULL]
    /\ waiting = [c \in Conds |-> <<>>]
    /\ woken = [t \in Threads |-> NULL]

\* A waiting thread acquires nothing, a woken one only the lock it waits for.
Acquire(t, l) ==
    /\ owner[l] = NULL
    /\ \A c \in Conds : \A i \in DOMAIN waiting[c] : waiting[c][i] # t
    /\ woken[t] # NULL => CondLock[woken[t]] = l
    /\ owner' = [owner EXCEPT ![l] = t]
    /\ woken' = [woken EXCEPT ![t] = NULL]
    /\ UNCHANGED waiting

Release(t, l) ==
    /\ owner[l] = t
    /\ owner' = [owner EXCEPT ![l] = NULL]
    /\ UNCHANGED <<waiting, woken>>

Wait(t, c) ==
    /\ owner[CondLock[c]] = t
    /\ owner' = [owner EXCEPT ![CondLock[c]] = NULL]
    /\ waiting' = [waiting EXCEPT ![c] = Append(@, t)]
    /\ UNCHANGED woken

Signal(t, c) ==
    /\ owner[CondLock[c]] = t
    /\ waiting[c] # <<>>
    /\ waiting' = [waiting EXCEPT ![c] = Tail(@)]
    /\ woken' = [woken EXCEPT ![Head(waiting[c])] = c]
    /\ UNCHANGED owner

MNext == \E t \in Threads :
    \/ \E l \in Locks : Acquire(t, l) \/ Release(t, l)
    \/ \E c \in Conds : Wait(t, c) \/ Signal(t, c)

MSpec == MInit /\ [][MNext]_mvars
=============================================================================
