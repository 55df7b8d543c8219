------------------------------ MODULE MCSynch ------------------------------
(* Instances of Synch for TLC.                                             *)
EXTENDS Synch

CONSTANTS main, idle, a, b, c, tid_lock, l, cv, idle_started, w

NoConds == [x \in {} |-> l]
OneCond == [x \in {cv} |-> l]
Waits == [t \in Threads |-> w]
Inits == [x \in Semas |-> 0]
=============================================================================
