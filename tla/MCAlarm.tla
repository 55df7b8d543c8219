------------------------------ MODULE MCAlarm ------------------------------
(* Instances of Alarm for TLC.                                             *)
EXTENDS Alarm

CONSTANTS main, idle, hi, lo

\* main and lo share a priority, hi is above them.
Priorities == [t \in Threads |-> IF t = hi THEN 2 ELSE IF t = idle THEN 0 ELSE 1]
Arguments == {-1, 0, 1, 2}
=============================================================================
