----------------------------- MODULE MCDonation -----------------------------
(* Instances of Donation for TLC.                                          *)
EXTENDS Donation

CONSTANTS lo, mid, hi, top, idle, a, b

Priorities == [t \in Threads |-> CASE t = top -> 4 [] t = hi -> 3 [] t = mid -> 2 [] t = lo -> 1 [] OTHER -> 0]

\* hi and top each need one of the locks.
LocksUsed == [t \in Threads |-> CASE t \in {lo, hi} -> {a} [] t = top -> {b} [] OTHER -> {a, b}]

\* mid lowers itself to the level of lo, with and without a donation; or nobody
\* sets a priority.
MidLowers == [t \in Threads |-> IF t = mid THEN {1} ELSE {}]
NoneSet == [t \in Threads |-> {}]

\* mid takes both locks, or one of them and sleeps, tries again or lowers itself.
CallLimits == [t \in Threads |-> IF t = mid THEN 2 ELSE 1]
=============================================================================
