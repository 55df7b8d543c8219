-------------------------- MODULE MCVirtualMemory --------------------------
(* Instances of VirtualMemory for TLC.                                     *)
EXTENDS VirtualMemory

CONSTANTS p, q, u1, u2, u3

\* One process has every page, the other one only the first.
Pages == [x \in Procs |-> IF x = p THEN UPages ELSE {u1}]
=============================================================================
