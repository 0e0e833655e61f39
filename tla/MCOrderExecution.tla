-------------------------- MODULE MCOrderExecution --------------------------
(* Small instances of OrderExecution for TLC.                              *)
EXTENDS OrderExecution

CONSTANTS o1, o2, r1, r2, u1

MCUserOf == [r \in Requests |-> u1]

=============================================================================
