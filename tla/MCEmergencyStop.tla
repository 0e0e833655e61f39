-------------------------- MODULE MCEmergencyStop --------------------------
(* Small instances of EmergencyStop for TLC.                               *)
EXTENDS EmergencyStop, TLC

CONSTANTS o1, o2, r1, r2, u1, p1

MCPositionOwner == [p \in Positions |-> u1]

MCUserOf == [r \in Requests |-> u1]

(* The ids of rows are interchangeable: nothing names one.                 *)
MCSymmetry == Permutations(Orders)

=============================================================================
