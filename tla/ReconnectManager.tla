--------------------------- MODULE ReconnectManager ---------------------------
(***************************************************************************)
(* pkg/reconnect/manager.go: the record a connection's owner keeps of its  *)
(* failures and of the last message, and what it answers from it.  Each    *)
(* owner instantiates the module over variables of its own.                *)
(*                                                                         *)
(* Abstracted: clock values.  beat and circuit say whether a period has    *)
(* run out; the back-off doubles with each failure and is only a wait.     *)
(***************************************************************************)
EXTENDS Naturals

CONSTANT MaxRetries

VARIABLES
    failures,   \* consecutiveFailures, counted up to MaxRetries
    circuit,    \* closed, open, or elapsed: open for circuitResetAfter
    beat        \* lastMessageTime: none, fresh, or silent for heartbeatTimeout

InitManager == failures = 0 /\ circuit = "closed" /\ beat = "none"

(* A connection that never had a message counts as healthy.                *)
IsHealthy == circuit = "closed" /\ beat # "silent"

(* Faulty variant: only a success, which needs a retry, closes the circuit. *)
ShouldRetryClosed == circuit = "closed" /\ failures < MaxRetries

ShouldRetry ==
    \/ circuit = "elapsed"
    \/ circuit = "closed" /\ failures < MaxRetries

RecordMessageReceived == beat' = "fresh"

(* A failure after the reset period opens the circuit for another one.     *)
RecordFailure ==
    /\ failures' = IF failures < MaxRetries THEN failures + 1 ELSE failures
    /\ circuit' = IF failures + 1 >= MaxRetries THEN "open" ELSE circuit
    /\ UNCHANGED beat

(* Faulty variant: a success takes one failure back.                       *)
RecordSuccessDecrements ==
    /\ failures' = failures - 1
    /\ circuit' = "closed"
    /\ beat' = "fresh"

RecordSuccess ==
    /\ failures' = 0
    /\ circuit' = "closed"
    /\ beat' = "fresh"

(* heartbeatTimeout passes without a record of a message.                  *)
HeartbeatElapses ==
    /\ beat = "fresh"
    /\ beat' = "silent"
    /\ UNCHANGED <<failures, circuit>>

(* circuitResetAfter passes.                                               *)
CircuitElapses ==
    /\ circuit = "open"
    /\ circuit' = "elapsed"
    /\ UNCHANGED <<failures, beat>>

ManagerTypeOK ==
    /\ failures \in 0..MaxRetries
    /\ circuit \in {"closed", "open", "elapsed"}
    /\ beat \in {"none", "fresh", "silent"}
=============================================================================
