---------------------------- MODULE EmergencyStop ----------------------------
(***************************************************************************)
(* The kill switch running against the order path of OrderExecution.       *)
(*                                                                         *)
(* KillSwitch.Activate (internal/services/risk/killswitch.go) is a plain   *)
(* sequence of repository calls without a transaction: fetch the open      *)
(* positions and close their rows one by one, fetch the open orders and    *)
(* cancel their rows one by one, set the circuit breaker, set a redis      *)
(* flag.  A failing call is recorded in the result and the sequence goes   *)
(* on.  The executor and the agents keep running meanwhile, and neither    *)
(* reads the breaker or the flag.                                          *)
(*                                                                         *)
(* Activate is reached through emergency_close_all, one activation per     *)
(* user at a time here.  The race of the breaker with the risk engine is   *)
(* the subject of RiskControl.                                             *)
(***************************************************************************)
EXTENDS OrderExecution

CONSTANTS
    Positions,        \* ids of the position rows there are
    PositionOwner,    \* the user of each of them
    MaxStopFailures   \* bound: failing calls around the kill switch in one behaviour

ASSUME StopConstantsAssumption ==
    /\ PositionOwner \in [Positions -> Users]
    /\ None \notin Positions
    /\ MaxStopFailures \in Nat

VARIABLES
    posOpen,    \* position rows in status open
    copy,       \* the row a position update has read and not written yet
    breaker,    \* users whose risk state has is_triggered
    flag,       \* users with a redis key killswitch:<user>
    pc,         \* where the activation of each user is
    posTodo,    \* positions it has fetched and not come to
    ordTodo,    \* orders it has fetched and not come to
    marks,      \* "errors": its result has errors; the rest is history
    stopFailures \* calls that may still fail

ksVars == <<pc, posTodo, ordTodo, marks>>
stopVars == <<posOpen, copy, breaker, flag, ksVars, stopFailures>>
allVars == <<vars, stopVars>>

OwnerOf(o) == UserOf[origin[o]]
OrdersOf(u) == {o \in Created : OwnerOf(o) = u}

(* orderRepo.GetOpenByUser                                                 *)
OpenOrders(u) == {o \in OrdersOf(u) : status[o] \in {"pending", "open", "partial"}}
OpenPositions(u) == {p \in posOpen : PositionOwner[p] = u}

StopInit ==
    /\ Init
    /\ posOpen \in SUBSET Positions
    /\ copy = None
    /\ breaker = {}
    /\ flag = {}
    /\ pc = [u \in Users |-> "idle"]
    /\ posTodo = [u \in Users |-> {}]
    /\ ordTodo = [u \in Users |-> {}]
    /\ marks = [u \in Users |-> {}]
    /\ stopFailures = MaxStopFailures

(* A call fails.                                                           *)
CallFails == stopFailures > 0 /\ stopFailures' = stopFailures - 1

-----------------------------------------------------------------------------
(* The websocket consumer handles a position update, one at a time.        *)

(* UpdateFromWebSocket, ClosePosition: the row is found among the open     *)
(* ones of the user.  Without a row the insert that follows is refused: it *)
(* has no market type (Unknown position in the README).                    *)
ReadPosition(p) ==
    /\ copy = None
    /\ p \in posOpen
    /\ copy' = p
    /\ UNCHANGED <<vars, posOpen, breaker, flag, ksVars, stopFailures>>

(* posRepo.Update: the status of the copy, open or set to closed, goes     *)
(* over whatever the row has become; or the call fails.                    *)
WritePosition ==
    /\ copy # None
    /\ \/ posOpen' \in {posOpen \cup {copy}, posOpen \ {copy}} /\ UNCHANGED stopFailures
       \/ UNCHANGED posOpen /\ CallFails
    /\ copy' = None
    /\ UNCHANGED <<vars, breaker, flag, ksVars>>

-----------------------------------------------------------------------------
(* History: an update holds a copy of a row of u that is closed already.   *)
HoldsClosed(u) == copy # None /\ copy \notin posOpen /\ PositionOwner[copy] = u

Mark(u, m) == marks' = [marks EXCEPT ![u] = @ \cup m]

(* A call of the activation fails: it is logged and added to the errors.   *)
StopCallFails(u) == CallFails /\ Mark(u, {"errors"})

(* 1. GetOpenByUser of the positions.                                      *)
Activate(u) ==
    /\ pc[u] = "idle"
    /\ pc' = [pc EXCEPT ![u] = "positions"]
    /\ \/ /\ posTodo' = [posTodo EXCEPT ![u] = OpenPositions(u)]
          /\ marks' = [marks EXCEPT ![u] = IF HoldsClosed(u) THEN {"disturbed"} ELSE {}]
          /\ UNCHANGED stopFailures
       \/ /\ marks' = [marks EXCEPT ![u] = {"errors"}]
          /\ CallFails
          /\ UNCHANGED posTodo
    /\ UNCHANGED <<vars, posOpen, copy, breaker, flag, ordTodo>>

(* posRepo.Close of one fetched position, whatever its status is by now.   *)
(* History: an update that holds a copy of the row will write it again.    *)
ClosePosition(u, p) ==
    /\ pc[u] = "positions"
    /\ p \in posTodo[u]
    /\ posTodo' = [posTodo EXCEPT ![u] = @ \ {p}]
    /\ \/ /\ posOpen' = posOpen \ {p}
          /\ Mark(u, IF copy = p THEN {"disturbed"} ELSE {})
          /\ UNCHANGED stopFailures
       \/ /\ StopCallFails(u)
          /\ UNCHANGED posOpen
    /\ UNCHANGED <<vars, copy, breaker, flag, pc, ordTodo>>

(* 2. GetOpenByUser of the orders.  History: disturbed records that the    *)
(* executor holds a row of the user, or that one is inserted, from here on.*)
FetchOrders(u) ==
    /\ pc[u] = "positions"
    /\ posTodo[u] = {}
    /\ pc' = [pc EXCEPT ![u] = "orders"]
    /\ \/ /\ ordTodo' = [ordTodo EXCEPT ![u] = OpenOrders(u)]
          /\ Mark(u, IF Held \cap OrdersOf(u) = {} THEN {} ELSE {"disturbed"})
          /\ UNCHANGED stopFailures
       \/ /\ StopCallFails(u)
          /\ UNCHANGED ordTodo
    /\ UNCHANGED <<vars, posOpen, copy, breaker, flag, posTodo>>

(* Faulty variant: the failure of a Cancel is not added to the errors.     *)
CancelFetchedSilently(u, o) ==
    /\ pc[u] = "orders"
    /\ o \in ordTodo[u]
    /\ ordTodo' = [ordTodo EXCEPT ![u] = @ \ {o}]
    /\ \/ Cancel(o) /\ UNCHANGED stopFailures
       \/ CallFails /\ UNCHANGED vars
    /\ UNCHANGED <<posOpen, copy, breaker, flag, pc, posTodo, marks>>

(* orderRepo.Cancel of one fetched order, whatever its status is by now.   *)
CancelFetched(u, o) ==
    /\ pc[u] = "orders"
    /\ o \in ordTodo[u]
    /\ ordTodo' = [ordTodo EXCEPT ![u] = @ \ {o}]
    /\ \/ Cancel(o) /\ UNCHANGED <<stopFailures, marks>>
       \/ StopCallFails(u) /\ UNCHANGED vars
    /\ UNCHANGED <<posOpen, copy, breaker, flag, pc, posTodo>>

(* 3. GetState and SaveState of the risk state.                            *)
SetBreaker(u) ==
    /\ pc[u] = "orders"
    /\ ordTodo[u] = {}
    /\ pc' = [pc EXCEPT ![u] = "flag"]
    /\ \/ breaker' = breaker \cup {u} /\ UNCHANGED <<stopFailures, marks>>
       \/ StopCallFails(u) /\ UNCHANGED breaker
    /\ UNCHANGED <<vars, posOpen, copy, flag, posTodo, ordTodo>>

(* 5. The redis flag, whose error is only logged; the result is returned.  *)
(* History: sealed marks a stop reported without errors.                   *)
SetFlag(u) ==
    /\ pc[u] = "flag"
    /\ pc' = [pc EXCEPT ![u] = "idle"]
    /\ Mark(u, IF "errors" \in marks[u] THEN {} ELSE {"sealed"})
    /\ \/ flag' = flag \cup {u} /\ UNCHANGED stopFailures
       \/ UNCHANGED flag /\ CallFails
    /\ UNCHANGED <<vars, posOpen, copy, breaker, posTodo, ordTodo>>

(* GetState, SaveState, and the deletion of the flag, whose error is only  *)
(* logged.                                                                 *)
Deactivate(u) ==
    /\ breaker' = breaker \ {u}
    /\ \/ flag' = flag \ {u} /\ UNCHANGED stopFailures
       \/ UNCHANGED flag /\ CallFails
    /\ marks' = [marks EXCEPT ![u] = @ \ {"sealed"}]
    /\ UNCHANGED <<vars, posOpen, copy, pc, posTodo, ordTodo>>

-----------------------------------------------------------------------------
(* History: while the orders of u are being canceled a snapshot or a new   *)
(* row of u disturbs the stop, and a new row of u ends what a finished     *)
(* stop guarantees.                                                        *)
Inserted(u) == {o \in Created' \ Created : UserOf[origin'[o]] = u}
Disturbed(u) == pc[u] \in {"orders", "flag"} /\ (Inserted(u) # {} \/ Held' \cap OrdersOf(u) # {})

Marked(u) == (marks[u] \cup (IF Disturbed(u) THEN {"disturbed"} ELSE {}))
                 \ (IF Inserted(u) = {} THEN {} ELSE {"sealed"})

OrderPathStep ==
    /\ \/ \E r \in Requests : ToolStep(r)
       \/ \E o \in Orders : Cancel(o)
       \/ \E u \in Users, on \in BOOLEAN : SetAccountActive(u, on)
       \/ ExecutorStep
       \/ Shutdown
    /\ marks' = [u \in Users |-> Marked(u)]
    /\ UNCHANGED <<posOpen, copy, breaker, flag, pc, posTodo, ordTodo, stopFailures>>

(* The process ends and a new one starts: activations in progress and the  *)
(* position update end with it.                                            *)
ProcessEnds ==
    /\ Restart \/ Crash
    /\ pc' = [u \in Users |-> "idle"]
    /\ posTodo' = [u \in Users |-> {}]
    /\ ordTodo' = [u \in Users |-> {}]
    /\ marks' = [u \in Users |-> IF pc[u] = "idle" THEN marks[u] ELSE {}]
    /\ copy' = None
    /\ UNCHANGED <<posOpen, breaker, flag, stopFailures>>

StopStep(u) ==
    \/ \E p \in Positions : ClosePosition(u, p)
    \/ FetchOrders(u)
    \/ \E o \in Orders : CancelFetched(u, o)
    \/ SetBreaker(u)
    \/ SetFlag(u)

StopNext ==
    \/ OrderPathStep
    \/ ProcessEnds
    \/ \E p \in Positions : ReadPosition(p)
    \/ WritePosition
    \/ \E u \in Users : Activate(u) \/ StopStep(u) \/ Deactivate(u)

StopSpec == StopInit /\ [][StopNext]_allVars

-----------------------------------------------------------------------------
StopTypeOK ==
    /\ TypeOK
    /\ posOpen \subseteq Positions
    /\ copy \in Positions \cup {None}
    /\ breaker \subseteq Users
    /\ flag \subseteq Users
    /\ pc \in [Users -> {"idle", "positions", "orders", "flag"}]
    /\ posTodo \in [Users -> SUBSET Positions]
    /\ ordTodo \in [Users -> SUBSET Orders]
    /\ marks \in [Users -> SUBSET {"errors", "disturbed", "sealed"}]
    /\ stopFailures \in Nat

(* What the kill switch does achieve.  An activation that reports no error *)
(* is undisturbed when no position update held a copy of a row it closed,  *)
(* and from its fetch of the orders on neither the executor held a row of  *)
(* the user nor an agent inserted one.  Then no order row of the user is   *)
(* pending, open or partial and no position row open, and none becomes so  *)
(* until the next tool call of the user, the updates of positions and the  *)
(* executor's retries and restarts notwithstanding.                        *)
UndisturbedStopHolds ==
    \A u \in Users : ("sealed" \in marks[u] /\ "disturbed" \notin marks[u]) =>
                         OpenOrders(u) = {} /\ OpenPositions(u) = {}

=============================================================================
