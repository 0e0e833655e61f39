-------------------------- MODULE OrderPathProofs --------------------------
(***************************************************************************)
(* Safety of the order path, alone (OrderExecution) and under the kill     *)
(* switch (EmergencyStop), for every set of orders, tool calls, users and  *)
(* positions, every batch limit and every number of failures.              *)
(***************************************************************************)
EXTENDS EmergencyStop, FiniteSetTheorems, TLAPS

-----------------------------------------------------------------------------
(* The order path.                                                         *)

(* The placement the executor knows of and has not written yet.            *)
Owed(o) == IF ex.pc = "save" /\ ex.cur = o /\ ex.reply \in OnExchange THEN 1 ELSE 0

(* The shape of the executor's record.                                     *)
ExecutorShape ==
    /\ ex.cur \notin ex.todo
    /\ ex.pc \in {"idle", "next"} => ex.cur = None
    /\ ex.pc \in {"place", "save", "reject"} => ex.cur \in Orders
    /\ ex.pc = "save" => ex.reply \in OnExchange \cup Declined
    /\ \A o \in Held : status[o] # "none"

(* A tool call that will be retried has attempts left.                     *)
RetryShape == \A r \in Requests : tool[r].pc = "ready" => tool[r].tries < Attempts(r)

(* An order the executor may still send, or that the database does not     *)
(* show as working, was placed only by requests the database never learned *)
(* of, and by the one whose answer the executor is about to write.         *)
Accounted ==
    \A o \in Orders :
        (status[o] \notin OnExchange \cup {"canceled"} \/ o \in Held)
            => placed[o] <= lost[o] + Owed(o)

OwedIsPlaced == \A o \in Orders : Owed(o) = 1 => placed[o] >= 1

Account ==
    /\ Accounted
    /\ DuplicatesArePaidFor
    /\ OpenMeansPlaced
    /\ OwedIsPlaced
(* Types and shapes, which the accounting relies on.                       *)
Shape == TypeOK /\ RetryShape /\ ExecutorShape

IInv == Shape /\ Account

-----------------------------------------------------------------------------
(* The number of rows is a natural number: created_at order is well typed. *)
LEMMA CreatedCount ==
    ASSUME TypeOK
    PROVE  Cardinality(Created) \in Nat
BY ConstantsAssumption, FS_Subset, FS_CardinalityType DEF Created

(* The records the code starts its loops with, and the ones it moves to.   *)
LEMMA IdleType == IdleExecutor \in ExecutorState
BY DEF IdleExecutor, ExecutorState, ExecutorPcs, MaxRetries

LEMMA AttemptsBound == ASSUME NEW r \in Requests PROVE Attempts(r) \in Nat /\ Attempts(r) <= 3
BY DEF Attempts

LEMMA ProceedType == ASSUME TypeOK PROVE Proceed \in ExecutorState
<1>1. CASE ex.todo = {}
  BY <1>1, IdleType DEF Proceed
<1>2. CASE ex.todo # {}
  <2>1. Proceed = [pc |-> "next", cur |-> None, todo |-> ex.todo, attempt |-> 0, reply |-> "none"]
    BY <1>2 DEF Proceed, IdleExecutor
  <2>2. ex.todo \subseteq Orders
    BY DEF TypeOK, ExecutorState
  <2> QED BY <2>1, <2>2 DEF ExecutorState, ExecutorPcs, MaxRetries
<1> QED BY <1>1, <1>2

LEMMA NextAttemptType == ASSUME TypeOK PROVE NextAttempt \in ExecutorState
BY DEF TypeOK, NextAttempt, ExecutorState, ExecutorPcs, MaxRetries

(* wrapWithRetry never counts beyond the attempts of the tool.             *)
LEMMA AfterErrorType ==
    ASSUME TypeOK, RetryShape, NEW r \in Requests, tool[r].pc = "ready", AfterError(r)
    PROVE  tool' \in [Requests -> ToolState] /\ RetryShape'
<1> DEFINE n == tool[r].tries + 1
           next == [pc |-> IF n < Attempts(r) THEN "ready" ELSE "failed", tries |-> n]
<1>1. tool[r].tries \in 0 .. 3 /\ tool[r].tries < Attempts(r)
  BY DEF TypeOK, ToolState, RetryShape
<1>2. n \in 0 .. 3
  BY <1>1, AttemptsBound
<1>3. next \in ToolState
  BY <1>2 DEF ToolState
<1>4. tool' = [tool EXCEPT ![r] = next]
  BY DEF AfterError
<1> HIDE DEF next
<1>5. tool' \in [Requests -> ToolState]
  BY <1>3, <1>4 DEF TypeOK
<1>6. next.pc = "ready" => next.tries < Attempts(r)
  BY <1>1, AttemptsBound DEF next
<1>7. ASSUME NEW q \in Requests, tool'[q].pc = "ready" PROVE tool'[q].tries < Attempts(q)
  BY <1>4, <1>6, <1>7 DEF TypeOK, RetryShape
<1> QED BY <1>5, <1>7 DEF RetryShape


LEMMA InitShape == Init => Shape
<1> SUFFICES ASSUME Init PROVE Shape
  OBVIOUS
<1>1. TypeOK
  BY ConstantsAssumption
     DEF Init, TypeOK, IdleExecutor, Statuses, OnExchange, Declined, ExecutorPcs, MaxRetries,
         ToolState, ExecutorState
<1>2. RetryShape
  BY AttemptsBound DEF Init, RetryShape, Attempts
<1>3. ExecutorShape
  BY DEF Init, ExecutorShape, IdleExecutor, Held
<1> QED BY <1>1, <1>2, <1>3 DEF Shape

(* Inserting a row and moving the tool call on.                            *)
LEMMA ToolShape ==
    ASSUME Shape, NEW r \in Requests, ToolStep(r)
    PROVE  Shape'
<1> USE DEF Shape
<1>1. tool' \in [Requests -> ToolState] /\ RetryShape'
  <2>1. CASE PlaceOrderRow(r)
    BY <2>1 DEF PlaceOrderRow, TypeOK, ToolState, RetryShape
  <2>2. CASE ~PlaceOrderRow(r)
    BY <2>2, AfterErrorType DEF ToolStep, PlaceOrderRowAnswerLost, PlaceOrderRowError
  <2> QED BY <2>1, <2>2
<1>2. /\ status' \in [Orders -> Statuses \cup {"none"}]
      /\ origin' \in [Orders -> Requests \cup {None}]
      /\ age' \in [Orders -> Nat]
      /\ \A o \in Orders : status'[o] = "none" => status[o] = "none"
  <2>1. CASE PlaceOrderRowError(r)
    BY <2>1 DEF PlaceOrderRowError, dbVars, TypeOK
  <2>2. CASE ~PlaceOrderRowError(r)
    <3>1. PICK o \in Orders : InsertRow(r, o)
      BY <2>2 DEF ToolStep, PlaceOrderRow, PlaceOrderRowAnswerLost
    <3> QED BY <3>1, CreatedCount DEF InsertRow, TypeOK, Statuses
  <2> QED BY <2>1, <2>2
<1>3. /\ UNCHANGED <<active, ex, mode, placed, lost>>
      /\ failures' \in Nat
  BY DEF ToolStep, PlaceOrderRow, PlaceOrderRowAnswerLost, PlaceOrderRowError, Fail, TypeOK
<1>4. TypeOK'
  BY <1>1, <1>2, <1>3 DEF TypeOK
<1>5. ExecutorShape'
  BY <1>2, <1>3 DEF ExecutorShape, Held, TypeOK, ExecutorState
<1> QED BY <1>1, <1>4, <1>5

(* What Oldest selects is selected from its argument.                      *)
LEMMA OldestSubset == ASSUME NEW S, NEW n PROVE Oldest(S, n) \subseteq S
BY DEF Oldest

(* A step of the executor that only moves its own record, provided the new *)
(* record has the right shape.                                             *)
LEMMA ExecutorMoves ==
    ASSUME Shape, UNCHANGED <<dbVars, tool, active, mode>>,
           placed' \in [Orders -> Nat], lost' \in [Orders -> Nat], failures' \in Nat,
           ex' \in ExecutorState, ExecutorShape'
    PROVE  Shape'
BY DEF Shape, TypeOK, RetryShape, dbVars

LEMMA FailType == ASSUME TypeOK, Fail PROVE failures' \in Nat
BY DEF TypeOK, Fail

LEMMA ForgetType == ASSUME Shape, ForgetReply PROVE lost' \in [Orders -> Nat]
BY DEF Shape, TypeOK, ExecutorShape, ForgetReply

LEMMA HeldIs ==
    ASSUME Shape
    PROVE  Held = {o \in Orders : o \in ex.todo \/ o = ex.cur}
BY ConstantsAssumption DEF Shape, TypeOK, ExecutorState, Held

(* After the last row of a snapshot, or between two, nothing is executed.  *)
LEMMA ProceedShape ==
    ASSUME Shape, ex' = Proceed, \A o \in Orders : status'[o] = "none" => status[o] = "none"
    PROVE  ex' \in ExecutorState /\ ExecutorShape'
<1>1. ex' \in ExecutorState
  BY ProceedType DEF Shape
<1>2. ex'.cur = None /\ ex'.pc \in {"idle", "next"} /\ ex'.todo = ex.todo
  BY DEF Proceed, IdleExecutor
<1>3. ex'.todo \subseteq Orders /\ ex'.todo \subseteq Held
  BY <1>2 DEF Shape, TypeOK, ExecutorState, Held
<1> QED BY <1>1, <1>2, <1>3, ConstantsAssumption DEF Shape, ExecutorShape, Held

(* The iteration begins, goes on to its next row, or ends.                 *)
LEMMA IterationShape ==
    ASSUME Shape, StartIteration \/ Interrupted \/ \E o \in Orders : BeginOrder(o)
    PROVE  Shape'
<1>1. CASE StartIteration
  <2>1. ex' = [pc |-> "next", cur |-> None, todo |-> Oldest(Pending, BatchLimit),
               attempt |-> 0, reply |-> "none"]
    BY <1>1 DEF StartIteration, IdleExecutor
  <2>2. ex'.todo \subseteq Pending /\ Pending \subseteq Orders
    BY <2>1, OldestSubset DEF Pending
  <2>3. ex' \in ExecutorState
    BY <2>1, <2>2 DEF ExecutorState, ExecutorPcs, MaxRetries
  <2>4. UNCHANGED status
    BY <1>1 DEF StartIteration, dbVars
  <2>5. ExecutorShape'
    BY <2>1, <2>2, <2>4, ConstantsAssumption DEF ExecutorShape, Held, Pending
  <2> QED BY <1>1, <2>3, <2>5, ExecutorMoves DEF StartIteration, dbVars, Shape, TypeOK
<1>2. CASE Interrupted
  <2>1. ex' \in ExecutorState
    BY <1>2, IdleType DEF Interrupted
  <2>2. ExecutorShape'
    BY <1>2 DEF Interrupted, IdleExecutor, ExecutorShape, Held
  <2> QED BY <1>2, <2>1, <2>2, ExecutorMoves DEF Interrupted, Shape, TypeOK
<1>3. ASSUME NEW o \in Orders, BeginOrder(o) PROVE Shape'
  <2>1. failures' \in Nat
    BY <1>3, FailType DEF BeginOrder, Shape, TypeOK
  <2>2. /\ ex'.pc \in {"place", "reject"}
        /\ ex'.cur = o
        /\ ex'.todo = ex.todo \ {o}
        /\ ex' \in ExecutorState
    <3>1. \/ ex' = [ex EXCEPT !.pc = "place", !.cur = o, !.todo = ex.todo \ {o}, !.attempt = 1]
          \/ ex' = [ex EXCEPT !.pc = "reject", !.cur = o, !.todo = ex.todo \ {o}]
      BY <1>3 DEF BeginOrder
    <3>2. CASE ex' = [ex EXCEPT !.pc = "place", !.cur = o, !.todo = ex.todo \ {o}, !.attempt = 1]
      <4>1. ex' = [pc |-> "place", cur |-> o, todo |-> ex.todo \ {o}, attempt |-> 1,
                   reply |-> ex.reply]
        BY <3>2 DEF Shape, TypeOK, ExecutorState
      <4>2. ex.todo \ {o} \in SUBSET Orders /\ ex.reply \in OnExchange \cup Declined \cup {"none"}
        BY DEF Shape, TypeOK, ExecutorState
      <4> QED BY <4>1, <4>2 DEF ExecutorState, ExecutorPcs, MaxRetries
    <3>3. CASE ex' = [ex EXCEPT !.pc = "reject", !.cur = o, !.todo = ex.todo \ {o}]
      BY <3>3 DEF Shape, TypeOK, ExecutorState, ExecutorPcs, MaxRetries
    <3> QED BY <3>1, <3>2, <3>3
  <2>3. o \in ex.todo
    BY <1>3, OldestSubset DEF BeginOrder
  <2>4. ExecutorShape'
    <3>1. UNCHANGED status
      BY <1>3 DEF BeginOrder, dbVars
    <3>2. Held' = ex.todo /\ ex.todo \subseteq Held
      BY <2>2, <2>3, ConstantsAssumption DEF Held
    <3> QED BY <2>2, <3>1, <3>2 DEF Shape, ExecutorShape
  <2> QED BY <1>3, <2>1, <2>2, <2>4, ExecutorMoves DEF BeginOrder, Shape, TypeOK
<1> QED BY <1>1, <1>2, <1>3

(* The retry loop of one row.                                              *)
LEMMA PlacementShape ==
    ASSUME Shape,
           \/ \E s \in OnExchange \cup Declined : ExchangeAnswers(s)
           \/ AnswerLost \/ PlaceFails
    PROVE  Shape'
<1>1. ex.pc = "place" /\ ex.cur \in Orders
  BY DEF ExchangeAnswers, AnswerLost, PlaceFails, Shape, ExecutorShape
<1>2. failures' \in Nat
  BY FailType DEF ExchangeAnswers, AnswerLost, PlaceFails, Shape, TypeOK
<1>3. /\ ex' \in ExecutorState
      /\ ex'.cur = ex.cur
      /\ ex'.todo = ex.todo
      /\ ex'.pc \in {"place", "save", "reject"}
      /\ ex'.pc = "save" => ex'.reply \in OnExchange \cup Declined
  <2>1. ASSUME NEW s \in OnExchange \cup Declined, ExchangeAnswers(s) PROVE <1>3!:
    BY <2>1 DEF ExchangeAnswers, Shape, TypeOK, ExecutorState, ExecutorPcs
  <2>2. CASE AnswerLost \/ PlaceFails
    BY <1>1, <2>2 DEF AnswerLost, PlaceFails, NextAttempt, Shape, TypeOK, ExecutorState, ExecutorPcs, MaxRetries
  <2> QED BY <2>1, <2>2
<1>4. placed' \in [Orders -> Nat] /\ lost' \in [Orders -> Nat]
  <2>1. /\ placed' \in {placed, [placed EXCEPT ![ex.cur] = @ + 1]}
        /\ lost' \in {lost, [lost EXCEPT ![ex.cur] = @ + 1]}
    BY DEF ExchangeAnswers, AnswerLost, PlaceFails
  <2> QED BY <1>1, <2>1 DEF Shape, TypeOK
<1>5. UNCHANGED <<dbVars, tool, active, mode>>
  BY DEF ExchangeAnswers, AnswerLost, PlaceFails
<1>6. ExecutorShape'
  BY <1>1, <1>3, <1>5, ConstantsAssumption DEF dbVars, Shape, ExecutorShape, Held
<1> QED BY <1>2, <1>3, <1>4, <1>5, <1>6, ExecutorMoves

(* Writing the result of one row, or failing to.                           *)
LEMMA WriteShape ==
    ASSUME Shape, SaveReply \/ SaveReplyError \/ Reject \/ RejectError
    PROVE  Shape'
<1>1. ex' = Proceed /\ ex.pc \in {"save", "reject"} /\ ex.cur \in Orders
  BY DEF SaveReply, SaveReplyError, Reject, RejectError, Shape, ExecutorShape
<1>2. /\ status' \in [Orders -> Statuses \cup {"none"}]
      /\ \A o \in Orders : status'[o] = "none" => status[o] = "none"
  BY <1>1 DEF SaveReply, SaveReplyError, Reject, RejectError, dbVars, Shape, TypeOK,
              ExecutorShape, Statuses, OnExchange, Declined
<1>3. ex' \in ExecutorState /\ ExecutorShape'
  BY <1>1, <1>2, ProceedShape
<1>4. lost' \in [Orders -> Nat] /\ failures' \in Nat
  BY ForgetType, FailType DEF SaveReply, SaveReplyError, Reject, RejectError, Shape, TypeOK
<1>5. UNCHANGED <<origin, age, tool, active, mode, placed>>
  BY DEF SaveReply, SaveReplyError, Reject, RejectError, dbVars
<1> QED BY <1>2, <1>3, <1>4, <1>5 DEF Shape, TypeOK, RetryShape

(* Everything outside the executor and the tool calls.                     *)
LEMMA EnvironmentShape ==
    ASSUME Shape,
           \/ \E o \in Orders : Cancel(o)
           \/ \E u \in Users, on \in BOOLEAN : SetAccountActive(u, on)
           \/ Shutdown \/ Restart \/ Crash \/ UNCHANGED vars
    PROVE  Shape'
<1>1. ASSUME NEW o \in Orders, Cancel(o) PROVE Shape'
  BY <1>1 DEF Cancel, Shape, TypeOK, RetryShape, ExecutorShape, Held, Statuses, Declined
<1>2. ASSUME NEW u \in Users, NEW on \in BOOLEAN, SetAccountActive(u, on) PROVE Shape'
  BY <1>2 DEF SetAccountActive, dbVars, Shape, TypeOK, RetryShape, ExecutorShape, Held
<1>3. CASE Shutdown \/ Restart
  BY <1>3, FailType DEF Shutdown, Restart, dbVars, Shape, TypeOK, RetryShape, ExecutorShape, Held
<1>4. CASE Crash
  <2>1. ex' \in ExecutorState /\ lost' \in [Orders -> Nat] /\ failures' \in Nat
    BY <1>4, IdleType, ForgetType, FailType DEF Crash, Shape
  <2>2. ExecutorShape'
    BY <1>4 DEF Crash, IdleExecutor, ExecutorShape, Held
  <2> QED BY <1>4, <2>1, <2>2 DEF Crash, dbVars, Shape, TypeOK, RetryShape
<1>5. CASE UNCHANGED vars
  BY <1>5 DEF vars, Shape, TypeOK, RetryShape, ExecutorShape, Held
<1> QED BY <1>1, <1>2, <1>3, <1>4, <1>5

LEMMA NextShape == ASSUME Shape, [Next]_vars PROVE Shape'
BY ToolShape, IterationShape, PlacementShape, WriteShape, EnvironmentShape DEF Next, ExecutorStep

(* Every variable keeps its type in every behaviour.                       *)
THEOREM TypeCorrect == Spec => []TypeOK
<1>1. Init => Shape
  BY InitShape
<1>2. Shape /\ [Next]_vars => Shape'
  BY NextShape
<1>3. Shape => TypeOK
  BY DEF Shape
<1> QED BY <1>1, <1>2, <1>3, PTL DEF Spec

-----------------------------------------------------------------------------
(* Rows whose placements must all be unknown to the database.              *)
Open(o) == status[o] \notin OnExchange \cup {"canceled"} \/ o \in Held

LEMMA InitAccount == Init => Account
BY DEF Init, Account, Accounted, DuplicatesArePaidFor, OpenMeansPlaced, OwedIsPlaced, Owed,
       IdleExecutor, OnExchange

(* A step that sends nothing, loses nothing and shows no new row as        *)
(* working keeps the account.                                              *)
LEMMA QuietStep ==
    ASSUME IInv, UNCHANGED <<placed, lost>>,
           \A o \in Orders : /\ Open(o)' => Open(o)
                             /\ Owed(o)' = Owed(o)
                             /\ status'[o] \in OnExchange => status[o] \in OnExchange
    PROVE  Account'
BY DEF IInv, Account, Accounted, DuplicatesArePaidFor, OpenMeansPlaced, OwedIsPlaced, Open

LEMMA ToolAccount ==
    ASSUME IInv, NEW r \in Requests, ToolStep(r)
    PROVE  Account'
<1>1. UNCHANGED <<ex, placed, lost>>
  BY DEF ToolStep, PlaceOrderRow, PlaceOrderRowAnswerLost, PlaceOrderRowError
<1>2. \/ UNCHANGED status
      \/ \E o \in Orders : status[o] = "none" /\ status' = [status EXCEPT ![o] = "pending"]
  BY DEF ToolStep, PlaceOrderRow, PlaceOrderRowAnswerLost, PlaceOrderRowError, InsertRow, dbVars
<1>3. \A o \in Orders : status'[o] # status[o] => status[o] = "none" /\ status'[o] = "pending"
  BY <1>2 DEF IInv, Shape, TypeOK
<1>4. \A o \in Orders : /\ Open(o)' => Open(o)
                        /\ Owed(o)' = Owed(o)
                        /\ status'[o] \in OnExchange => status[o] \in OnExchange
  BY <1>1, <1>3 DEF Open, Owed, Held, OnExchange
<1> QED BY <1>1, <1>4, QuietStep

LEMMA EnvironmentAccount ==
    ASSUME IInv,
           \/ \E o \in Orders : Cancel(o)
           \/ \E u \in Users, on \in BOOLEAN : SetAccountActive(u, on)
           \/ Shutdown \/ Restart \/ UNCHANGED vars
    PROVE  Account'
<1>1. UNCHANGED <<ex, placed, lost>>
  BY DEF Cancel, SetAccountActive, Shutdown, Restart, vars
<1>2. UNCHANGED status \/ \E o \in Orders : status' = [status EXCEPT ![o] = "canceled"]
  BY DEF Cancel, SetAccountActive, Shutdown, Restart, vars, dbVars
<1>3. \A o \in Orders : status'[o] \in {status[o], "canceled"}
  BY <1>2 DEF IInv, Shape, TypeOK
<1>4. \A o \in Orders : /\ Open(o)' => Open(o)
                        /\ Owed(o)' = Owed(o)
                        /\ status'[o] \in OnExchange => status[o] \in OnExchange
  BY <1>1, <1>3 DEF Open, Owed, Held, OnExchange
<1> QED BY <1>1, <1>4, QuietStep

(* Taking a snapshot, going to its next row, giving up, failing to send.   *)
LEMMA IterationHolds ==
    ASSUME Shape,
           \/ StartIteration \/ Interrupted \/ PlaceFails
           \/ \E o \in Orders : BeginOrder(o)
    PROVE  /\ UNCHANGED <<status, placed>>
           /\ \A o \in Held' : o \in Held \/ status[o] = "pending"
<1>0. UNCHANGED <<status, placed>>
  BY DEF StartIteration, Interrupted, PlaceFails, BeginOrder, dbVars
<1>1. \A o \in Held' : o \in Held \/ status[o] = "pending"
  <2>1. CASE PlaceFails
    <3>1. ex'.todo = ex.todo /\ ex'.cur = ex.cur
      BY <2>1 DEF PlaceFails, NextAttempt, Shape, TypeOK, ExecutorState
    <3> QED BY <3>1 DEF Held
  <2>2. CASE StartIteration
    BY <2>2, OldestSubset DEF StartIteration, IdleExecutor, Held, Pending
  <2>3. CASE Interrupted
    BY <2>3 DEF Interrupted, IdleExecutor, Held
  <2>4. ASSUME NEW o \in Orders, BeginOrder(o) PROVE \A p \in Held' : p \in Held \/ status[p] = "pending"
    <3>1. ex'.todo = ex.todo \ {o} /\ ex'.cur = o
      BY <2>4 DEF BeginOrder, Shape, TypeOK, ExecutorState
    <3>2. o \in ex.todo
      BY <2>4, OldestSubset DEF BeginOrder
    <3> QED BY <3>1, <3>2 DEF Held
  <2> QED BY <2>1, <2>2, <2>3, <2>4
<1> QED BY <1>0, <1>1

(* While an order is being sent the snapshot does not change.              *)
LEMMA SendHolds ==
    ASSUME Shape,
           AnswerLost \/ \E s \in OnExchange \cup Declined : ExchangeAnswers(s)
    PROVE  /\ UNCHANGED status /\ Held' = Held
           /\ ex'.cur = ex.cur /\ ex.cur \in Orders /\ ex.cur \in Held
           /\ \A o \in Orders \ {ex.cur} : placed'[o] = placed[o] /\ lost'[o] = lost[o]
<1>1. ex'.todo = ex.todo /\ ex'.cur = ex.cur
  <2>1. CASE AnswerLost
    <3>1. ex' \in {ex, [ex EXCEPT !.attempt = @ + 1], [ex EXCEPT !.pc = "reject"]}
      BY <2>1 DEF AnswerLost, NextAttempt
    <3> QED BY <3>1 DEF Shape, TypeOK, ExecutorState
  <2>2. ASSUME NEW s \in OnExchange \cup Declined, ExchangeAnswers(s) PROVE <1>1!:
    BY <2>2 DEF ExchangeAnswers, Shape, TypeOK, ExecutorState
  <2> QED BY <2>1, <2>2
<1>2. ex.cur \in Orders
  BY DEF AnswerLost, ExchangeAnswers, Shape, ExecutorShape
<1>3. Held' = Held /\ ex.cur \in Held
  BY <1>1, <1>2, ConstantsAssumption DEF Held
<1>4. /\ UNCHANGED status
      /\ \A o \in Orders \ {ex.cur} : placed'[o] = placed[o] /\ lost'[o] = lost[o]
  BY <1>2 DEF AnswerLost, ExchangeAnswers, dbVars, Shape, TypeOK
<1> QED BY <1>1, <1>2, <1>3, <1>4

LEMMA IterationAccount ==
    ASSUME IInv,
           \/ StartIteration \/ Interrupted \/ PlaceFails
           \/ \E o \in Orders : BeginOrder(o)
    PROVE  Account'
<1>1. UNCHANGED <<status, placed, lost>>
  BY DEF StartIteration, Interrupted, PlaceFails, BeginOrder, dbVars
<1>2. ex.pc # "save" /\ ex'.pc # "save"
  <2>1. CASE PlaceFails
    <3>1. ex.pc = "place"
      BY <2>1 DEF PlaceFails
    <3>2. ex' \in {ex, [ex EXCEPT !.attempt = @ + 1], [ex EXCEPT !.pc = "reject"]}
      BY <2>1 DEF PlaceFails, NextAttempt
    <3> QED BY <3>1, <3>2 DEF IInv, Shape, TypeOK, ExecutorState
  <2>2. CASE StartIteration \/ Interrupted
    <3>1. ex'.pc \in {"idle", "next"}
      <4>1. CASE StartIteration
        BY <4>1 DEF StartIteration, IdleExecutor
      <4>2. CASE Interrupted
        BY <4>2 DEF Interrupted, IdleExecutor
      <4> QED BY <2>2, <4>1, <4>2
    <3>2. ex.pc \in {"idle", "next"}
      BY <2>2 DEF StartIteration, Interrupted
    <3> QED BY <3>1, <3>2
  <2>3. ASSUME NEW o \in Orders, BeginOrder(o) PROVE <1>2!:
    BY <2>3 DEF BeginOrder, IInv, Shape, TypeOK, ExecutorState
  <2> QED BY <2>1, <2>2, <2>3
<1>3. \A o \in Held' : o \in Held \/ status[o] = "pending"
  BY IterationHolds DEF IInv
<1>4. \A o \in Orders : /\ Open(o)' => Open(o)
                        /\ Owed(o)' = Owed(o)
                        /\ status'[o] \in OnExchange => status[o] \in OnExchange
  BY <1>1, <1>2, <1>3 DEF Open, Owed, OnExchange
<1> QED BY <1>1, <1>4, QuietStep

(* The exchange answers, or accepts without the executor learning of it.   *)
LEMMA SendAccount ==
    ASSUME IInv,
           AnswerLost \/ \E s \in OnExchange \cup Declined : ExchangeAnswers(s)
    PROVE  Account'
<1>0. PICK c \in Orders : c = ex.cur
  BY DEF AnswerLost, ExchangeAnswers, IInv, Shape, ExecutorShape
<1>1. /\ ex.pc = "place" /\ c \in Held
      /\ \A o \in Orders : Owed(o) = 0
      /\ placed[c] \in Nat /\ lost[c] \in Nat /\ placed[c] <= lost[c]
  <2>1. ex.pc = "place" /\ placed[c] \in Nat /\ lost[c] \in Nat
    BY DEF AnswerLost, ExchangeAnswers, IInv, Shape, TypeOK, ExecutorShape
  <2>2. c \in Held /\ \A o \in Orders : Owed(o) = 0
    BY <1>0, <2>1, ConstantsAssumption DEF Held, Owed
  <2>3. placed[c] <= lost[c]
    BY <2>1, <2>2 DEF IInv, Account, Accounted
  <2> QED BY <2>1, <2>2, <2>3
<1>2. UNCHANGED status /\ ex'.cur = c /\ ex'.todo = ex.todo
  <2>1. CASE AnswerLost
    <3>1. ex' \in {ex, [ex EXCEPT !.attempt = @ + 1], [ex EXCEPT !.pc = "reject"]}
      BY <2>1 DEF AnswerLost, NextAttempt
    <3> QED BY <1>0, <2>1, <3>1 DEF AnswerLost, dbVars, IInv, Shape, TypeOK, ExecutorState
  <2>2. ASSUME NEW s \in OnExchange \cup Declined, ExchangeAnswers(s) PROVE <1>2!:
    BY <1>0, <2>2 DEF ExchangeAnswers, dbVars, IInv, Shape, TypeOK, ExecutorState
  <2> QED BY <2>1, <2>2
<1>3. Held' = Held
  BY <1>0, <1>2 DEF Held
<1>4. \A o \in Orders \ {c} : /\ placed'[o] = placed[o]
                             /\ lost'[o] = lost[o]
                             /\ Owed(o)' = 0
  BY <1>0, <1>2 DEF AnswerLost, ExchangeAnswers, IInv, Shape, TypeOK, Owed
<1>5. /\ placed'[c] \in Nat /\ lost'[c] \in Nat
      /\ placed'[c] >= placed[c]
      /\ placed'[c] <= lost'[c] + Owed(c)'
      /\ Owed(c)' \in {0, 1}
      /\ Owed(c)' = 1 => placed'[c] >= 1
  <2>1. CASE AnswerLost
    <3>1. /\ placed' = [placed EXCEPT ![c] = @ + 1]
          /\ lost' = [lost EXCEPT ![c] = @ + 1]
          /\ ex' \in {ex, [ex EXCEPT !.attempt = @ + 1], [ex EXCEPT !.pc = "reject"]}
      BY <1>0, <2>1 DEF AnswerLost, NextAttempt
    <3>2. ex'.pc # "save"
      BY <1>1, <3>1 DEF IInv, Shape, TypeOK, ExecutorState
    <3>3. Owed(c)' = 0
      BY <3>2 DEF Owed
    <3>4. placed'[c] = placed[c] + 1 /\ lost'[c] = lost[c] + 1
      BY <1>1, <3>1 DEF IInv, Shape, TypeOK
    <3> QED BY <1>1, <3>3, <3>4
  <2>2. ASSUME NEW s \in OnExchange \cup Declined, ExchangeAnswers(s) PROVE <1>5!:
    <3>1. ex'.pc = "save" /\ ex'.reply = s /\ lost'[c] = lost[c]
      BY <1>0, <2>2 DEF ExchangeAnswers, IInv, Shape, TypeOK, ExecutorState
    <3>2. CASE s \in OnExchange
      <4>1. placed'[c] = placed[c] + 1
        BY <1>0, <2>2, <3>2 DEF ExchangeAnswers, IInv, Shape, TypeOK
      <4>2. Owed(c)' = 1
        BY <1>2, <3>1, <3>2 DEF Owed
      <4> QED BY <1>1, <3>1, <4>1, <4>2
    <3>3. CASE s \notin OnExchange
      <4>1. placed'[c] = placed[c]
        BY <2>2, <3>3 DEF ExchangeAnswers
      <4>2. Owed(c)' = 0
        BY <1>2, <3>1, <3>3 DEF Owed
      <4> QED BY <1>1, <3>1, <4>1, <4>2
    <3> QED BY <3>2, <3>3
  <2> QED BY <2>1, <2>2
<1>6. \A o \in Orders : placed[o] \in Nat /\ lost[o] \in Nat
  BY DEF IInv, Shape, TypeOK
<1>7. Accounted'
  <2> SUFFICES ASSUME NEW o \in Orders,
                      (status[o] \notin OnExchange \cup {"canceled"} \/ o \in Held)'
               PROVE  placed'[o] <= lost'[o] + Owed(o)'
    BY DEF Accounted
  <2>1. CASE o = c
    BY <1>5, <2>1
  <2>2. CASE o # c
    <3>1. placed[o] <= lost[o] + Owed(o)
      BY <1>2, <1>3 DEF IInv, Account, Accounted
    <3> QED BY <1>1, <1>4, <2>2, <3>1
  <2> QED BY <2>1, <2>2
<1>8. DuplicatesArePaidFor'
  BY <1>4, <1>5, <1>6 DEF DuplicatesArePaidFor, IInv, Account
<1>9. OpenMeansPlaced'
  BY <1>1, <1>2, <1>4, <1>5 DEF OpenMeansPlaced, IInv, Account
<1>10. OwedIsPlaced'
  <2> SUFFICES ASSUME NEW o \in Orders, Owed(o)' = 1 PROVE placed'[o] >= 1
    BY DEF OwedIsPlaced
  <2>1. o = c
    BY <1>4
  <2> QED BY <1>5, <2>1
<1> QED BY <1>7, <1>8, <1>9, <1>10 DEF Account

(* Once the executor goes on to its next row nothing is owed any more.     *)
LEMMA ReleaseCurrent ==
    ASSUME Shape, ex' = Proceed \/ ex' = IdleExecutor
    PROVE  Held' \subseteq ex.todo /\ Held' \subseteq Held /\ \A o \in Orders : Owed(o)' = 0
<1>1. ex'.cur = None /\ ex'.pc # "save" /\ ex'.todo \subseteq ex.todo
  <2>1. CASE ex' = Proceed
    <3>1. CASE ex.todo = {}
      BY <2>1, <3>1 DEF Proceed, IdleExecutor
    <3>2. CASE ex.todo # {}
      BY <2>1, <3>2 DEF Proceed, IdleExecutor
    <3> QED BY <3>1, <3>2
  <2>2. CASE ex' = IdleExecutor
    BY <2>2 DEF IdleExecutor
  <2> QED BY <2>1, <2>2
<1> QED BY <1>1 DEF Held, Owed

(* The result of the current row is written, or is not: then a known       *)
(* placement becomes a lost one.                                           *)
LEMMA WriteAccount ==
    ASSUME IInv, SaveReply \/ SaveReplyError \/ Reject \/ RejectError \/ Crash
    PROVE  Account'
<1>0. Shape
  BY DEF IInv
<1>1. /\ Held' \subseteq ex.todo /\ Held' \subseteq Held /\ ex.cur \notin Held'
      /\ \A o \in Orders : Owed(o)' = 0
      /\ UNCHANGED placed
  <2>1. ex' = Proceed \/ ex' = IdleExecutor
    BY DEF SaveReply, SaveReplyError, Reject, RejectError, Crash
  <2>2. UNCHANGED placed
    BY DEF SaveReply, SaveReplyError, Reject, RejectError, Crash
  <2> QED BY <1>0, <2>1, <2>2, ReleaseCurrent DEF Shape, ExecutorShape
<1>2. \A o \in Orders : /\ placed[o] \in Nat /\ lost[o] \in Nat
                        /\ Owed(o) \in {0, 1}
  BY DEF IInv, Shape, TypeOK, Owed
<1>3. CASE SaveReplyError \/ RejectError \/ Crash
  <2>1. UNCHANGED status
    BY <1>3 DEF SaveReplyError, RejectError, Crash, dbVars
  <2>2. \A o \in Orders : lost'[o] = lost[o] + Owed(o)
    <3>1. CASE RejectError
      BY <1>2, <3>1 DEF RejectError, Owed, IInv, Shape, TypeOK
    <3>2. CASE SaveReplyError \/ Crash
      BY <1>2, <3>2 DEF SaveReplyError, Crash, ForgetReply, Owed, IInv, Shape, TypeOK
    <3> QED BY <1>3, <3>1, <3>2
  <2>3. Accounted'
    BY <1>1, <1>2, <2>1, <2>2 DEF Accounted, IInv, Account
  <2>4. DuplicatesArePaidFor'
    BY <1>1, <1>2, <2>2 DEF DuplicatesArePaidFor, IInv, Account
  <2>5. OpenMeansPlaced' /\ OwedIsPlaced'
    BY <1>1, <2>1 DEF OpenMeansPlaced, OwedIsPlaced, IInv, Account
  <2> QED BY <2>3, <2>4, <2>5 DEF Account
<1>4. CASE SaveReply \/ Reject
  <2>0. PICK c \in Orders : c = ex.cur
    BY <1>0, <1>4 DEF SaveReply, Reject, Shape, ExecutorShape
  <2>1. /\ UNCHANGED lost
        /\ c \in Held /\ c \notin Held'
        /\ \A o \in Orders : o # c => status'[o] = status[o] /\ Owed(o) = 0
    <3>1. UNCHANGED lost
      BY <1>4 DEF SaveReply, Reject
    <3>2. c \in Held /\ c \notin Held'
      BY <1>1, <2>0, ConstantsAssumption DEF Held
    <3>3. \A o \in Orders : o # c => status'[o] = status[o]
      BY <1>0, <1>4, <2>0 DEF SaveReply, Reject, Shape, TypeOK
    <3> QED BY <2>0, <3>1, <3>2, <3>3 DEF Owed
  <2>2. /\ status'[c] \in OnExchange => Owed(c) = 1
        /\ status'[c] \notin OnExchange => Owed(c) = 0
    BY <1>0, <1>4, <2>0 DEF SaveReply, Reject, Owed, Shape, TypeOK, OnExchange
  <2>3. Accounted'
    BY <1>1, <1>2, <2>1, <2>2 DEF Accounted, IInv, Account
  <2>4. DuplicatesArePaidFor'
    BY <1>1, <2>1 DEF DuplicatesArePaidFor, IInv, Account
  <2>5. OpenMeansPlaced' /\ OwedIsPlaced'
    BY <1>1, <2>1, <2>2 DEF OpenMeansPlaced, OwedIsPlaced, IInv, Account
  <2> QED BY <2>3, <2>4, <2>5 DEF Account
<1> QED BY <1>3, <1>4

LEMMA NextInv == ASSUME IInv, [Next]_vars PROVE IInv'
<1>1. Shape'
  BY NextShape DEF IInv
<1>2. Account'
  BY ToolAccount, EnvironmentAccount, IterationAccount, SendAccount, WriteAccount
     DEF Next, ExecutorStep
<1> QED BY <1>1, <1>2 DEF IInv

(* The rows of the snapshot that the executor may still send were pending  *)
(* when it was taken; meanwhile they can only have been canceled.          *)
HeldStatus == \A o \in Held : status[o] \in {"pending", "canceled"}

(* Only the executor, for its current row, gives a row a status other than *)
(* pending (on insertion) and canceled, and it then drops the row; a row   *)
(* enters the snapshot only as pending.                                    *)
LEMMA StatusMoves ==
    ASSUME Shape, [Next]_vars
    PROVE  /\ \A o \in Orders : \/ status'[o] \in {status[o], "canceled"}
                                \/ status[o] = "none" /\ status'[o] = "pending"
                                \/ o \in Held /\ o \notin Held' /\ status'[o] # "none"
                                                               /\ status'[o] # "pending"
           /\ \A o \in Held' : o \in Held \/ (status[o] = "pending" /\ status'[o] = status[o])
           /\ \A o \in Orders : o \in Held \/ placed'[o] = placed[o]
<1>1. ASSUME NEW r \in Requests, ToolStep(r)
      PROVE  /\ \A o \in Orders : \/ status'[o] = status[o]
                                  \/ status[o] = "none" /\ status'[o] = "pending"
             /\ UNCHANGED <<ex, placed>>
  BY <1>1 DEF ToolStep, PlaceOrderRow, PlaceOrderRowAnswerLost, PlaceOrderRowError, InsertRow,
              dbVars, Shape, TypeOK
<1>2. ASSUME NEW o \in Orders, Cancel(o)
      PROVE  /\ \A p \in Orders : status'[p] \in {status[p], "canceled"}
             /\ UNCHANGED <<ex, placed>>
  BY <1>2 DEF Cancel, Shape, TypeOK
<1>3. ASSUME \/ \E u \in Users, on \in BOOLEAN : SetAccountActive(u, on)
             \/ Shutdown \/ Restart \/ UNCHANGED vars
      PROVE  UNCHANGED <<status, ex, placed>>
  BY <1>3 DEF SetAccountActive, Shutdown, Restart, vars, dbVars
<1>4. ASSUME SaveReply \/ Reject
      PROVE  /\ \A o \in Orders \ {ex.cur} : status'[o] = status[o]
             /\ ex.cur \in Held /\ ex.cur \notin Held' /\ Held' \subseteq Held
             /\ status'[ex.cur] # "none" /\ status'[ex.cur] # "pending"
             /\ UNCHANGED placed
  <2>1. ex' = Proceed /\ ex.cur \in Orders /\ UNCHANGED placed
    BY <1>4 DEF SaveReply, Reject, Shape, ExecutorShape
  <2>2. ex.cur \in Held
    BY <2>1, ConstantsAssumption DEF Held
  <2>3. ex.cur \notin Held' /\ Held' \subseteq Held
    BY <2>1, ReleaseCurrent DEF Shape, ExecutorShape
  <2> QED BY <1>4, <2>1, <2>2, <2>3
          DEF SaveReply, Reject, Shape, TypeOK, ExecutorShape, OnExchange, Declined
<1>5. ASSUME SaveReplyError \/ RejectError \/ Crash
      PROVE  UNCHANGED <<status, placed>> /\ Held' \subseteq Held
  <2>1. ex' = Proceed \/ ex' = IdleExecutor
    BY <1>5 DEF SaveReplyError, RejectError, Crash
  <2> QED BY <1>5, <2>1, ReleaseCurrent DEF SaveReplyError, RejectError, Crash, dbVars
<1>6. ASSUME \/ StartIteration \/ Interrupted \/ PlaceFails
             \/ \E o \in Orders : BeginOrder(o)
      PROVE  /\ UNCHANGED <<status, placed>>
             /\ \A o \in Held' : o \in Held \/ status[o] = "pending"
  BY <1>6, IterationHolds
<1>7. ASSUME AnswerLost \/ \E s \in OnExchange \cup Declined : ExchangeAnswers(s)
      PROVE  /\ UNCHANGED status /\ Held' = Held
             /\ \A o \in Orders : o \in Held \/ placed'[o] = placed[o]
  BY <1>7, SendHolds
<1>8. ASSUME UNCHANGED ex PROVE Held' = Held
  BY <1>8 DEF Held
<1>9. CASE \E r \in Requests : ToolStep(r)
  <2>1. \A o \in Orders : \/ status'[o] = status[o]
                          \/ status[o] = "none" /\ status'[o] = "pending"
    BY <1>1, <1>9
  <2>2. Held' = Held /\ UNCHANGED placed
    BY <1>1, <1>8, <1>9
  <2> QED BY <2>1, <2>2
<1>10. CASE \E o \in Orders : Cancel(o)
  <2>1. \A o \in Orders : status'[o] \in {status[o], "canceled"}
    BY <1>2, <1>10
  <2>2. Held' = Held /\ UNCHANGED placed
    BY <1>2, <1>8, <1>10
  <2> QED BY <2>1, <2>2
<1>11. CASE \/ \E u \in Users, on \in BOOLEAN : SetAccountActive(u, on)
            \/ Shutdown \/ Restart \/ UNCHANGED vars
  BY <1>3, <1>8, <1>11
<1>12. CASE SaveReply \/ Reject
  <2>1. /\ \A o \in Orders \ {ex.cur} : status'[o] = status[o]
        /\ ex.cur \in Held /\ ex.cur \notin Held' /\ Held' \subseteq Held
        /\ status'[ex.cur] # "none" /\ status'[ex.cur] # "pending"
        /\ UNCHANGED placed
    BY <1>4, <1>12
  <2> QED BY <2>1
<1>13. CASE SaveReplyError \/ RejectError \/ Crash
  BY <1>5, <1>13
<1>14. CASE StartIteration \/ Interrupted \/ PlaceFails \/ \E o \in Orders : BeginOrder(o)
  BY <1>6, <1>14
<1>15. CASE AnswerLost \/ \E s \in OnExchange \cup Declined : ExchangeAnswers(s)
  BY <1>7, <1>15
<1> QED BY <1>9, <1>10, <1>11, <1>12, <1>13, <1>14, <1>15 DEF Next, ExecutorStep

LEMMA InvHolds == Spec => []IInv
<1>1. Init => IInv
  BY InitShape, InitAccount DEF IInv
<1> QED BY <1>1, NextInv, PTL DEF Spec

(* An order works on the exchange at most once more often than the         *)
(* database missed an accepted placement of it.                            *)
THEOREM DuplicatesBounded == Spec => []DuplicatesArePaidFor
<1>1. IInv => DuplicatesArePaidFor
  BY DEF IInv, Account
<1> QED BY <1>1, InvHolds, PTL

(* A row shown as open, partial or filled was accepted by the exchange.    *)
THEOREM OpenRowsPlaced == Spec => []OpenMeansPlaced
<1>1. IInv => OpenMeansPlaced
  BY DEF IInv, Account
<1> QED BY <1>1, InvHolds, PTL

(* A rejected or expired row lives on the exchange only through placements *)
(* the executor never got to see.                                          *)
THEOREM RejectionsAccounted == Spec => []RejectedMeansUnknownOnly
<1>1. Init => HeldStatus
  BY DEF Init, HeldStatus, Held, IdleExecutor
<1>2. IInv /\ HeldStatus /\ [Next]_vars => HeldStatus'
  <2> SUFFICES ASSUME IInv, HeldStatus, [Next]_vars, NEW o \in Held'
               PROVE  status'[o] \in {"pending", "canceled"}
    BY DEF HeldStatus
  <2>1. o \in Held \/ (status[o] = "pending" /\ status'[o] = status[o])
    BY StatusMoves DEF IInv
  <2>2. ASSUME o \in Held PROVE status'[o] \in {status[o], "canceled"}
    BY <2>2, HeldIs, StatusMoves DEF IInv, HeldStatus
  <2> QED BY <2>1, <2>2 DEF HeldStatus
<1>3. IInv /\ HeldStatus => RejectedMeansUnknownOnly
  <2> SUFFICES ASSUME IInv, HeldStatus, NEW o \in Orders, status[o] \in {"rejected", "expired"}
               PROVE  placed[o] <= lost[o]
    BY DEF RejectedMeansUnknownOnly
  <2>1. o \notin Held
    BY DEF HeldStatus
  <2>2. Owed(o) = 0
    BY <2>1, ConstantsAssumption DEF Owed, Held
  <2>3. placed[o] <= lost[o] + Owed(o)
    BY DEF IInv, Account, Accounted, OnExchange
  <2> QED BY <2>2, <2>3 DEF IInv, Shape, TypeOK
<1> QED BY <1>1, <1>2, <1>3, InvHolds, PTL DEF Spec

(* An order the executor is done with is never taken up or sent again.     *)
THEOREM DoneIsDone == Spec => NeverResent
<1>1. ASSUME IInv, [Next]_vars, NEW o \in Orders, Released(o)
      PROVE  Released(o)' /\ placed'[o] = placed[o]
  BY <1>1, StatusMoves DEF IInv, Released
<1>2. IInv /\ [Next]_vars
      => [\A o \in Orders : Released(o) => Released(o)' /\ placed'[o] = placed[o]]_vars
  BY <1>1
<1> QED BY <1>2, InvHolds, PTL DEF Spec, NeverResent

(* A canceled, rejected or expired row that is not in the snapshot never   *)
(* comes back to life.                                                     *)
THEOREM FinalRowsStayFinal == Spec => FinalOnceReleased
<1>1. IInv /\ [Next]_vars
      => [\A o \in Orders : (status[o] \in Declined /\ o \notin Held)
                              => status'[o] \in {status[o], "canceled"}]_vars
  BY StatusMoves DEF IInv, Declined
<1> QED BY <1>1, InvHolds, PTL DEF Spec, FinalOnceReleased

-----------------------------------------------------------------------------
(* The kill switch: what an undisturbed stop without errors guarantees.    *)
(* The order path keeps the invariant Shape under it as well, since every  *)
(* step of EmergencyStop is a step of OrderExecution or leaves its         *)
(* variables alone.                                                        *)

(* The variables of the kill switch have their types.                      *)
StopTypes ==
    /\ posOpen \subseteq Positions
    /\ copy \in Positions \cup {None}
    /\ breaker \subseteq Users
    /\ flag \subseteq Users
    /\ pc \in [Users -> {"idle", "positions", "orders", "flag"}]
    /\ posTodo \in [Users -> SUBSET Positions]
    /\ ordTodo \in [Users -> SUBSET Orders]
    /\ marks \in [Users -> SUBSET {"errors", "disturbed", "sealed"}]
    /\ stopFailures \in Nat

(* An activation closes positions of its own user only.                    *)
OwnPositions == \A u \in Users : \A p \in posTodo[u] : PositionOwner[p] = u

(* A sealed stop has returned, and had no error.                           *)
SealedReturned == \A u \in Users : "sealed" \in marks[u] => pc[u] = "idle" /\ "errors" \notin marks[u]

(* The executor holds no row of the user.                                  *)
Quiet(u) == Held \cap OrdersOf(u) = {}

(* No position of the user is open, and no update is about to reopen one.  *)
Closed(u) == OpenPositions(u) = {} /\ ~HoldsClosed(u)

Clean(u) == "errors" \notin marks[u] /\ "disturbed" \notin marks[u]

(* What an activation has achieved when it is at each of its places.       *)
Progress(u) ==
    /\ pc[u] = "positions" => OpenPositions(u) \subseteq posTodo[u] /\ ~HoldsClosed(u)
    /\ pc[u] = "orders" => Closed(u) /\ Quiet(u) /\ OpenOrders(u) \subseteq ordTodo[u]
    /\ pc[u] = "flag" \/ (pc[u] = "idle" /\ "sealed" \in marks[u])
           => Closed(u) /\ Quiet(u) /\ OpenOrders(u) = {}

CleanProgress == \A u \in Users : Clean(u) => Progress(u)

StopShape == Shape /\ StopTypes /\ OwnPositions /\ SealedReturned

StopInv == StopShape /\ CleanProgress

-----------------------------------------------------------------------------
(* Every step is one of the order path or leaves its variables alone.      *)
LEMMA StopStepIsOrderStep == ASSUME [StopNext]_allVars PROVE [Next]_vars
BY DEF StopNext, OrderPathStep, ProcessEnds, ReadPosition, WritePosition, Activate, StopStep,
       Deactivate, ClosePosition, FetchOrders, CancelFetched, SetBreaker, SetFlag, allVars, Next

(* The tool call of a row is fixed when the row is inserted.               *)
LEMMA OriginFixed ==
    ASSUME Shape, [Next]_vars
    PROVE  \A o \in Created : origin'[o] = origin[o]
<1>1. ASSUME NEW r \in Requests, ToolStep(r) PROVE \A o \in Created : origin'[o] = origin[o]
  BY <1>1 DEF ToolStep, PlaceOrderRow, PlaceOrderRowAnswerLost, PlaceOrderRowError, InsertRow,
              dbVars, Shape, TypeOK, Created
<1>2. ASSUME ~ \E r \in Requests : ToolStep(r) PROVE UNCHANGED origin
  BY <1>2 DEF Next, Cancel, SetAccountActive, ExecutorStep, StartIteration, BeginOrder,
              Interrupted, ExchangeAnswers, AnswerLost, PlaceFails, SaveReply, SaveReplyError,
              Reject, RejectError, Shutdown, Restart, Crash, vars, dbVars
<1> QED BY <1>1, <1>2

(* A step that inserts no row of the user leaves the set of its rows       *)
(* alone; rows the executor does not hold are only canceled, and those it  *)
(* newly holds were pending.                                               *)
LEMMA OrdersOfUser ==
    ASSUME Shape, [Next]_vars, NEW u \in Users, Inserted(u) = {}
    PROVE  /\ OrdersOf(u)' = OrdersOf(u)
           /\ Quiet(u) => OpenOrders(u)' \subseteq OpenOrders(u)
           /\ Quiet(u) /\ OpenOrders(u) = {} => Quiet(u)'
<1>1. \A o \in Orders : status[o] # "none" => status'[o] # "none"
  BY StatusMoves
<1>2. OrdersOf(u)' = OrdersOf(u)
  <2>1. \A o \in Created : o \in Created' /\ origin'[o] = origin[o]
    BY <1>1, OriginFixed DEF Created
  <2>2. \A o \in Created' \ Created : UserOf[origin'[o]] # u
    BY DEF Inserted
  <2> QED BY <2>1, <2>2 DEF OrdersOf, OwnerOf
<1>3. ASSUME Quiet(u) PROVE OpenOrders(u)' \subseteq OpenOrders(u)
  <2> SUFFICES ASSUME NEW o \in OpenOrders(u)' PROVE o \in OpenOrders(u)
    OBVIOUS
  <2>1. o \in OrdersOf(u) /\ o \in Orders /\ status'[o] \in {"pending", "open", "partial"}
    BY <1>2 DEF OpenOrders, OrdersOf, Created
  <2>2. status[o] # "none" /\ o \notin Held
    BY <1>3, <2>1 DEF Quiet, OrdersOf, Created
  <2>3. status'[o] \in {status[o], "canceled"}
    BY <2>1, <2>2, StatusMoves
  <2> QED BY <2>1, <2>3 DEF OpenOrders
<1>4. ASSUME Quiet(u), OpenOrders(u) = {} PROVE Quiet(u)'
  <2>1. \A o \in Held' : o \in Held \/ status[o] = "pending"
    BY StatusMoves
  <2>2. \A o \in OrdersOf(u) : status[o] # "pending"
    BY <1>4 DEF OpenOrders
  <2> QED BY <1>2, <1>4, <2>1, <2>2 DEF Quiet
<1> QED BY <1>2, <1>3, <1>4

(* Nothing is inserted by a step that leaves the order path alone, cancels *)
(* a row or ends the process.                                              *)
LEMMA NothingInserted ==
    ASSUME Shape, NEW u \in Users,
           UNCHANGED vars \/ Restart \/ Crash \/ \E o \in Orders : Cancel(o)
    PROVE  Inserted(u) = {} /\ Held' \subseteq Held
<1>1. \A o \in Orders : status'[o] # "none" => status[o] # "none"
  BY DEF vars, Restart, Crash, dbVars, Cancel, Shape, TypeOK
<1>2. Held' \subseteq Held
  BY DEF vars, Restart, Crash, Cancel, Held, IdleExecutor
<1> QED BY <1>1, <1>2 DEF Inserted, Created

(* A stop that is past the positions, or sealed and still so, looks at the *)
(* orders of its user.                                                     *)
Guards(u) == pc[u] \in {"orders", "flag"} \/ (pc[u] = "idle" /\ "sealed" \in marks'[u])

(* What is clean stays in progress when nothing of the user gets worse.    *)
LEMMA ProgressKept ==
    ASSUME NEW u \in Users, Clean(u) => Progress(u), Clean(u)' => Clean(u),
           pc'[u] = pc[u], posTodo'[u] = posTodo[u], ordTodo'[u] = ordTodo[u],
           "sealed" \in marks'[u] => "sealed" \in marks[u],
           OpenPositions(u)' \subseteq OpenPositions(u), HoldsClosed(u)' => HoldsClosed(u),
           Clean(u)' /\ Guards(u) /\ Quiet(u) => OpenOrders(u)' \subseteq OpenOrders(u),
           Clean(u)' /\ Guards(u) /\ Quiet(u) /\ (pc[u] = "idle" => OpenOrders(u) = {}) => Quiet(u)'
    PROVE  Clean(u)' => Progress(u)'
<1> SUFFICES ASSUME Clean(u)' PROVE Progress(u)'
  OBVIOUS
<1>1. Progress(u)
  OBVIOUS
<1>2. CASE pc[u] = "positions"
  BY <1>1, <1>2 DEF Progress
<1>3. CASE pc[u] = "orders"
  BY <1>1, <1>3 DEF Progress, Closed, Guards
<1>4. CASE pc[u] = "flag"
  BY <1>1, <1>4 DEF Progress, Closed, Guards
<1>5. CASE pc[u] = "idle" /\ "sealed" \in marks'[u]
  BY <1>1, <1>5 DEF Progress, Closed, Guards
<1> QED BY <1>2, <1>3, <1>4, <1>5 DEF Progress

-----------------------------------------------------------------------------
(* The types, the owners of fetched positions and what sealed means.       *)
LEMMA InitStop == StopInit => StopInv
<1> SUFFICES ASSUME StopInit PROVE StopInv
  OBVIOUS
<1>1. Shape
  BY InitShape DEF StopInit
<1>2. StopTypes
  BY StopConstantsAssumption DEF StopInit, StopTypes
<1>3. OwnPositions /\ SealedReturned
  BY DEF StopInit, OwnPositions, SealedReturned
<1>4. CleanProgress
  BY DEF StopInit, CleanProgress, Progress
<1> QED BY <1>1, <1>2, <1>3, <1>4 DEF StopInv, StopShape

LEMMA StopTypesKept == ASSUME StopShape, [StopNext]_allVars PROVE StopShape'
<1> USE DEF StopShape
<1>1. Shape'
  BY StopStepIsOrderStep, NextShape
<1> DEFINE Rest == StopTypes /\ OwnPositions /\ SealedReturned
<1> SUFFICES Rest'
  BY <1>1
<1>2. CASE OrderPathStep
  BY <1>2 DEF OrderPathStep, Marked, StopTypes, OwnPositions, SealedReturned
<1>3. CASE ProcessEnds
  BY <1>3 DEF ProcessEnds, StopTypes, OwnPositions, SealedReturned
<1>4. ASSUME NEW p \in Positions, ReadPosition(p) PROVE Rest'
  BY <1>4 DEF ReadPosition, ksVars, StopTypes, OwnPositions, SealedReturned
<1>5. CASE WritePosition
  BY <1>5 DEF WritePosition, CallFails, ksVars, StopTypes, OwnPositions, SealedReturned
<1>6. ASSUME NEW u \in Users, Activate(u) PROVE Rest'
  BY <1>6 DEF Activate, CallFails, OpenPositions, StopTypes, OwnPositions, SealedReturned
<1>7. ASSUME NEW u \in Users, NEW p \in Positions, ClosePosition(u, p) PROVE Rest'
  BY <1>7 DEF ClosePosition, StopCallFails, CallFails, Mark, StopTypes, OwnPositions, SealedReturned
<1>8. ASSUME NEW u \in Users, FetchOrders(u) PROVE Rest'
  BY <1>8 DEF FetchOrders, StopCallFails, CallFails, Mark, OpenOrders, OrdersOf, Created,
              StopTypes, OwnPositions, SealedReturned
<1>9. ASSUME NEW u \in Users, NEW o \in Orders, CancelFetched(u, o) PROVE Rest'
  BY <1>9 DEF CancelFetched, StopCallFails, CallFails, Mark, StopTypes, OwnPositions, SealedReturned
<1>10. ASSUME NEW u \in Users, SetBreaker(u) PROVE Rest'
  BY <1>10 DEF SetBreaker, StopCallFails, CallFails, Mark, StopTypes, OwnPositions, SealedReturned
<1>11. ASSUME NEW u \in Users, SetFlag(u) PROVE Rest'
  BY <1>11 DEF SetFlag, CallFails, Mark, StopTypes, OwnPositions, SealedReturned
<1>12. ASSUME NEW u \in Users, Deactivate(u) PROVE Rest'
  BY <1>12 DEF Deactivate, CallFails, StopTypes, OwnPositions, SealedReturned
<1>13. CASE UNCHANGED allVars
  BY <1>13 DEF allVars, stopVars, ksVars, StopTypes, OwnPositions, SealedReturned
<1> HIDE DEF Rest
<1> QED BY <1>2, <1>3, <1>4, <1>5, <1>6, <1>7, <1>8, <1>9, <1>10, <1>11, <1>12, <1>13
        DEF StopNext, StopStep

-----------------------------------------------------------------------------
(* A step that inserts no row of the user and takes none up.               *)
LEMMA OrdersKept ==
    ASSUME Shape, NEW u \in Users,
           UNCHANGED vars \/ Restart \/ Crash \/ \E o \in Orders : Cancel(o)
    PROVE  /\ OrdersOf(u)' = OrdersOf(u)
           /\ Quiet(u) => OpenOrders(u)' \subseteq OpenOrders(u)
           /\ Quiet(u) => Quiet(u)'
<1>1. [Next]_vars
  BY DEF Next
<1>2. Inserted(u) = {} /\ Held' \subseteq Held
  BY NothingInserted
<1>3. OrdersOf(u)' = OrdersOf(u) /\ (Quiet(u) => OpenOrders(u)' \subseteq OpenOrders(u))
  BY <1>1, <1>2, OrdersOfUser
<1> QED BY <1>2, <1>3 DEF Quiet

(* A stop whose own record a step leaves alone is kept by it, if the order *)
(* path takes no row of the user up and no position of the user is opened. *)
LEMMA RecordKept ==
    ASSUME StopInv, NEW u \in Users,
           UNCHANGED vars \/ \E o \in Orders : Cancel(o),
           pc'[u] = pc[u], posTodo'[u] = posTodo[u], ordTodo'[u] = ordTodo[u],
           Clean(u)' => Clean(u), "sealed" \in marks'[u] => "sealed" \in marks[u],
           OpenPositions(u)' \subseteq OpenPositions(u), HoldsClosed(u)' => HoldsClosed(u)
    PROVE  Clean(u)' => Progress(u)'
<1>1. Shape /\ (Clean(u) => Progress(u))
  BY DEF StopInv, StopShape, CleanProgress
<1>2. (Quiet(u) => OpenOrders(u)' \subseteq OpenOrders(u)) /\ (Quiet(u) => Quiet(u)')
  BY <1>1, OrdersKept
<1> QED BY <1>1, <1>2, ProgressKept

(* Positions of a user of which no closed row is held stay closed.         *)
LEMMA PositionsSame ==
    ASSUME NEW u \in Users, UNCHANGED <<posOpen, copy>>
    PROVE  OpenPositions(u)' = OpenPositions(u) /\ HoldsClosed(u)' = HoldsClosed(u)
BY DEF OpenPositions, HoldsClosed

LEMMA OrderPathProgress == ASSUME StopInv, OrderPathStep PROVE CleanProgress'
<1> SUFFICES ASSUME NEW u \in Users PROVE Clean(u)' => Progress(u)'
  BY DEF CleanProgress
<1>1. Shape /\ [Next]_vars /\ (Clean(u) => Progress(u))
  BY DEF StopInv, StopShape, CleanProgress, OrderPathStep, Next
<1>2. /\ UNCHANGED <<posOpen, copy, pc, posTodo, ordTodo>>
      /\ marks'[u] = Marked(u)
  BY DEF OrderPathStep
<1>3. Clean(u)' => Clean(u) /\ ~Disturbed(u)
  BY <1>2 DEF Clean, Marked
<1>4. "sealed" \in marks'[u] => "sealed" \in marks[u] /\ Inserted(u) = {}
  BY <1>2 DEF Marked
<1>5. ASSUME Clean(u)', Guards(u) PROVE Inserted(u) = {}
  BY <1>3, <1>4, <1>5 DEF Guards, Disturbed
<1>6. ASSUME Clean(u)', Guards(u), Quiet(u) PROVE OpenOrders(u)' \subseteq OpenOrders(u)
  BY <1>1, <1>5, <1>6, OrdersOfUser
<1>7. ASSUME Clean(u)', Guards(u), Quiet(u), pc[u] = "idle" => OpenOrders(u) = {} PROVE Quiet(u)'
  <2>1. CASE pc[u] = "idle"
    BY <1>1, <1>5, <1>7, <2>1, OrdersOfUser
  <2>2. CASE pc[u] \in {"orders", "flag"}
    <3>1. Held' \cap OrdersOf(u) = {}
      BY <1>3, <1>7, <2>2 DEF Disturbed
    <3>2. OrdersOf(u)' = OrdersOf(u)
      BY <1>1, <1>5, <1>7, OrdersOfUser
    <3> QED BY <3>1, <3>2 DEF Quiet
  <2> QED BY <1>7, <2>1, <2>2 DEF Guards
<1>8. OpenPositions(u)' = OpenPositions(u) /\ HoldsClosed(u)' = HoldsClosed(u)
  BY <1>2, PositionsSame
<1> QED BY <1>1, <1>2, <1>3, <1>4, <1>6, <1>7, <1>8, ProgressKept

(* The end of the process ends activations in progress, and what they      *)
(* disturbed; the guarantee of those that have returned is kept.           *)
LEMMA EndProgress == ASSUME StopInv, ProcessEnds PROVE CleanProgress'
<1> SUFFICES ASSUME NEW u \in Users PROVE Clean(u)' => Progress(u)'
  BY DEF CleanProgress
<1>1. Shape /\ (Clean(u) => Progress(u))
  BY DEF StopInv, StopShape, CleanProgress
<1>2. /\ pc'[u] = "idle"
      /\ marks'[u] = IF pc[u] = "idle" THEN marks[u] ELSE {}
      /\ UNCHANGED posOpen /\ copy' = None
      /\ Restart \/ Crash
  BY DEF ProcessEnds
<1>3. (Quiet(u) => OpenOrders(u)' \subseteq OpenOrders(u)) /\ (Quiet(u) => Quiet(u)')
  BY <1>1, <1>2, OrdersKept
<1>4. OpenPositions(u)' = OpenPositions(u) /\ ~HoldsClosed(u)'
  BY <1>2 DEF OpenPositions, HoldsClosed
<1>5. CASE pc[u] = "idle"
  BY <1>1, <1>2, <1>3, <1>4, <1>5 DEF Clean, Progress, Closed
<1>6. CASE pc[u] # "idle"
  BY <1>2, <1>6 DEF Progress
<1> QED BY <1>5, <1>6

(* A position update opens no row of a user of whom it holds none that has *)
(* been closed in between.                                                 *)
LEMMA PositionProgress ==
    ASSUME StopInv, WritePosition \/ \E p \in Positions : ReadPosition(p)
    PROVE  CleanProgress'
<1> SUFFICES ASSUME NEW u \in Users, Clean(u)' PROVE Progress(u)'
  BY DEF CleanProgress
<1>1. UNCHANGED <<vars, pc, posTodo, ordTodo, marks>>
  BY DEF WritePosition, ReadPosition, ksVars
<1>2. (Clean(u)' => Clean(u)) /\ ("sealed" \in marks'[u] => "sealed" \in marks[u])
  BY <1>1 DEF Clean
<1>3. Clean(u) => Progress(u)
  BY DEF StopInv, CleanProgress
<1>4. CASE ~HoldsClosed(u)
  <2>1. OpenPositions(u)' \subseteq OpenPositions(u) /\ ~HoldsClosed(u)'
    BY <1>4 DEF WritePosition, ReadPosition, OpenPositions, HoldsClosed
  <2> QED BY <1>1, <1>2, <2>1, RecordKept
<1>5. CASE HoldsClosed(u)
  <2>1. pc[u] = "idle" /\ "sealed" \notin marks[u]
    BY <1>2, <1>3, <1>5 DEF Progress, Closed, StopInv, StopShape, StopTypes
  <2> QED BY <1>1, <2>1 DEF Progress
<1> QED BY <1>4, <1>5

-----------------------------------------------------------------------------
(* A step of the activation of u leaves the progress of every other user   *)
(* as it is, for it opens no position and holds back no row of theirs.     *)
LEMMA OthersProgress ==
    ASSUME StopInv, NEW u \in Users, NEW v \in Users \ {u},
           Activate(u) \/ StopStep(u) \/ Deactivate(u)
    PROVE  Clean(v)' => Progress(v)'
<1>1. /\ UNCHANGED vars \/ \E o \in Orders : Cancel(o)
      /\ pc'[v] = pc[v] /\ posTodo'[v] = posTodo[v] /\ ordTodo'[v] = ordTodo[v]
      /\ marks'[v] = marks[v]
  BY DEF Activate, StopStep, Deactivate, ClosePosition, FetchOrders, CancelFetched, SetBreaker,
         SetFlag, StopCallFails, Mark, StopInv, StopShape, StopTypes
<1>2. OpenPositions(v)' \subseteq OpenPositions(v) /\ (HoldsClosed(v)' => HoldsClosed(v))
  <2>1. CASE UNCHANGED <<posOpen, copy>>
    BY <2>1, PositionsSame
  <2>2. ASSUME NEW p \in posTodo[u], posOpen' = posOpen \ {p}, UNCHANGED copy
        PROVE  OpenPositions(v)' \subseteq OpenPositions(v) /\ (HoldsClosed(v)' => HoldsClosed(v))
    <3>1. PositionOwner[p] # v
      BY DEF StopInv, StopShape, OwnPositions
    <3> QED BY <2>2, <3>1 DEF OpenPositions, HoldsClosed
  <2>3. \/ UNCHANGED <<posOpen, copy>>
        \/ \E p \in posTodo[u] : posOpen' = posOpen \ {p} /\ UNCHANGED copy
    BY DEF Activate, StopStep, Deactivate, ClosePosition, FetchOrders, CancelFetched, SetBreaker,
           SetFlag
  <2> QED BY <2>1, <2>2, <2>3
<1>3. (Clean(v)' => Clean(v)) /\ ("sealed" \in marks'[v] => "sealed" \in marks[v])
  BY <1>1 DEF Clean
<1> QED BY <1>1, <1>2, <1>3, RecordKept

(* The fetch of the positions, and the closing of one.                     *)
LEMMA PositionsStage ==
    ASSUME StopInv, NEW u \in Users, Activate(u) \/ \E p \in Positions : ClosePosition(u, p)
    PROVE  Clean(u)' => Progress(u)'
<1> SUFFICES ASSUME Clean(u)' PROVE Progress(u)'
  OBVIOUS
<1>1. CASE Activate(u)
  <2>1. /\ pc'[u] = "positions" /\ posTodo'[u] = OpenPositions(u) /\ ~HoldsClosed(u)
        /\ UNCHANGED <<posOpen, copy>>
    BY <1>1 DEF Activate, Clean, StopInv, StopShape, StopTypes
  <2>2. OpenPositions(u)' = OpenPositions(u) /\ HoldsClosed(u)' = HoldsClosed(u)
    BY <2>1, PositionsSame
  <2> QED BY <2>1, <2>2 DEF Progress
<1>2. ASSUME NEW p \in Positions, ClosePosition(u, p) PROVE Progress(u)'
  <2>1. /\ pc[u] = "positions" /\ pc'[u] = "positions" /\ UNCHANGED copy
        /\ posTodo'[u] = posTodo[u] \ {p}
    BY <1>2 DEF ClosePosition, StopInv, StopShape, StopTypes
  <2>2. posOpen' = posOpen \ {p} /\ copy # p /\ Clean(u)
    BY <1>2 DEF ClosePosition, StopCallFails, Mark, Clean, StopInv, StopShape, StopTypes
  <2>3. OpenPositions(u) \subseteq posTodo[u] /\ ~HoldsClosed(u)
    BY <2>1, <2>2 DEF StopInv, CleanProgress, Progress
  <2>4. OpenPositions(u)' \subseteq posTodo'[u] /\ ~HoldsClosed(u)'
    BY <2>1, <2>2, <2>3 DEF OpenPositions, HoldsClosed
  <2> QED BY <2>1, <2>4 DEF Progress
<1> QED BY <1>1, <1>2

(* The fetch of the orders, and the canceling of one.                      *)
LEMMA OrdersStage ==
    ASSUME StopInv, NEW u \in Users, FetchOrders(u) \/ \E o \in Orders : CancelFetched(u, o)
    PROVE  Clean(u)' => Progress(u)'
<1> SUFFICES ASSUME Clean(u)' PROVE Progress(u)'
  OBVIOUS
<1>0. Shape /\ (Clean(u) => Progress(u)) /\ StopTypes
  BY DEF StopInv, StopShape, CleanProgress
<1>1. CASE FetchOrders(u)
  <2>1. /\ pc[u] = "positions" /\ posTodo[u] = {} /\ pc'[u] = "orders"
        /\ UNCHANGED <<vars, posOpen, copy>>
    BY <1>0, <1>1 DEF FetchOrders, StopTypes
  <2>2. ordTodo'[u] = OpenOrders(u) /\ Quiet(u) /\ Clean(u)
    BY <1>0, <1>1 DEF FetchOrders, StopCallFails, Mark, Clean, Quiet, StopTypes
  <2>3. Closed(u)
    BY <1>0, <2>1, <2>2 DEF Progress, Closed
  <2>4. Closed(u)'
    BY <2>1, <2>3, PositionsSame DEF Closed
  <2>5. Quiet(u)' /\ OpenOrders(u)' \subseteq OpenOrders(u)
    BY <1>0, <2>1, <2>2, OrdersKept
  <2> QED BY <2>1, <2>2, <2>4, <2>5 DEF Progress
<1>2. ASSUME NEW o \in Orders, CancelFetched(u, o) PROVE Progress(u)'
  <2>1. /\ pc[u] = "orders" /\ pc'[u] = "orders" /\ UNCHANGED <<posOpen, copy>>
        /\ ordTodo'[u] = ordTodo[u] \ {o}
    BY <1>0, <1>2 DEF CancelFetched, StopTypes
  <2>2. Cancel(o) /\ Clean(u)
    BY <1>0, <1>2 DEF CancelFetched, StopCallFails, Mark, Clean, StopTypes
  <2>3. Closed(u) /\ Quiet(u) /\ OpenOrders(u) \subseteq ordTodo[u]
    BY <1>0, <2>1, <2>2 DEF Progress
  <2>4. Closed(u)'
    BY <2>1, <2>3, PositionsSame DEF Closed
  <2>5. Quiet(u)' /\ OpenOrders(u)' \subseteq OpenOrders(u)
    BY <1>0, <2>2, <2>3, OrdersKept
  <2>6. o \notin OpenOrders(u)'
    BY <1>0, <2>2 DEF Cancel, OpenOrders, Shape, TypeOK
  <2> QED BY <2>1, <2>3, <2>4, <2>5, <2>6 DEF Progress
<1> QED BY <1>1, <1>2

(* The breaker and the flag, which neither reads, and the deactivation.    *)
LEMMA LastStage ==
    ASSUME StopInv, NEW u \in Users, SetBreaker(u) \/ SetFlag(u) \/ Deactivate(u)
    PROVE  Clean(u)' => Progress(u)'
<1> SUFFICES ASSUME Clean(u)' PROVE Progress(u)'
  OBVIOUS
<1>0. Shape /\ (Clean(u) => Progress(u)) /\ StopTypes
  BY DEF StopInv, StopShape, CleanProgress
<1>1. /\ UNCHANGED <<vars, posOpen, copy>>
      /\ UNCHANGED <<posTodo, ordTodo>>
  BY DEF SetBreaker, SetFlag, Deactivate
<1>2. Clean(u)
  BY <1>0 DEF SetBreaker, SetFlag, Deactivate, StopCallFails, Mark, Clean, StopTypes
<1>3. /\ OpenPositions(u)' = OpenPositions(u) /\ HoldsClosed(u)' = HoldsClosed(u)
      /\ Quiet(u) => OpenOrders(u)' \subseteq OpenOrders(u)
      /\ Quiet(u) => Quiet(u)'
  BY <1>0, <1>1, PositionsSame, OrdersKept
<1>4. CASE SetBreaker(u)
  <2>1. pc[u] = "orders" /\ ordTodo[u] = {} /\ pc'[u] = "flag"
    BY <1>0, <1>4 DEF SetBreaker, StopTypes
  <2>2. Closed(u) /\ Quiet(u) /\ OpenOrders(u) = {}
    BY <1>0, <1>2, <2>1 DEF Progress
  <2> QED BY <1>3, <2>1, <2>2 DEF Progress, Closed
<1>5. CASE SetFlag(u)
  <2>1. pc[u] = "flag" /\ pc'[u] = "idle"
    BY <1>0, <1>5 DEF SetFlag, StopTypes
  <2>2. Closed(u) /\ Quiet(u) /\ OpenOrders(u) = {}
    BY <1>0, <1>2, <2>1 DEF Progress
  <2> QED BY <1>3, <2>1, <2>2 DEF Progress, Closed
<1>6. CASE Deactivate(u)
  <2>1. pc' = pc /\ "sealed" \notin marks'[u]
    BY <1>0, <1>6 DEF Deactivate, StopTypes
  <2>2. (Clean(u)' => Clean(u)) /\ ("sealed" \in marks'[u] => "sealed" \in marks[u])
    BY <1>2, <2>1
  <2> QED BY <1>1, <1>3, <2>1, <2>2, RecordKept
<1> QED BY <1>4, <1>5, <1>6

(* No step of the kill switch, of the position updates or of the order     *)
(* path undoes what a clean activation has achieved.                       *)
LEMMA StopInvKept == ASSUME StopInv, [StopNext]_allVars PROVE StopInv'
<1>1. StopShape'
  BY StopTypesKept DEF StopInv
<1>2. CleanProgress'
  <2>1. ASSUME NEW u \in Users, Activate(u) \/ StopStep(u) \/ Deactivate(u)
        PROVE  CleanProgress'
    <3>1. \A v \in Users \ {u} : Clean(v)' => Progress(v)'
      BY <2>1, OthersProgress
    <3>2. Clean(u)' => Progress(u)'
      BY <2>1, PositionsStage, OrdersStage, LastStage DEF StopStep
    <3> QED BY <3>1, <3>2 DEF CleanProgress
  <2>2. CASE UNCHANGED allVars
    <3>1. UNCHANGED <<vars, posOpen, copy, pc, posTodo, ordTodo, marks>>
      BY <2>2 DEF allVars, stopVars, ksVars
    <3> SUFFICES ASSUME NEW u \in Users PROVE Clean(u)' => Progress(u)'
      BY DEF CleanProgress
    <3>2. OpenPositions(u)' = OpenPositions(u) /\ HoldsClosed(u)' = HoldsClosed(u)
      BY <3>1, PositionsSame
    <3>3. (Clean(u)' => Clean(u)) /\ ("sealed" \in marks'[u] => "sealed" \in marks[u])
      BY <3>1 DEF Clean
    <3> QED BY <3>1, <3>2, <3>3, RecordKept
  <2> QED BY <2>1, <2>2, OrderPathProgress, EndProgress, PositionProgress DEF StopNext
<1> QED BY <1>1, <1>2 DEF StopInv

(* Every variable of the kill switch and of the order path under it keeps  *)
(* its type.                                                               *)
THEOREM StopTypeCorrect == StopSpec => []StopTypeOK
<1>1. StopInv => StopTypeOK
  BY DEF StopInv, StopShape, Shape, StopTypes, StopTypeOK
<1> QED BY <1>1, InitStop, StopInvKept, PTL DEF StopSpec

(* After a stop that reports no error and was undisturbed no order row and *)
(* no position row of the user is open, until its next tool call.          *)
THEOREM UndisturbedStop == StopSpec => []UndisturbedStopHolds
<1>1. StopInv => UndisturbedStopHolds
  BY DEF StopInv, StopShape, SealedReturned, CleanProgress, Clean, Progress, Closed,
         UndisturbedStopHolds
<1> QED BY <1>1, InitStop, StopInvKept, PTL DEF StopSpec

(* The kill switch and the crashes around it disturb the order path in no  *)
(* way it does not allow for: what the executor guarantees, it guarantees  *)
(* during and after a stop.                                                *)
THEOREM StopKeepsOrderPath == StopSpec => Init /\ [][Next]_vars
<1>1. StopInit => Init
  BY DEF StopInit
<1> QED BY <1>1, StopStepIsOrderStep, PTL DEF StopSpec

=============================================================================
