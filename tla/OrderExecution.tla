--------------------------- MODULE OrderExecution ---------------------------
(***************************************************************************)
(* How an order travels from an agent's tool call to the exchange.         *)
(*                                                                         *)
(*   tool call --Place--> orders table --GetPending--> OrderExecutor       *)
(*                             ^                            |              *)
(*                             +------ Update --------------+--PlaceOrder--> exchange *)
(*                                                                         *)
(* The orders table (internal/repository/postgres/order.go) is written by  *)
(* three parties that share no lock and no version column: the tool call   *)
(* that inserts the row, cancel_order, and the single OrderExecutor        *)
(* goroutine, which works from a snapshot of the rows it read at the start *)
(* of its iteration.  Every call that can fail may fail without effect,    *)
(* and a call over the network may also take effect and lose its answer.   *)
(*                                                                         *)
(* An order row is a model value.  Abstracted: prices, amounts, symbols,   *)
(* the choice between several accounts of one user (a user has one         *)
(* account) and the length of the backoff sleeps.                          *)
(***************************************************************************)
EXTENDS Naturals, FiniteSets

CONSTANTS
    Orders,        \* order ids: uuid.New() of Place
    Requests,      \* tool calls of the agents
    Trades,        \* those made with execute_trade; the others use place_order
    Users,
    UserOf,        \* [Requests -> Users]
    Reusable,      \* orders whose exchange takes their client order id again
    BatchLimit,    \* rows GetPending returns at most (50 in Run)
    MaxFailures,   \* bound: failures of the environment in one behaviour
    None           \* no order / no request

ASSUME ConstantsAssumption ==
    /\ IsFiniteSet(Orders)
    /\ None \notin Orders \cup Requests
    /\ Trades \subseteq Requests
    /\ UserOf \in [Requests -> Users]
    /\ Reusable \subseteq Orders
    /\ BatchLimit \in Nat \ {0}
    /\ MaxFailures \in Nat

(* Statuses of domain/order, and the answers of an exchange after          *)
(* mapExchangeStatus.  "none" is an id whose row does not exist.           *)
OnExchange == {"open", "partial", "filled"}
Declined   == {"canceled", "rejected", "expired"}
Statuses   == {"pending"} \cup OnExchange \cup Declined

MaxRetries == 3

VARIABLES
    status,     \* orders.status by order id
    origin,     \* the tool call that inserted the row
    age,        \* position of the row by created_at
    tool,       \* per tool call: what wrapWithRetry is doing
    active,     \* the users whose exchange account has is_active
    ex,         \* the OrderExecutor goroutine
    mode,       \* "stopping" once the worker context is cancelled
    placed,     \* per order id: requests the exchange accepted (external)
    lost,       \* per order id: accepted requests the database did not learn of
    failures    \* failures the environment may still inject

vars == <<status, origin, age, tool, active, ex, mode, placed, lost, failures>>
dbVars == <<status, origin, age>>

Attempts(r) == IF r \in Trades THEN 2 ELSE 3

Created == {o \in Orders : status[o] # "none"}
(* Faulty variant: WHERE status <> 'filled' reaches open rows as well.     *)
PendingOrOpen == {o \in Orders : status[o] \in {"pending", "open"}}

Pending == {o \in Orders : status[o] = "pending"}

(* GetPending: WHERE status = 'pending' ORDER BY created_at ASC LIMIT n.   *)
Oldest(S, n) == {o \in S : Cardinality({p \in S : age[p] < age[o]}) < n}

IdleExecutor == [pc |-> "idle", cur |-> None, todo |-> {}, attempt |-> 0, reply |-> "none"]

(* The rows of the current snapshot the executor has not finished with.    *)
Held == ex.todo \cup (IF ex.cur = None THEN {} ELSE {ex.cur})

Init ==
    /\ status = [o \in Orders |-> "none"]
    /\ origin = [o \in Orders |-> None]
    /\ age = [o \in Orders |-> 0]
    /\ tool = [r \in Requests |-> [pc |-> "ready", tries |-> 0]]
    /\ active = Users
    /\ ex = IdleExecutor
    /\ mode = "running"
    /\ placed = [o \in Orders |-> 0]
    /\ lost = [o \in Orders |-> 0]
    /\ failures = MaxFailures

Stopping == mode = "stopping"

(* One failure of the environment is used up.                              *)
Fail == failures > 0 /\ failures' = failures - 1

-----------------------------------------------------------------------------
(* The tool call: Place behind wrapWithRetry.                              *)

(* INSERT INTO orders of a fresh id in status pending.                     *)
InsertRow(r, o) ==
    /\ status[o] = "none"
    /\ status' = [status EXCEPT ![o] = "pending"]
    /\ origin' = [origin EXCEPT ![o] = r]
    /\ age' = [age EXCEPT ![o] = Cardinality(Created) + 1]

(* ExecutionService.Execute refuses without an active account; place_order *)
(* takes the account from its arguments.                                   *)
MayPlace(r) == r \in Trades => UserOf[r] \in active

(* wrapWithRetry: an error is retried until the attempts are used up.      *)
AfterError(r) ==
    LET n == tool[r].tries + 1
    IN  tool' = [tool EXCEPT ![r] = [pc    |-> IF n < Attempts(r) THEN "ready" ELSE "failed",
                                     tries |-> n]]

PlaceOrderRow(r) ==
    /\ tool[r].pc = "ready"
    /\ MayPlace(r)
    /\ \E o \in Orders : InsertRow(r, o)
    /\ tool' = [tool EXCEPT ![r].pc = "done"]
    /\ UNCHANGED <<active, ex, mode, placed, lost, failures>>

(* The row is committed, the answer of Create is not received.             *)
PlaceOrderRowAnswerLost(r) ==
    /\ tool[r].pc = "ready"
    /\ MayPlace(r)
    /\ Fail
    /\ \E o \in Orders : InsertRow(r, o)
    /\ AfterError(r)
    /\ UNCHANGED <<active, ex, mode, placed, lost>>

(* No active account, or Create failed without effect.                     *)
PlaceOrderRowError(r) ==
    /\ tool[r].pc = "ready"
    /\ \/ MayPlace(r) /\ Fail
       \/ ~MayPlace(r) /\ UNCHANGED failures
    /\ AfterError(r)
    /\ UNCHANGED <<dbVars, active, ex, mode, placed, lost>>

(* cancel_order: Service.Cancel sets the status whatever it was; nothing   *)
(* is sent to the exchange.                                                *)
Cancel(o) ==
    /\ status[o] # "none"
    /\ status' = [status EXCEPT ![o] = "canceled"]
    /\ UNCHANGED <<origin, age, tool, active, ex, mode, placed, lost, failures>>

SetAccountActive(u, on) ==
    /\ active' = IF on THEN active \cup {u} ELSE active \ {u}
    /\ UNCHANGED <<dbVars, tool, ex, mode, placed, lost, failures>>

-----------------------------------------------------------------------------
(* The OrderExecutor.                                                      *)

(* Run: one iteration starts with a snapshot of the oldest pending rows.   *)
(* With a cancelled context, or on an error, GetPending returns nothing.   *)
StartIteration ==
    /\ ex.pc = "idle"
    /\ ~Stopping
    /\ Pending # {}
    /\ ex' = [IdleExecutor EXCEPT !.pc = "next", !.todo = Oldest(Pending, BatchLimit)]
    /\ UNCHANGED <<dbVars, tool, active, mode, placed, lost, failures>>

(* The loop goes on with the next row, or the iteration is over.           *)
Proceed == IF ex.todo = {} THEN IdleExecutor
           ELSE [IdleExecutor EXCEPT !.pc = "next", !.todo = ex.todo]

(* executeOrder up to the retry loop, for the next row of the snapshot.    *)
(* The account may be missing, inactive or its keys unusable: the row is   *)
(* then rejected.                                                          *)
BeginOrder(o) ==
    /\ ex.pc = "next"
    /\ ~Stopping
    /\ ex.todo # {}
    /\ o \in Oldest(ex.todo, 1)
    /\ \/ /\ UserOf[origin[o]] \in active
          /\ ex' = [ex EXCEPT !.pc = "place", !.cur = o, !.todo = @ \ {o}, !.attempt = 1]
          /\ UNCHANGED failures
       \/ /\ UserOf[origin[o]] \notin active
          /\ ex' = [ex EXCEPT !.pc = "reject", !.cur = o, !.todo = @ \ {o}]
          /\ UNCHANGED failures
       \/ /\ Fail
          /\ ex' = [ex EXCEPT !.pc = "reject", !.cur = o, !.todo = @ \ {o}]
    /\ UNCHANGED <<dbVars, tool, active, mode, placed, lost>>

(* The select on ctx.Done() at the head of the loop.                       *)
Interrupted ==
    /\ ex.pc = "next"
    /\ Stopping
    /\ ex' = IdleExecutor
    /\ UNCHANGED <<dbVars, tool, active, mode, placed, lost, failures>>

(* Faulty variants: one attempt too many; attempts that are not counted;   *)
(* an order whose attempts are used up saved as if it had been placed.     *)
NextAttemptTooMany == IF ex.attempt <= MaxRetries
                      THEN [ex EXCEPT !.attempt = @ + 1]
                      ELSE [ex EXCEPT !.pc = "reject"]

NextAttemptUncounted == [ex EXCEPT !.attempt = IF @ = 1 THEN 2 ELSE 1]

(* What executeOrder does with an error isRetryableError accepts.          *)
NextAttempt == IF ex.attempt < MaxRetries
               THEN [ex EXCEPT !.attempt = @ + 1]
               ELSE [ex EXCEPT !.pc = "reject"]

(* Every request of an order carries the same ClientOrderID, the order id: *)
(* an exchange may refuse one it already works on (PlaceFails), or take it *)
(* again once the earlier order is complete.                               *)
MayAccept(o) == placed[o] = 0 \/ o \in Reusable

(* Faulty variant: mapExchangeStatus takes a partial fill for a rejection. *)
ExchangeAnswersMisread(s) ==
    /\ ex.pc = "place"
    /\ ~Stopping
    /\ MayAccept(ex.cur)
    /\ placed' = IF s \in OnExchange THEN [placed EXCEPT ![ex.cur] = @ + 1] ELSE placed
    /\ ex' = [ex EXCEPT !.pc = "save", !.reply = IF s = "partial" THEN "rejected" ELSE s]
    /\ UNCHANGED <<dbVars, tool, active, mode, lost, failures>>

(* PlaceOrder succeeds: the exchange answers with a status.  An order it   *)
(* answers as canceled, rejected or expired does not work on the exchange. *)
ExchangeAnswers(s) ==
    /\ ex.pc = "place"
    /\ ~Stopping
    /\ MayAccept(ex.cur)
    /\ placed' = IF s \in OnExchange THEN [placed EXCEPT ![ex.cur] = @ + 1] ELSE placed
    /\ ex' = [ex EXCEPT !.pc = "save", !.reply = s]
    /\ UNCHANGED <<dbVars, tool, active, mode, lost, failures>>

(* The exchange accepts the order and PlaceOrder returns an error: a       *)
(* timeout (retryable), or an answer that cannot be parsed (an "invalid"   *)
(* error, which is not).                                                   *)
AnswerLost ==
    /\ ex.pc = "place"
    /\ ~Stopping
    /\ MayAccept(ex.cur)
    /\ Fail
    /\ placed' = [placed EXCEPT ![ex.cur] = @ + 1]
    /\ lost' = [lost EXCEPT ![ex.cur] = @ + 1]
    /\ \/ ex' = NextAttempt
       \/ ex' = [ex EXCEPT !.pc = "reject"]
    /\ UNCHANGED <<dbVars, tool, active, mode>>

(* PlaceOrder fails without effect: refused for good (a repeated client    *)
(* order id among other reasons), or retryable.  After the context is      *)
(* cancelled every call fails, with a retryable error.                     *)
PlaceFails ==
    /\ ex.pc = "place"
    /\ \/ ex' = NextAttempt
       \/ ~Stopping /\ ex' = [ex EXCEPT !.pc = "reject"]
    /\ UNCHANGED <<dbVars, tool, active, mode, placed, lost, failures>>

(* Faulty variant: an UPDATE by user instead of by id.                     *)
SaveReplyByUser ==
    /\ ex.pc = "save"
    /\ ~Stopping
    /\ status' = [o \in Orders |->
                     IF o \in Created /\ UserOf[origin[o]] = UserOf[origin[ex.cur]]
                     THEN ex.reply ELSE status[o]]
    /\ ex' = Proceed
    /\ UNCHANGED <<origin, age, tool, active, mode, placed, lost, failures>>

(* Update after a successful placement: an unconditional UPDATE by id.     *)
SaveReply ==
    /\ ex.pc = "save"
    /\ ~Stopping
    /\ status' = [status EXCEPT ![ex.cur] = ex.reply]
    /\ ex' = Proceed
    /\ UNCHANGED <<origin, age, tool, active, mode, placed, lost, failures>>

(* The placement that the database does not learn of.                      *)
ForgetReply ==
    lost' = IF ex.pc = "save" /\ ex.reply \in OnExchange
            THEN [lost EXCEPT ![ex.cur] = @ + 1]
            ELSE lost

SaveReplyError ==
    /\ ex.pc = "save"
    /\ \/ Stopping /\ UNCHANGED failures
       \/ ~Stopping /\ Fail
    /\ ForgetReply
    /\ ex' = Proceed
    /\ UNCHANGED <<dbVars, tool, active, mode, placed>>

(* rejectOrder; its error is ignored by every caller.                      *)
Reject ==
    /\ ex.pc = "reject"
    /\ ~Stopping
    /\ status' = [status EXCEPT ![ex.cur] = "rejected"]
    /\ ex' = Proceed
    /\ UNCHANGED <<origin, age, tool, active, mode, placed, lost, failures>>

RejectError ==
    /\ ex.pc = "reject"
    /\ \/ Stopping /\ UNCHANGED failures
       \/ ~Stopping /\ Fail
    /\ ex' = Proceed
    /\ UNCHANGED <<dbVars, tool, active, mode, placed, lost>>

-----------------------------------------------------------------------------
(* The process around the executor.                                        *)

(* Scheduler.Stop cancels the worker context.                              *)
Shutdown ==
    /\ ~Stopping
    /\ Fail
    /\ mode' = "stopping"
    /\ UNCHANGED <<dbVars, tool, active, ex, placed, lost>>

(* The worker has returned, the process exits and a new one starts.        *)
Restart ==
    /\ Stopping
    /\ ex.pc = "idle"
    /\ mode' = "running"
    /\ UNCHANGED <<dbVars, tool, active, ex, placed, lost, failures>>

(* The process dies and is started again: the snapshot, and the answer the *)
(* executor was about to save, are gone.                                   *)
Crash ==
    /\ Fail
    /\ ForgetReply
    /\ ex' = IdleExecutor
    /\ mode' = "running"
    /\ UNCHANGED <<dbVars, tool, active, placed>>

-----------------------------------------------------------------------------
ToolStep(r) == PlaceOrderRow(r) \/ PlaceOrderRowAnswerLost(r) \/ PlaceOrderRowError(r)

ExecutorStep ==
    \/ StartIteration
    \/ \E o \in Orders : BeginOrder(o)
    \/ Interrupted
    \/ \E s \in OnExchange \cup Declined : ExchangeAnswers(s)
    \/ AnswerLost
    \/ PlaceFails
    \/ SaveReply
    \/ SaveReplyError
    \/ Reject
    \/ RejectError

Next ==
    \/ \E r \in Requests : ToolStep(r)
    \/ \E o \in Orders : Cancel(o)
    \/ \E u \in Users, on \in BOOLEAN : SetAccountActive(u, on)
    \/ ExecutorStep
    \/ Shutdown
    \/ Restart
    \/ Crash

(* The scheduler runs the worker again after every tick and the process    *)
(* manager restarts a process that exited, so an executor that can step    *)
(* does; nothing obliges an agent to call a tool.                          *)
Fairness == WF_vars(ExecutorStep) /\ WF_vars(Restart)

Spec == Init /\ [][Next]_vars /\ Fairness

-----------------------------------------------------------------------------
ExecutorPcs == {"idle", "next", "place", "save", "reject"}

ToolState == [pc : {"ready", "done", "failed"}, tries : 0 .. 3]

ExecutorState == [pc : ExecutorPcs, cur : Orders \cup {None}, todo : SUBSET Orders,
                  attempt : 0 .. MaxRetries, reply : OnExchange \cup Declined \cup {"none"}]

TypeOK ==
    /\ status \in [Orders -> Statuses \cup {"none"}]
    /\ origin \in [Orders -> Requests \cup {None}]
    /\ age \in [Orders -> Nat]
    /\ tool \in [Requests -> ToolState]
    /\ active \subseteq Users
    /\ ex \in ExecutorState
    /\ mode \in {"running", "stopping"}
    /\ placed \in [Orders -> Nat]
    /\ lost \in [Orders -> Nat]
    /\ failures \in Nat

(* An order works on the exchange more than once only if the database      *)
(* missed an accepted placement of it: a lost answer, a failed Update or a *)
(* crash between the two, once per extra copy.  Retries, restarts and      *)
(* cancellations by themselves never send an order twice.                  *)
DuplicatesArePaidFor == \A o \in Orders : placed[o] <= lost[o] + 1

(* A row the system shows as open, partial or filled was accepted by the   *)
(* exchange, whatever was cancelled, retried or restarted in between.      *)
OpenMeansPlaced == \A o \in Orders : status[o] \in OnExchange => placed[o] >= 1

(* A row shown as rejected or expired is alive on the exchange only        *)
(* through placements the executor never got to see.                       *)
RejectedMeansUnknownOnly ==
    \A o \in Orders : status[o] \in {"rejected", "expired"} => placed[o] <= lost[o]

(* The executor is done with an order: its row has left pending and it is  *)
(* not in the executor's snapshot.                                         *)
Released(o) == status[o] \notin {"none", "pending"} /\ o \notin Held

(* Done is done: whatever is cancelled, retried, stopped or restarted      *)
(* afterwards, the executor does not take the order up again and nothing   *)
(* sends it to the exchange.                                               *)
NeverResent ==
    [][\A o \in Orders : Released(o) => Released(o)' /\ placed'[o] = placed[o]]_vars

(* No one but the executor, from a snapshot it still holds, revives an     *)
(* order: a canceled, rejected or expired row it no longer holds can only  *)
(* be canceled again.                                                      *)
FinalOnceReleased ==
    [][\A o \in Orders : (status[o] \in Declined /\ o \notin Held)
                             => status'[o] \in {status[o], "canceled"}]_vars

(* Every order the database holds as pending is eventually executed,       *)
(* rejected or canceled, although its executor may be stopped or die in    *)
(* the middle and only BatchLimit rows are taken at a time.                *)
PendingIsProcessed == \A o \in Orders : (status[o] = "pending") ~> (status[o] # "pending")
=============================================================================
