# Prometheus: a TLA+ development of the agentic trading system

Prometheus (Go, `cmd/main.go`) lets agents driven by language models trade for its
users: agents place orders through tools, workers execute and watch them,
websocket streams bring back what the exchanges did, and a risk engine and a kill
switch are meant to stop a user's trading. The interesting part of the program
is not arithmetic but control: a dozen goroutines and a few processes' worth of
lifecycle share PostgreSQL rows, Redis keys and Kafka topics, almost always by
*read a row, change the copy, write the whole row back*, without a lock, a
version column or a transaction that covers the statements.

The modules in this directory model that control, query by query where another
goroutine can come between two queries. Data (prices, names, texts) is abstract.

| File | What it is |
| --- | --- |
| `OrderExecution.tla` | tool call, orders table, OrderExecutor, exchange, crashes |
| `EmergencyStop.tla` | extends `OrderExecution` with the kill switch |
| `StrategyService.tla` | the cash of a strategy, its ledger, its lifecycle, the connection pool |
| `RiskControl.tla` | the circuit breaker row, the cached entry and the flag |
| `WebSocketBatch.tla` | the websocket consumer: buffer, flushes, two locks, committed offsets |
| `UserDataManager.tla` | the map of user data connections against the rows of exchange accounts |
| `ReconnectManager.tla` | failures, circuit and heartbeat of a connection; instantiated, never run alone |
| `MarketDataStream.tla` | market data client and manager with two instances of `ReconnectManager`, and the shutdown |
| `EventConsumer.tla` | abstract: what a Kafka consumer promises |
| `OpportunityConsumer.tla` | the consumer of opportunities and its workflows; implements `EventConsumer` |
| `Shutdown.tla` | the process: requests, workers, consumers against the sequence of the shutdown |
| `InvestFlow.tla` | the Telegram invest menu: overlapping handlers over one session in Redis |
| `PortfolioJobs.tla` | extends `InvestFlow` with the consumer of the jobs it publishes |
| `MC*.tla`, `*.cfg` | instances for TLC, one `.cfg` per run |
| `*Proofs.tla` | theorems checked by TLAPS, for every module that a run checks |
| `PROJECT.json` | runs, map from definitions to source lines, hazards, findings, theorems |

## 1. Inventory

Paths are relative to `src/`. "Row" is a PostgreSQL row.

**Order path** — `internal/tools/trading/{place_order,execute_trade,cancel_order}.go`,
`internal/domain/order`, `internal/repository/postgres/order.go`,
`internal/workers/trading/order_executor.go`.
State: the `orders` rows. `place_order` and `execute_trade` insert a row in status
`pending`, retried by the tool wrapper. The OrderExecutor worker reads up to 50
pending rows every 5 seconds, sends each to its exchange (three attempts), and
writes the answer back with an `UPDATE ... WHERE id`. `cancel_order` sets the
status. Hard: accepted orders whose answer is lost, crashes, a long-lived
snapshot, three uncoordinated writers. Correct when an order is on the exchange
at most once, a shown status is true, and no pending order is forgotten.

**Kill switch** — `internal/services/risk/killswitch.go`, reached through
`emergency_close_all`. Closes the position rows, cancels the order rows, trips
the breaker, sets a Redis flag, each step failing by itself. Hard: all of it
races the executor and the risk engine. Correct when nothing is open afterwards
and nothing starts.

**Strategy service** — `internal/services/strategy`, `internal/domain/strategy`,
`internal/repository/postgres/strategy*.go`. State: `user_strategies` rows
(status, cash_reserve) and the append-only `strategy_transactions`. Nine
operations and their batch forms. Hard: lost updates; `BeginTx` opens a
transaction that none of the queries use; connections held while waiting for
another. Correct when the balance is the sum of the ledger, never negative, and
a closed strategy stays closed.

**Risk engine** — `internal/services/risk/engine.go`,
`internal/repository/postgres/risk.go`. State: one `circuit_breaker_states` row
per user, a Redis entry with a TTL of 30 s, the kill switch flag. Callers: the
RiskMonitor worker, the kill switch, and (without a caller in this commit)
`WithRiskCheck` and the code that closes trades. Hard: read-modify-write, cache
against row, errors read as "no row". Correct when a breaker that has to trip
trips, and a tripped one blocks.

**Positions** — `internal/services/position`, `internal/repository/postgres/position.go`,
`internal/workers/trading/{position_monitor,pnl_calculator,position_event_generator}.go`.
State: `positions` rows, written by websocket updates, PositionMonitor, the kill
switch. Hard: check-then-create, stale full-row updates, repeated events.
Correct when there is one open row per position of the exchange and a closed row
stays closed.

**User data streams** — `internal/adapters/websocket/userdata_manager.go`,
`internal/services/exchange`. State: a map account → connection, `exchange_accounts`
rows (is_active, listen key). Operations: start, stop, and three periodic loops
(health, renewal, reconciliation); users switch accounts on and off. Hard: check,
unlock, connect, lock, store; whole-row writes from copies. Correct when there is
exactly one live connection for an active account and none for the others.

**Market data streams** — `internal/adapters/websocket/market_data_manager.go`,
`internal/adapters/websocket/binance/client.go`. State: the client's flags, the
streams it holds stop channels of, its error count, and *two* reconnect managers, of
which one hears only of messages and the other only of attempts. Hard: a `Connect` that
fails half-way, a shutdown in the middle of a reconnection, the circuit. Correct when
one stream of a kind is open, a dead one is reopened, and none outlives the shutdown.

**WebSocket consumer and batching** — `internal/consumers/{websocket_consumer,batching}.go`:
a buffer behind `mu`, statistics behind `statsMu`, asynchronous flushes, offsets
committed before the flush. Correct when nothing deadlocks and every handled
message is stored once or reported lost.

**Opportunity consumer** — `internal/consumers/opportunity_consumer.go`: a
workflow for every interested strategy, a semaphore, two waits with timeouts.
Hard: workflows are calls of language models and may ignore their context.
Correct when no opportunity is acted upon twice and the consumer never hangs.

**Worker scheduler, bootstrap, shutdown** — `internal/workers/scheduler.go`,
`internal/bootstrap/{container,lifecycle}.go`: what is started, and the ten steps that
take it down, each wait with a timeout. Correct when nothing is closed under somebody
who uses it, and the shutdown ends.

**Telegram menus** — `pkg/telegram/{webhook,menu_registry,menu_navigator}.go`,
`internal/adapters/telegram/invest_menu.go`: one goroutine for each update, a session in
Redis read and written as a whole several times per update. Correct when the
buttons work, and a finished menu leads to one complete job.

**Onboarding** — `internal/consumers/system_events_consumer.go`,
`internal/services/onboarding`: the job becomes a strategy and a portfolio.

**Reconnect manager, batch writer** — `pkg/reconnect/manager.go`,
`pkg/clickhouse/batch_writer.go`: backoff, circuit, locks; buffer, ticker, stop.

**Exchange clients, factories, rate limiting and retry** —
`internal/adapters/{exchanges,exchangefactory}`, `internal/adapters/ai/rate_limiter*.go`.

**Messaging** — `internal/adapters/kafka`, `internal/events`, the other consumers in
`internal/consumers`.

**The rest** — agents and ADK sessions, indicator tools, the GraphQL front end,
ClickHouse repositories, configuration, the generator, the seeder, the
web front end. `PROJECT.json` lists every component with its status and the reason.

How they interact: tools and services call repositories; repositories share one
PostgreSQL pool; workers are driven by the scheduler and share its context;
consumers are driven by Kafka; managers own goroutines and websocket callbacks
that publish to Kafka. The only synchronisation across components is a row.

## 2. Plan

1. `OrderExecution` and its proofs — *done*
2. `EmergencyStop`, composed with it — *done*
3. `StrategyService` and its proofs — *done*
4. `RiskControl` and its proofs — *done*
5. `WebSocketBatch` and its proofs: buffer, two locks, commit before flush — *done*
6. `UserDataManager`: connections, listen keys, reconciliation, shutdown, and its proofs — *done*
7. Position updates and the kill switch on one row, in `EmergencyStop` — *done*;
   the creation of rows and the position monitor are left
8. `Shutdown` and its proofs: scheduler, consumers, requests, order of the shutdown — *done*
9. `ReconnectManager` under `MarketDataStream`, and its proofs — *done*; `BatchWriter` is left
10. `EventConsumer`, implemented by `OpportunityConsumer`, and its proofs — *done*
11. `InvestFlow` with `PortfolioJobs`, and their proofs — *done*; the exchanges menu, which shares the
    navigator, is left
12. Left: the cache of exchange clients, retry and rate limiters; pure operators
    (exposure, sizing) against reference definitions

Two abstract specifications are stated and implemented: `EventConsumer` by
`OpportunityConsumer`, and `OrderExecution` by its composition with the kill switch.
Others worth stating: an atomic ledger for `StrategyService` without failures and
overlap; a register with a delayed copy for `RiskControl`; a bag of events, each
stored or lost, for `WebSocketBatch`.
Every invariant and action property a run checks has its theorem (section 5).

## 3. The modules

### OrderExecution

| Model | Code |
| --- | --- |
| `status`, `origin`, `age` | a row of `orders`: status, the tool call it comes from, `created_at` order |
| `tool[r]` | `wrapWithRetry` around the tool function of call `r`: 3 attempts for `place_order`, 2 for `execute_trade` |
| `ex` | the OrderExecutor goroutine: rest of the snapshot, current order, attempt, answer to be saved |
| `mode` | the worker context, cancelled by `Scheduler.Stop` |
| `active` | `exchange_accounts.is_active`, one account per user |
| `placed` | requests the exchange accepted (environment) |
| `lost` | history: acceptances the database did not learn of |
| `failures` | what the environment may still do wrong (`MaxFailures`) |

Every `pc` of the executor is a place where the code waits for a call and other
goroutines run. `BeginOrder` is `executeOrder` up to the retry loop;
`ExchangeAnswers`, `AnswerLost` and `PlaceFails` are the outcomes of
`PlaceOrder`; `SaveReply` and `Reject` are the two updates, with an error variant
each. The exchange refuses a client order id that works already, and may take it
again when it is in `Reusable` (exchanges check ids among open orders only).

Safety, with what they relate: `DuplicatesArePaidFor` (copies on the exchange
against losses), `RejectedMeansUnknownOnly` (what the row says against what the
exchange did), and the action property `FinalOnceReleased`. Liveness: `PendingIsProcessed`.
Observations. After a crash between `PlaceOrder` and the update the executor sends the
order again; it never asks the exchange for it, as `docs/phases/7_phase.md:66`
says it does. A retry of the tool after a lost answer inserts a second row under a new
id (`internal/tools/shared/builder.go:87`).

### EmergencyStop

Extends `OrderExecution`; the steps of its `Next`, of an activation per user, and of
the websocket consumer's position updates interleave.

| Model | Code |
| --- | --- |
| `pc[u]`, `posTodo[u]`, `ordTodo[u]` | the activation of a user: where it is, what it fetched and has not come to |
| `posOpen`, `copy` | the open position rows; the row a position update has read and not written yet |
| `breaker`, `flag` | `is_triggered` of the risk state; the key in Redis |
| `marks[u]` | `errors`: the result lists an error. History: `disturbed`, `sealed` (returned without an error, nothing inserted since) |
| `stopFailures` | calls of the stop and of position updates that may still fail |

`ReadPosition` and `WritePosition` are the two queries of `UpdateFromWebSocket` and
`ClosePosition`: the whole row, status included, is written from the copy, so an
update that was read before the stop closed the row opens it again.
*Unknown position*: for a position without an open row the service would create one,
but `ParsePositionUpdateFromEvent` never sets the market type and the insert
is refused (`internal/services/position/service.go:162-192`), so position rows are
given by `StopInit` and no update adds one.

`UndisturbedStopHolds` says what a stop does guarantee, and until when.
Observations, each the negation of a premise of it: the executor's answer to an
order it held in its snapshot overwrites a row the stop had cancelled
(`killswitch.go:63`: "Cancel all open orders"); only rows are cancelled and closed,
not the orders and positions on the exchange (`killswitch.go:62`: "with market orders"),
so an order may fill afterwards; and neither the executor nor the tools read breaker or flag.

### StrategyService

A call of `Calls` is one invocation; `pc` walks through `begin`, `get`, (`reread`),
`write`, (`book`, `commit`), one query each. `held` is the set of transactions that
hold a connection, and each query needs another one (`FreeConnection`), because the
repositories are built over the pool. Only an error of `GetByID` reaches the deferred
rollback, which is why `QueryFails` keeps the connection in the other cases until the
context ends (`ContextEnds`, which a `LongLived` context never does). `NewStatus` and
`NewCash` say which columns an operation's `UPDATE` takes from the copy.
`disturbed` is history: a write with a stale balance, or a failure between the
balance and its ledger entry.

`TypeOK` includes that `cash_reserve` never goes below zero, whatever overlaps.
`LedgerAgrees`, `ClosedForGood` and `CallEnds` are the positive results. What `ClosedForGood`
excepts is against the comment of `service.go:662` ("Closed strategies cannot be
reopened"): the `UPDATE` of a call that read the strategy before it was closed writes
the old status. What `disturbed` stands for: two overlapping allocations are checked
against the same balance and both succeed (`service.go:181` promises a validated
balance); a failing ledger entry leaves the balance written, since the rollback
undoes nothing (`transaction.go:12` promises a record for every change); and
`UpdateStrategy` writes the cash it has read back with the configuration.

### RiskControl

One user. `row` is the `circuit_breaker_states` row (with `absent`), `cache` the entry
of Redis, `flag` the kill switch flag; `call[c]` is a goroutine between two calls
of PostgreSQL or Redis, with the copy of the row it is going to write. `Read` lets any
error pass for a missing row, as `GetState`'s callers do. `staleCache` and `excused`
are history: why an entry may be stale, and why an exceeded limit may go without a trip.

`StaleGrantIsExplained`, `ExceededIsTripped` and `BreakerHolds` bound how wrong the
breaker can be; `TripTakesEffect` says that a trip which stays takes effect.
Observations: the kill switch trips the row and leaves the cached entry (`killswitch.go:64`:
"BLOCKED state"), so a reader lets the user trade until the entry expires; any error
of `GetState` makes a reader store a default row, over a tripped breaker too
(`engine.go:77` speaks of a row that does not exist), and the drawdown check compares
dollars with a fraction (`engine.go:321`), which the model abstracts by `MaxDrawdown`.

### WebSocketBatch

| Model | Code |
| --- | --- |
| `next`, `hand`, `main` | the goroutine of `Consume`: offset, the event it handles, where it is |
| `batch` | the buffer, `c.batch` |
| `flights` | running `FlushBatch` calls, with what each carries and who started it |
| `pending` | `go c.FlushBatch(...)` started and not run yet |
| `mu`, `statsMu` | who holds the lock *while waiting for the other*; a stay without a wait is one step |
| `loops`, `mode` | the two periodic goroutines; running, stopping, down |
| `stored`, `lost` | what reached ClickHouse, what a failure or the end of the process took |

An event is its position in the topic, with a deduplication key, a table and a time.
`ReadMessage` commits the offset before the event is handled, so what is in the buffer
at an exit is lost. `EachInOnePlace` and `NewestSurvives` hold for every overlap of
flushes; `HandlingEnds` and `BufferIsFlushed` say that nothing but the deadlock of
`LogStats` with `addToBatch` stops the consumer, and `AddIsThreadSafe` finds it.
Observations: a periodic flush whose context is cancelled loses the batch it has
taken; the deduplication keys of klines, trades and mark prices leave out the market
type that those of tickers and depths contain.

### UserDataManager

| Model | Code |
| --- | --- |
| `row[a]` | `exchange_accounts`: is_active, validity of the listen key |
| `pool[a]` | `clients[a]` and how its stream is: `fresh` (no message yet), `live`, `silent`, `mute` (ended before its first message) |
| `leaked[a]`, `count` | open connections the map no longer holds; `activeConnections` |
| `proc[p]` | reconciliation, health check, renewal, and a user's call: what is left of the pass, the account in work, the copy of its row |

| `mode` | running; context cancelled; in `Stop`; stopped |

`connectAccount` is `Connecting`, `EnsureListenKey` (with `SaveListenKey` as `Get` and
`Put`) and `Connect`, other goroutines in between. A shutdown cancels the context
(`Cancel`), which lets passes break off between two accounts (`Interrupted`); `Stop` disconnects the
clients of the map (`StopClients`) and empties it (`ResetPool`). `ClientStops` is
the goroutine `client.Start` leaves behind, which closes its stream when the context
ends, whether or not the map still holds it.

`LeaksNeedReconnect` says which interleavings cannot lose a connection,
`StaysDeactivated` what can undo a deactivation: a listen key or an edit saved with an
older copy of the row. `ActiveIsConnected` says that an account that stays active gets
its connection, `UnwantedStreamsEnd` that one that stays inactive loses it and that
a shutdown leaves no stream, the leaked ones included. Observations: a `mute`
stream counts as healthy and is
never reconnected; a listen key is renewed only when less than ten minutes are left, on
a tick of thirty, so it may expire in between; the `UPDATE` of the repository leaves
out the credentials, so `UpdateAccount` does not store the new ones.

### MarketDataStream

| Model | Code |
| --- | --- |
| `open`, `held`, `orphans` | streams that deliver; streams in `stopChannels`; those of `held` a failed `Connect` opened |
| `opening` | the `connect<Kind>Streams` call `Connect` is at, under the client's lock |
| `flags`, `errors`, `heard` | `connected` and `stopping`; `recentErrors`; `lastMessageTime` of the *client's* reconnect manager |
| `failures`, `circuit`, `beat` | the *manager's* reconnect manager |
| `loop` | `Start`, then the health check loop with `ReconnectWithBackoff` |
| `watchers` | goroutines of `client.Start` that call `Stop` when the context ends |
| `shutdown` | clients stopped, context cancelled, manager stopping, stopped |

`ReconnectManager` is instantiated twice: `Manager` over the manager's record, and
`ClientBeat`, whose failures and circuit never change because nobody tells the client's
record of attempts. `StopClient` returns at once without a connection, whatever
`stopChannels` hold; therefore streams of a `Connect` that failed half-way stay
open beside those of the next one. `DuplicatesNeedFailedConnect` says that nothing else
duplicates a stream, `DeadKindIsReopened` that no state of the circuit and the two
heartbeats keeps a kind closed for ever, `ShutdownClosesStreams` that a stream
opened by a reconnection under way is closed by somebody.
Observations: the manager's record never hears of a message, so its heartbeat runs out
45 seconds after every success and a healthy stream is reconnected; `stopping`
is set in `Stop` (`client.go:1209`) and never cleared, so after the first reconnection
every handler ignores its messages.

### EventConsumer and OpportunityConsumer

`EventConsumer` is the abstract consumer: an offset committed by the read, a message
handled at most once, a handling that ends, a loop that stops after a cancellation.
`OpportunityConsumer` details the handling. `main` is the goroutine of `Start`, `todo` the
rest of the loop over the strategies, `wf` the goroutines of workflows, queued for the
semaphore or running, `ended` the messages whose `workflowCtx` is done;
`forced` and `acted` are history. The refinement maps `main`
to the abstract loop, all stages of a handling to `handling`; `ImplementsConsumer`
includes the liveness, with no fairness of the workflows at all.
`OverlapNeedsTimeout` says when two messages' workflows, which may trade for the same
strategy, run side by side; `ActsOnce` that no restart repeats a workflow. Observations: the
strategy a workflow trades for was read before it queued, up to 45 seconds before; the
limit is per message, since each has a semaphore of its own.

### Shutdown

The module's variables, initial states and steps are called `process...`, so that it can be
extended beside `MarketDataStream`. `main` is the main goroutine in `Container.Shutdown` and
`Lifecycle.Shutdown`; each wait has two ends, the goroutines are gone or a timeout (5 s, 2 min, 5 s), recorded in `gaveUp`. Workers,
consumers and requests run beside it. `ClosedUnderUseIsGivenUp` relates what is closed to who
is still at work; `ShutdownEnds` assumes nothing of them; `CancelledLeave` assumes
that those not in `Hanging` return. One reader, that of system events, is not in the list of
`closeKafkaConsumers` (`Unclosed`) and is closed by its consumer only. Observation: a failing
HTTP server cancels the context ("Trigger shutdown on fatal HTTP error",
`container.go:273`), but `main` waits for a signal, so workers and consumers leave and
the process stays.

### InvestFlow and PortfolioJobs

`session` is the value in Redis, `h[x]` a goroutine of the webhook with its copy of it
(`copy`), what it last read or wrote (`base`, history) and the button it came from. Every
`SaveSession` is an action. A keyboard is the number of its drawing. `flaws` is
history, per session: an overlapping handler's update was overwritten (`lost`), a handler
gave up half-way (`failed`), the deletion at the end of the menu failed (`kept`).
`ButtonsWork` and `JobsMatchSessions` (one job for a session, with every choice) hold but for
these, and for a number typed before the amount was asked for, which no check prevents.
That a job is complete once the amount was asked for needs no exception: a lost update
replaces the whole session, so a session's screen, stack, buttons and choices stay consistent.
`PortfolioJobs` adds the consumer and the onboarding. `StrategyIsCreated` states
`invest_menu.go:459`, "onboarding service will create it"; it is violated, because the
parameters of that creation have no market type, although the job has one, and
`CreateStrategy` refuses them.

## 4. Runs

| Run | Expect | Shows |
| --- | --- | --- |
| OrderExecution | pass | the safety of the order path, and that no pending order is forgotten |
| EmergencyStop | pass | what a clean, undisturbed stop guarantees (about 680,000 states) |
| StrategyService | pass | balances, ledger, closing, and that every call ends |
| RiskControl | pass | the breaker against its cache, its limits and overlapping calls |
| WebSocketBatch | pass | no event is duplicated or dropped for an older one; only the deadlock stops the consumer |
| BatchDeadlock | violation | the deadlock of the buffer and the statistics |
| UserDataManager | pass | leaks, reactivations, that the map follows the rows, that a shutdown ends every stream (256,000) |
| MarketDataStream | pass | duplicated streams, reopening, streams after a shutdown (108,000) |
| OpportunityConsumer | pass | overlap and repetition of workflows; the refinement of `EventConsumer` (167,000) |
| Shutdown | pass | what is closed under whom, that the shutdown ends and who leaves (4,900) |
| InvestFlow | pass | keyboard and session, session and jobs (3.7 million, symmetric handlers) |
| InvestJob | violation | the strategy of a job from the menu is never created |

### Bounds and why they are enough

*OrderExecution*: two rows, two tool calls, one of them an `execute_trade`; a batch
limit of one, so that a row waits beyond the batch; two failures, which suffice to lose
an answer and then crash, or to lose a save and then a retry. Every property is per order, and
an order is affected by others only through the batch and the executor's attention.
One of the two client ids may be taken again by the exchange (`Reusable`). `MaxRetries` (3) and the
attempts of the tools (3 and 2) are those of the code.

*EmergencyStop*: one tool call and two orders (a retry makes the second, so one may be
in the executor's snapshot and one not), one failure on each side; one user, since users share
only the executor, whose other work is a delay; one position, since rows are closed
independently. Orders are symmetric, and the run has no liveness property. The theorem
covers every other number.

*StrategyService*: a lost update needs two calls; a stale write of a third kind
after a close needs three. Amounts 1 and 2 tell a swapped sign from a wrong amount. The
pool has one connection more than there are calls: with as many connections as calls every
call can hold one and wait for ever, which the mutant of `CallEnds` shows. One call has a
context that outlives it.

*RiskControl*: two callers, a writer and a reader that cached the row in between or two
writers; three writing operations reach both limits (`MaxDrawdown` 3 with the results of
`MCPnls`, `MaxLosses` 2) and still leave one to trip, reset or stop.

*WebSocketBatch*: four events, a buffer of two and so two overlapping flushes; two
versions of a candle around an event of another table, and an older version that arrives
late. One failure, an insert or a crash.

*UserDataManager*: one account, because goroutines meet only in the entry and the row of one account: the
others are a delay between two steps, which every interleaving contains. One
call of the user, one stream that goes silent, one failure: reconnection,
reactivation and deletion each need one of these. (Two calls of the user have been
checked as well; that takes several minutes.)

*MarketDataStream*: two kinds, the least for a `Connect` that fails half-way; one of them is
the kind whose messages reset the errors. Two failures: one leaves an orphan, the second
opens the circuit (`MaxRetries` 2). `ErrorLimit` 1 stands for the five of the code. A slot for
every failure and one more is as many streams as a kind can have.

*OpportunityConsumer*: three strategies and two slots, so that one queues; two
messages, so that one's workflows may outlive it; one restart.

*Shutdown*: a worker and a consumer that hang and one each that does not; one of the consumers
is the `Unclosed` one. One request: requests are independent and only their absence matters.

*InvestFlow*: the shortest way to a job takes five updates (the command, three buttons, a
number), two handlers overlap, a second session can follow the first, one crash.
*InvestJob*: one handler, one session; the refusal does not depend on an overlap.

`CHECK_DEADLOCK FALSE` is set everywhere because a behaviour whose bounded inputs
are used up may really stop: no tool call is left, every row is final.

### Fairness

*OrderExecution*: weak fairness of the executor's steps and of the restart. The
scheduler runs the worker again on every tick whether or not it returned an error,
every call of it has a timeout, and the process is kept up by its supervisor. No
fairness of tool calls, failures or cancellations.
*EmergencyStop*: none, the run checks safety only.
*StrategyService*: the steps of a call, and the end of the context of a call that has
returned (`net/http` cancels it), not for `LongLived` ones.
*RiskControl*: the steps of a call and the expiry of the key in Redis.
*WebSocketBatch*: weak fairness of the goroutines' steps, strong fairness of those that wait for a
mutex, which Go hands to a waiter that has starved for a millisecond. No fairness of
reading, stopping, exits and restarts beyond the consumer's own steps.
*UserDataManager*: weak fairness of every goroutine, of `Stop` once it was begun and of the
goroutines of the clients: the tickers tick and each
request returns or fails. None of users, streams, expiry or the cancellation.
*MarketDataStream*: weak fairness of the steps of an attempt and of the passing of time;
strong fairness of the loop's and the watchers' view of the cancelled context, because a `select` that
finds it ready again and again takes it, and a lock that is free again and again is obtained.
None of messages, errors or the shutdown.
*OpportunityConsumer*: the loop and its timers. None of workflows: they may hang.
*Shutdown*: the main goroutine, whose timers fire; and, for `CancelledLeave` only, runs
and handlings of those not in `Hanging`. None of requests.
*InvestFlow*: none, the run checks safety only.

## 5. Proofs

`tlapm` checks every proof from nothing, for every value of the constants allowed by
`ConstantsAssumption` of each module; only those assumptions are used.

**OrderPathProofs, the orders** (`OrderExecution`). The inductive invariant is `Shape` (types; a tool call that
will be retried has attempts left; the executor's current order is not among those it
still holds, and what it is about to save is an answer) and `Account`: an order
that is not shown as working, or that the executor holds, has been placed at most as often as
acceptances of it were lost, plus the one whose answer is about to be saved. Without the
second part `SaveReply` could make a row `open` that was never placed, or a second
placement go unexplained. From it: `TypeCorrect`, `DuplicatesBounded`, `OpenRowsPlaced`,
`RejectionsAccounted`. `DoneIsDone` and `FinalRowsStayFinal` are about steps: the
former also needs `HeldStatus`, that a row in the snapshot is pending or was canceled meanwhile.

**StrategyServiceProofs.** The type invariant is not inductive by itself because of
`cash ∈ Nat`: an allocation that waits to write must have seen enough cash, which
`CallShape` adds, with what the other operations saw. `ClosedNotReopened` is
then an argument about one step: only a `write` sets a status, and a call that saw the
row closed writes `closed`.
`LedgerIsKept` needs a sum over the calls: `Balanced(s)` says that the balance is what is booked
and what is owed, the amounts of calls between their write and their ledger entry. Sums are
not defined by recursion but described: `IsSum(f, d)` says that `f` gives the sum of `d` over each
set of calls, and the invariant says that there is such an `f`. `SumChanges` constructs the next one when
one summand changes, `SumOfZeros` (by a least counterexample) finds that nothing owed is zero.
A strategy that no call disturbed is `Balanced` in every state; `RowsExist` excludes that a row
is written before its one creation, which would count its initial balance twice.

**RiskControlProofs.** The inductive invariant adds `CallsPrepared` to the two
properties: a copy about to be stored by a trip or an activation is tripped, and one
about to be stored by a reset is clear. From it `StaleGrants`, `LimitsTrip` and `BreakerIsHeld`.

**WebSocketBatchProofs.** `HandIsNew` makes `EachInOnePlace` inductive: everything that
has a place was read before, and the event in hand has none until it is added to the
buffer. `NewestKept` adds `AllCovered`, that each event which was read is placed, or one
of its key that is not older; its step for `Dedup` rests on
`DeduplicatedKeepsNewest`, which finds the newest and first event of a key by
well-foundedness of the natural numbers.

**OrderPathProofs, the stop** (`EmergencyStop`). `StopInv` extends `Shape` of the order path by four parts.
`OwnPositions` says what a stop has fetched is the user's. `CleanProgress` is the progress of an undisturbed,
error-free activation: what it has come past is closed, no copy of a position update
is of a closed row, and from the fetch of the orders on the executor holds nothing of
the user. `SealedReturned` carries this over the return: a sealed mark means idle and no
errors. Each step of the order path is then an argument about which rows it can make
open: only a held one or a new one (`StatusMoves`). `StopKeepsOrderPath` shows that every step
of the composition is a step of `OrderExecution` or leaves its variables alone, so the
theorems about the order path hold with the kill switch running.

**ProcessProofs, the shutdown** (`Shutdown`). `RequestsAwaited`, `WorkersAwaited` and `ConsumersAwaited` say that past
each wait its goroutines are gone or were given up, with what keeps them gone (a closed
listener, no way back from `gone`); and nothing is closed before the last wait.

**OpportunityConsumerProofs.** The semaphore's bound needs that `wf` is finite, the overlap that
workflows belong to messages that were read (`PastOnly`), and `ActsOnce` that neither a queued
workflow nor a strategy the loop has not come to has begun before (`NotYet`).
`RefinesConsumer` is the safety part of the refinement.

**ProcessProofs, the streams** (`MarketDataStream`). `OneEach`, about the streams held that are not orphans: at most
one of a kind, none beyond the point `Connect` has reached, none while the client is
neither connected nor connecting. `DuplicatesExplained` and `OpenIsHeld` follow.

**UserDataManagerProofs.** Every action of a goroutine is one of five moves (`Moves`: it drops
its pass, lists accounts, narrows the list, takes an account up, proceeds with it), which settles
types and passes at once. `activeConnections` is never negative because it is at least the number of
connected entries (`Counted`): a client that replaces another is counted as well, one that is
removed was connected. `LeaksAreReconnects` needs to know what a pass may still open: the
reconciliation takes up only accounts that nobody else connects (`ReconSafe`), the health check only
ones that went silent (`HealthSafe`), and a silent entry was `silenced` (`PoolMarks`).
`DeactivatedStays` is an argument about one step, the write of a row.

**InvestFlowProofs.** Every step of a handler changes its own record and leaves in Redis the
session, its copy or none (`MovesTo`); the five changes the menu makes to a session keep it
`Consistent`: the choices before its screen, before the screen of its buttons and before each screen on
its stack are made. So copies of whatever age are consistent, which gives `JobIsComplete` with no
exception for lost updates. `DrawnOnce` counts drawings against updates. `ButtonsComing` says who will
repair a keyboard that differs from the session's: a handler that is to show it (`WillShow`), or
one that is to write over a session it has not seen, which `flaws` records. `JobsOnce`
relates jobs, handlers about to publish one, and the session: of an undamaged session at most one of
these is left. It is inductive because a write of a session that is gone, or is another, is recorded,
and because new sessions have new identifiers.
`MenuIsUndisturbed` carries this over to `PortfolioJobs`, where `FallbackNeverCreates`
shows of every job what the run InvestJob shows of one.

## 6. Only model-checked, and not modelled

Only TLC: liveness (`PendingIsProcessed`, `CallEnds`, `TripTakesEffect`, `HandlingEnds`,
`BufferIsFlushed`, `ActiveIsConnected`, `UnwantedStreamsEnd`, `DeadKindIsReopened`,
`ShutdownClosesStreams`, `ShutdownEnds`, `CancelledLeave` and the liveness in
`ImplementsConsumer`), because TLAPS does not treat fairness. The two violations are TLC's as
well: a counterexample is one behaviour of a small instance.

Not modelled within the modelled components: the choice among several accounts of a
user, the length of sleeps and timeouts (`wrapWithTimeout` does not impose one), the
batch queries nothing calls, risk events, equity and PnL arithmetic, the content of
events and messages, menus other than the invest menu, the registry and health of workers.

Not modelled, although control is there: `pkg/clickhouse/batch_writer.go` (a failed flush
drops its batch, line 128; used for AI usage records only) and `GetStats` of
`pkg/reconnect/manager.go` (line 258 takes the read lock a second time, which deadlocks with a
writer waiting in between; its caller on the running system is the health check, the one
goroutine that also writes, so the two do not meet in this commit). The cache of exchange clients
(`user_exchange_factory.go:46`) is one map access under a lock, whose entries outlive a
rotation of keys.

Not modelled, because there is no control to model: generated code (GraphQL, protobuf), HTTP
clients of exchanges and AI providers with their signatures and formats, indicators and
sizing (pure decimal arithmetic), prompts and agents (calls of language models, whose effect
is the tool calls), single-statement repositories, rendering of notifications, configuration,
construction of dependencies, test support, generator and seeder. These are most of the
repository's lines, so the share of lines with a definition stays small: what is
mapped is where goroutines, rows and messages meet.
Components without a module are listed with their reason in `PROJECT.json`.
