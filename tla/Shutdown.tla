------------------------------ MODULE Shutdown ------------------------------
(***************************************************************************)
(* The process: what Container.Start leaves running, and the sequence of   *)
(* Container.Shutdown and Lifecycle.Shutdown that takes it down            *)
(* (cmd/main.go, internal/bootstrap, internal/workers/scheduler.go).       *)
(*                                                                         *)
(* Three kinds of goroutines use the producer and the databases and are    *)
(* waited for before these are closed, each wait with a timeout: requests  *)
(* of the HTTP server (5 seconds), workers (two minutes), consumers (5     *)
(* seconds).  Goroutines that nobody waits for (asynchronous flushes,      *)
(* workflows left behind, loops of the user data manager) are left out.    *)
(* The streams' side of a shutdown is the subject of MarketDataStream.     *)
(***************************************************************************)
EXTENDS Naturals

CONSTANTS
    Workers,    \* the enabled workers of the scheduler
    Consumers,  \* the Kafka consumers Container.Start runs
    Unclosed,   \* those whose reader closeKafkaConsumers does not close
    Requests,   \* HTTP requests that may be served at once
    Hanging     \* workers and consumers whose work may never end

ASSUME ShutdownAssumption == Unclosed \subseteq Consumers

VARIABLES
    main,       \* the main goroutine: where it is in the shutdown
    ctx,        \* the context of the container
    http,       \* the listener: "serving", "failed" or "closed"
    requests,   \* requests being served
    worker,     \* per worker: "waiting" for its ticker, "running", "gone"
    consumer,   \* per consumer: "reading", "handling", "closing", "gone"
    readers,    \* consumers whose reader is open
    closed,     \* which of producer and databases are closed
    gaveUp      \* history: the waits that timed out

processVars == <<main, ctx, http, requests, worker, consumer, readers, closed, gaveUp>>
mainVars == <<main, readers, closed, gaveUp>>

ContextCancelled == ctx = "cancelled"
Up == main # "exited"

ProcessInit ==
    /\ main = "serving"
    /\ ctx = "live"
    /\ http = "serving"
    /\ requests = {}
    /\ worker = [w \in Workers |-> "running"]
    /\ consumer = [c \in Consumers |-> "reading"]
    /\ readers = Consumers
    /\ closed = {}
    /\ gaveUp = {}

-----------------------------------------------------------------------------
(* What runs beside the main goroutine.                                    *)

Accept(q) ==
    /\ Up
    /\ http = "serving"
    /\ requests' = requests \cup {q}
    /\ UNCHANGED <<mainVars, ctx, http, worker, consumer>>

RequestEnds(q) ==
    /\ q \in requests
    /\ requests' = requests \ {q}
    /\ UNCHANGED <<mainVars, ctx, http, worker, consumer>>

(* ListenAndServe returns an error: "Trigger shutdown on fatal HTTP error" *)
(* cancels the context.                                                    *)
HttpFails ==
    /\ Up
    /\ http = "serving"
    /\ http' = "failed"
    /\ ctx' = "cancelled"
    /\ UNCHANGED <<mainVars, requests, worker, consumer>>

(* runWorker: the select may take the ticker when the context is done too. *)
Tick(w) ==
    /\ Up
    /\ worker[w] = "waiting"
    /\ worker' = [worker EXCEPT ![w] = "running"]
    /\ UNCHANGED <<mainVars, ctx, http, requests, consumer>>

(* Run returns, fails or panics.                                           *)
RunEnds(w) ==
    /\ Up
    /\ worker[w] = "running"
    /\ worker' = [worker EXCEPT ![w] = "waiting"]
    /\ UNCHANGED <<mainVars, ctx, http, requests, consumer>>

(* Faulty variant: the context of the scheduler is not derived from that   *)
(* of the container.                                                       *)
WorkerLeavesOnStop(w) ==
    /\ Up
    /\ worker[w] = "waiting"
    /\ main \notin {"serving", "streams", "http", "drain"}
    /\ worker' = [worker EXCEPT ![w] = "gone"]
    /\ UNCHANGED <<mainVars, ctx, http, requests, consumer>>

WorkerLeaves(w) ==
    /\ Up
    /\ worker[w] = "waiting"
    /\ ContextCancelled
    /\ worker' = [worker EXCEPT ![w] = "gone"]
    /\ UNCHANGED <<mainVars, ctx, http, requests, consumer>>

(* ReadMessage returns a message; it was called with the context live.     *)
Read(c) ==
    /\ Up
    /\ consumer[c] = "reading"
    /\ c \in readers
    /\ consumer' = [consumer EXCEPT ![c] = "handling"]
    /\ UNCHANGED <<mainVars, ctx, http, requests, worker>>

Handled(c) ==
    /\ Up
    /\ consumer[c] = "handling"
    /\ consumer' = [consumer EXCEPT ![c] = IF ContextCancelled THEN "closing" ELSE "reading"]
    /\ UNCHANGED <<mainVars, ctx, http, requests, worker>>

(* ReadMessage returns an error and the context is done.                   *)
ReadStops(c) ==
    /\ Up
    /\ consumer[c] = "reading"
    /\ ContextCancelled
    /\ consumer' = [consumer EXCEPT ![c] = "closing"]
    /\ UNCHANGED <<mainVars, ctx, http, requests, worker>>

(* Faulty variant: Start does not close its reader.                        *)
ConsumerLeavesOpen(c) ==
    /\ Up
    /\ consumer[c] = "closing"
    /\ consumer' = [consumer EXCEPT ![c] = "gone"]
    /\ UNCHANGED <<mainVars, ctx, http, requests, worker>>

(* The deferred calls of Start: the final flush, the close of the reader.  *)
ConsumerLeaves(c) ==
    /\ Up
    /\ consumer[c] = "closing"
    /\ consumer' = [consumer EXCEPT ![c] = "gone"]
    /\ readers' = readers \ {c}
    /\ UNCHANGED <<main, closed, gaveUp, ctx, http, requests, worker>>

-----------------------------------------------------------------------------
(* The main goroutine.                                                     *)

Goto(here, there) == main = here /\ main' = there

Signal ==
    /\ Goto("serving", "streams")
    /\ UNCHANGED <<readers, closed, gaveUp, ctx, http, requests, worker, consumer>>

(* Step 0: the clients of the streams stop, at most five seconds; then the *)
(* publisher, and the context.                                             *)
StopStreams ==
    /\ Goto("streams", "http")
    /\ ctx' = "cancelled"
    /\ UNCHANGED <<readers, closed, gaveUp, http, requests, worker, consumer>>

(* Step 1.                                                                 *)
StopHttp ==
    /\ Goto("http", "drain")
    /\ http' = "closed"
    /\ UNCHANGED <<readers, closed, gaveUp, ctx, requests, worker, consumer>>

RequestsDrained ==
    /\ Goto("drain", "workers")
    /\ requests = {}
    /\ UNCHANGED <<readers, closed, gaveUp, ctx, http, requests, worker, consumer>>

DrainTimesOut ==
    /\ Goto("drain", "workers")
    /\ gaveUp' = gaveUp \cup {"http"}
    /\ UNCHANGED <<readers, closed, ctx, http, requests, worker, consumer>>

(* Faulty variant: the wait sees the iterations that run, not the          *)
(* goroutines: wg.Add in executeWorker.                                    *)
NoWorkerRuns ==
    /\ Goto("workers", "managers")
    /\ \A w \in Workers : worker[w] # "running"
    /\ UNCHANGED <<readers, closed, gaveUp, ctx, http, requests, worker, consumer>>

(* Step 2, Scheduler.Stop.                                                 *)
WorkersGone ==
    /\ Goto("workers", "managers")
    /\ \A w \in Workers : worker[w] = "gone"
    /\ UNCHANGED <<readers, closed, gaveUp, ctx, http, requests, worker, consumer>>

SchedulerTimesOut ==
    /\ Goto("workers", "managers")
    /\ gaveUp' = gaveUp \cup {"workers"}
    /\ UNCHANGED <<readers, closed, ctx, http, requests, worker, consumer>>

(* Steps 3 and 4, 10 and 30 seconds.                                       *)
StopManagers ==
    /\ Goto("managers", "readers")
    /\ UNCHANGED <<readers, closed, gaveUp, ctx, http, requests, worker, consumer>>

(* Step 5.                                                                 *)
CloseReaders ==
    /\ Goto("readers", "wait")
    /\ readers' = readers \cap Unclosed
    /\ UNCHANGED <<closed, gaveUp, ctx, http, requests, worker, consumer>>

(* Step 6.                                                                 *)
ConsumersGone ==
    /\ Goto("wait", "producer")
    /\ \A c \in Consumers : consumer[c] = "gone"
    /\ UNCHANGED <<readers, closed, gaveUp, ctx, http, requests, worker, consumer>>

(* Faulty variant: a second wait for the consumers instead of a timeout.   *)
WaitWithoutTimeout == ConsumersGone

WaitTimesOut ==
    /\ Goto("wait", "producer")
    /\ gaveUp' = gaveUp \cup {"consumers"}
    /\ UNCHANGED <<readers, closed, ctx, http, requests, worker, consumer>>

(* Step 7.                                                                 *)
CloseProducer ==
    /\ Goto("producer", "databases")
    /\ closed' = closed \cup {"producer"}
    /\ UNCHANGED <<readers, gaveUp, ctx, http, requests, worker, consumer>>

(* Step 10.                                                                *)
CloseDatabases ==
    /\ Goto("databases", "leaving")
    /\ closed' = closed \cup {"databases"}
    /\ UNCHANGED <<readers, gaveUp, ctx, http, requests, worker, consumer>>

(* os.Exit takes every goroutine with it.                                  *)
Exit ==
    /\ Goto("leaving", "exited")
    /\ requests' = {}
    /\ worker' = [w \in Workers |-> "gone"]
    /\ consumer' = [c \in Consumers |-> "gone"]
    /\ UNCHANGED <<readers, closed, gaveUp, ctx, http>>

MainStep ==
    \/ StopStreams
    \/ StopHttp
    \/ RequestsDrained \/ DrainTimesOut
    \/ WorkersGone \/ SchedulerTimesOut
    \/ StopManagers
    \/ CloseReaders
    \/ ConsumersGone \/ WaitTimesOut
    \/ CloseProducer
    \/ CloseDatabases
    \/ Exit

ProcessNext ==
    \/ \E q \in Requests : Accept(q) \/ RequestEnds(q)
    \/ HttpFails
    \/ \E w \in Workers : Tick(w) \/ RunEnds(w) \/ WorkerLeaves(w)
    \/ \E c \in Consumers : Read(c) \/ Handled(c) \/ ReadStops(c) \/ ConsumerLeaves(c)
    \/ Signal
    \/ MainStep

(* The main goroutine goes on and its timers fire, whatever the others do. *)
MainFairness == WF_processVars(MainStep)

(* Unless it hangs, a run of a worker and the handling of a message end    *)
(* (they have contexts and timeouts), and a select that is ready on the    *)
(* context again and again takes it in the end.  Nothing is assumed of     *)
(* requests.                                                               *)
WorkFairness ==
    /\ \A w \in Workers \ Hanging : WF_processVars(RunEnds(w)) /\ SF_processVars(WorkerLeaves(w))
    /\ \A c \in Consumers \ Hanging : /\ WF_processVars(Handled(c))
                                      /\ WF_processVars(ReadStops(c) \/ ConsumerLeaves(c))

ProcessSpec == ProcessInit /\ [][ProcessNext]_processVars /\ MainFairness /\ WorkFairness

-----------------------------------------------------------------------------
Places == {"serving", "streams", "http", "drain", "workers", "managers", "readers", "wait",
           "producer", "databases", "leaving", "exited"}

(* Types; and whoever left has closed its reader, the consumers that the   *)
(* shutdown does not close included.                                       *)
ProcessTypeOK ==
    /\ main \in Places
    /\ ctx \in {"live", "cancelled"}
    /\ http \in {"serving", "failed", "closed"}
    /\ requests \subseteq Requests
    /\ worker \in [Workers -> {"waiting", "running", "gone"}]
    /\ consumer \in [Consumers -> {"reading", "handling", "closing", "gone"}]
    /\ readers \subseteq Consumers
    /\ closed \subseteq {"producer", "databases"}
    /\ gaveUp \subseteq {"http", "workers", "consumers"}
    /\ Up => \A c \in readers : consumer[c] # "gone"

(* "LAST - other components may need them during shutdown"                 *)
(* (lifecycle.go): whoever is at work when the producer or a database is   *)
(* closed is of a kind the shutdown gave up waiting for.                   *)
ClosedUnderUseIsGivenUp ==
    closed # {} =>
        /\ requests # {} => "http" \in gaveUp
        /\ (\E w \in Workers : worker[w] # "gone") => "workers" \in gaveUp
        /\ (\E c \in Consumers : consumer[c] # "gone") => "consumers" \in gaveUp

(* A shutdown ends, although requests, workers and consumers may hang.     *)
ShutdownEnds == main = "streams" ~> main = "exited"

(* Once the context is cancelled, by a shutdown or by a failure of the     *)
(* HTTP server that nobody follows up, workers and consumers leave, unless *)
(* they hang.                                                              *)
CancelledLeave ==
    ContextCancelled ~> \/ ~Up
                 \/ /\ \A w \in Workers \ Hanging : worker[w] = "gone"
                    /\ \A c \in Consumers \ Hanging : consumer[c] = "gone"

=============================================================================
