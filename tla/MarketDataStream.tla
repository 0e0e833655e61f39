--------------------------- MODULE MarketDataStream ---------------------------
(***************************************************************************)
(* The market data streams: the binance websocket client                   *)
(* (internal/adapters/websocket/binance/client.go) under the manager that  *)
(* reconnects it (internal/adapters/websocket/market_data_manager.go) and  *)
(* the shutdown of the process (internal/bootstrap).                       *)
(*                                                                         *)
(* Client and manager each have a reconnect manager of their own.  Only    *)
(* the client's hears of messages, and it never hears of an attempt; only  *)
(* the manager's hears of attempts, and it never hears of a message.       *)
(*                                                                         *)
(* A stream is a connection the websocket library serves: its kind, in the *)
(* order in which Connect opens them, and a slot that tells streams of one *)
(* kind apart.  Abstracted: symbols and payloads; the lengths of the waits;*)
(* the waiting of Stop for its streams, which holds the lock and in which  *)
(* messages are ignored; the manager's connected flag, which is only       *)
(* reported.                                                               *)
(***************************************************************************)
EXTENDS Naturals, FiniteSets

CONSTANTS
    Kinds,         \* kinds of streams in the configuration
    ResettingKind, \* the futures klines, whose messages reset recentErrors
    ErrorLimit,    \* recent errors a connection may have
    MaxRetries,    \* MaxRetries of the manager's reconnect manager
    MaxFailures    \* bound: streams that cannot be opened

ASSUME ConstantsAssumption ==
    /\ Kinds \in Nat \ {0}
    /\ ResettingKind \in 1..Kinds
    /\ ErrorLimit \in Nat
    /\ MaxRetries \in Nat \ {0}
    /\ MaxFailures \in Nat

Slots == 0..MaxFailures

Streams == [kind : 1..Kinds, slot : Slots]

VARIABLES
    flags,      \* which of connected and stopping the client has set
    open,       \* the streams that deliver messages
    held,       \* the streams in stopChannels
    orphans,    \* those of held that a failed Connect opened
    opening,    \* the kind Connect opens next, 0 if it does not run
    errors,     \* recentErrors, counted up to ErrorLimit + 1
    heard,      \* lastMessageTime of the client's reconnect manager
    failures,   \* the manager's reconnect manager
    circuit,
    beat,
    loop,       \* where Start and then the health check loop are
    watchers,   \* goroutines of client.Start that will call Stop; two is two or more
    shutdown,   \* how far the shutdown is
    spare       \* openings that may still fail

clientVars == <<flags, open, held, orphans, opening, errors, heard>>
managerVars == <<failures, circuit, beat>>
vars == <<clientVars, managerVars, loop, watchers, shutdown, spare>>

Manager == INSTANCE ReconnectManager
ClientBeat == INSTANCE ReconnectManager WITH failures <- 0, circuit <- "closed", beat <- heard

Init ==
    /\ flags = {}
    /\ open = {}
    /\ held = {}
    /\ orphans = {}
    /\ opening = 0
    /\ errors = 0
    /\ heard = "none"
    /\ Manager!InitManager
    /\ loop = "connect"
    /\ watchers = 0
    /\ shutdown = "none"
    /\ spare = MaxFailures

Cancelled == shutdown \in {"cancelled", "closing", "stopped"}

-----------------------------------------------------------------------------
(* The client.                                                             *)

(* IsConnected.                                                            *)
IsConnected ==
    /\ "connected" \in flags
    /\ ClientBeat!IsHealthy
    /\ errors <= ErrorLimit

(* Faulty variant: the streams are forgotten and not told to stop.         *)
StopClientForgets ==
    /\ opening = 0
    /\ IF "connected" \in flags
       THEN /\ flags' = {"stopping"}
            /\ held' = {}
            /\ orphans' = {}
            /\ UNCHANGED <<open, opening, errors, heard>>
       ELSE UNCHANGED clientVars

(* Stop, with the lock from beginning to end.  Without a connection it     *)
(* returns at once, whatever stopChannels hold.                            *)
StopClient ==
    /\ opening = 0
    /\ IF "connected" \in flags
       THEN /\ flags' = {"stopping"}
            /\ open' = open \ held
            /\ held' = {}
            /\ orphans' = {}
            /\ UNCHANGED <<opening, errors, heard>>
       ELSE UNCHANGED clientVars

(* Connect takes the lock.                                                 *)
BeginConnect ==
    /\ loop \in {"connect", "reconnect"}
    /\ opening = 0
    /\ "connected" \notin flags
    /\ opening' = 1
    /\ UNCHANGED <<flags, open, held, orphans, errors, heard, managerVars, loop, watchers,
                   shutdown, spare>>

(* The connect<Kind>Streams functions, one after the other.                *)
OpenStream ==
    /\ opening \in 1..Kinds
    /\ \E n \in Slots :
        LET s == [kind |-> opening, slot |-> n]
        IN  /\ s \notin held \cup open
            /\ \A k \in Slots : k < n => [kind |-> opening, slot |-> k] \in held \cup open
            /\ open' = open \cup {s}
            /\ held' = held \cup {s}
    /\ opening' = opening + 1
    /\ UNCHANGED <<flags, orphans, errors, heard, managerVars, loop, watchers, shutdown, spare>>

(* A function fails: Connect returns with the earlier streams open.  The   *)
(* first attempt is forgiven by Start, a later one counts as a failure.    *)
OpenStreamFails ==
    /\ opening \in 1..Kinds
    /\ spare > 0
    /\ spare' = spare - 1
    /\ opening' = 0
    /\ orphans' = held
    /\ IF loop = "connect" THEN UNCHANGED managerVars ELSE Manager!RecordFailure
    /\ loop' = "idle"
    /\ UNCHANGED <<flags, open, held, errors, heard, watchers, shutdown>>

EndConnect ==
    /\ opening = Kinds + 1
    /\ opening' = 0
    /\ flags' = flags \cup {"connected"}
    /\ errors' = 0
    /\ loop' = IF loop = "connect" THEN "start" ELSE "restart"
    /\ UNCHANGED <<open, held, orphans, heard, managerVars, watchers, shutdown, spare>>

(* Faulty variant: nothing watches the context.                            *)
StartClientUnwatched ==
    /\ loop \in {"start", "restart"}
    /\ "connected" \in flags
    /\ Manager!RecordSuccess
    /\ loop' = "idle"
    /\ UNCHANGED <<clientVars, watchers, shutdown, spare>>

(* client.Start and the rest of connect and of ReconnectWithBackoff.  It   *)
(* fails when the client was stopped after Connect.                        *)
StartClient ==
    /\ loop \in {"start", "restart"}
    /\ IF "connected" \in flags
       THEN /\ watchers' = IF watchers < 2 THEN watchers + 1 ELSE watchers
            /\ Manager!RecordSuccess
       ELSE /\ UNCHANGED watchers
            /\ IF loop = "start" THEN UNCHANGED managerVars ELSE Manager!RecordFailure
    /\ loop' = "idle"
    /\ UNCHANGED <<clientVars, shutdown, spare>>

(* A handler: the heartbeat is recorded before the stopping flag is read.  *)
Message(s) ==
    /\ s \in open
    /\ heard' = "fresh"
    /\ errors' = IF s.kind = ResettingKind /\ "stopping" \notin flags THEN 0 ELSE errors
    /\ UNCHANGED <<flags, open, held, orphans, opening, managerVars, loop, watchers,
                   shutdown, spare>>

AddError == errors' = IF errors <= ErrorLimit THEN errors + 1 ELSE errors

(* errHandler: a message that cannot be read, or the end of the stream.    *)
StreamError(s) ==
    /\ s \in open
    /\ AddError
    /\ open' \in {open, open \ {s}}
    /\ UNCHANGED <<flags, held, orphans, opening, heard, managerVars, loop, watchers,
                   shutdown, spare>>

-----------------------------------------------------------------------------
(* The health check loop.                                                  *)

(* performHealthCheck up to the wait of ReconnectWithBackoff.              *)
HealthCheck ==
    /\ loop = "idle"
    /\ ~(IsConnected /\ Manager!IsHealthy)
    /\ Manager!ShouldRetry
    /\ loop' = "wait"
    /\ UNCHANGED <<clientVars, managerVars, watchers, shutdown, spare>>

(* The wait ends, or the context does, which is not counted as a failure.  *)
Backoff ==
    /\ loop = "wait"
    /\ \/ loop' = "stop"
       \/ Cancelled /\ loop' = "idle"
    /\ UNCHANGED <<clientVars, managerVars, watchers, shutdown, spare>>

(* reconnectFunc stops the old connection before it connects.              *)
StopOld ==
    /\ loop = "stop"
    /\ StopClient
    /\ loop' = "reconnect"
    /\ UNCHANGED <<managerVars, watchers, shutdown, spare>>

EndLoop ==
    /\ loop = "idle"
    /\ Cancelled
    /\ loop' = "done"
    /\ UNCHANGED <<clientVars, managerVars, watchers, shutdown, spare>>

(* Time passes.                                                            *)
HeartbeatElapses ==
    /\ Manager!HeartbeatElapses
    /\ UNCHANGED <<clientVars, loop, watchers, shutdown, spare>>

CircuitElapses ==
    /\ Manager!CircuitElapses
    /\ UNCHANGED <<clientVars, loop, watchers, shutdown, spare>>

ClientHeartbeatElapses ==
    /\ ClientBeat!HeartbeatElapses
    /\ UNCHANGED <<flags, open, held, orphans, opening, errors, managerVars, loop, watchers,
                   shutdown, spare>>

-----------------------------------------------------------------------------
(* The shutdown.                                                           *)

Started == loop \notin {"connect", "start"}

(* Step 0: the clients are stopped while the loop still runs.              *)
ShutdownClients ==
    /\ Started /\ shutdown = "none"
    /\ StopClient
    /\ shutdown' = "clients"
    /\ UNCHANGED <<managerVars, loop, watchers, spare>>

(* The context is cancelled, in the shutdown or by a failed HTTP server.   *)
Cancel ==
    /\ Started /\ shutdown \in {"none", "clients"}
    /\ shutdown' = "cancelled"
    /\ UNCHANGED <<clientVars, managerVars, loop, watchers, spare>>

(* The goroutine of client.Start.                                          *)
WatcherStops ==
    /\ Cancelled
    /\ watchers > 0
    /\ watchers' \in (IF watchers = 2 THEN {1, 2} ELSE {0})
    /\ StopClient
    /\ UNCHANGED <<managerVars, loop, shutdown, spare>>

(* Manager.Stop stops the client, then waits for the loop, or 5 seconds.   *)
StopManager ==
    /\ \/ /\ shutdown = "cancelled"
          /\ StopClient
          /\ shutdown' = "closing"
       \/ /\ shutdown = "closing"
          /\ shutdown' = "stopped"
          /\ UNCHANGED clientVars
    /\ UNCHANGED <<managerVars, loop, watchers, spare>>

-----------------------------------------------------------------------------
Attempt ==
    \/ HealthCheck
    \/ Backoff
    \/ StopOld
    \/ BeginConnect
    \/ OpenStream
    \/ OpenStreamFails
    \/ EndConnect
    \/ StartClient

Next ==
    \/ Attempt
    \/ EndLoop
    \/ \E s \in Streams : Message(s) \/ StreamError(s)
    \/ HeartbeatElapses
    \/ CircuitElapses
    \/ ClientHeartbeatElapses
    \/ ShutdownClients
    \/ Cancel
    \/ WatcherStops
    \/ StopManager

(* Goroutines run and time passes; the loop sees a cancelled context.      *)
Fairness ==
    /\ WF_vars(Attempt)
    /\ SF_vars(EndLoop)
    /\ WF_vars(HeartbeatElapses)
    /\ WF_vars(CircuitElapses)
    /\ SF_vars(WatcherStops)

Spec == Init /\ [][Next]_vars /\ Fairness

-----------------------------------------------------------------------------
TypeOK ==
    /\ flags \subseteq {"connected", "stopping"}
    /\ open \subseteq Streams
    /\ held \subseteq Streams
    /\ orphans \subseteq Streams
    /\ opening \in 0..(Kinds + 1)
    /\ errors \in 0..(ErrorLimit + 1)
    /\ heard \in {"none", "fresh", "silent"}
    /\ Manager!ManagerTypeOK
    /\ loop \in {"connect", "start", "idle", "wait", "stop", "reconnect", "restart", "done"}
    /\ watchers \in 0..2
    /\ shutdown \in {"none", "clients", "cancelled", "closing", "stopped"}
    /\ spare \in 0..MaxFailures

(* However often the manager reconnects, and whoever stops the client      *)
(* meanwhile, an event is published twice only while streams of a Connect  *)
(* that failed half-way are still open.                                    *)
DuplicatesNeedFailedConnect ==
    \A s, t \in open : s.kind = t.kind /\ s # t => s \in orphans \/ t \in orphans

(* A stream that could not be opened, or has ended, is opened again, with  *)
(* whatever the circuit and the two heartbeats were.                       *)
DeadKindIsReopened ==
    \A k \in 1..Kinds : []<>((\E s \in open : s.kind = k) \/ shutdown # "none")

(* A cancelled context closes all streams, those of a reconnection that    *)
(* was under way as well, except those of a Connect that failed half-way.  *)
ShutdownClosesStreams == Cancelled ~> [](open \subseteq orphans)

=============================================================================
