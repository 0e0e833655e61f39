---------------------------- MODULE WebSocketBatch ----------------------------
(***************************************************************************)
(* The websocket consumer (internal/consumers/websocket_consumer.go) on    *)
(* its batch lifecycle (batching.go): market data read from Kafka is put   *)
(* into a buffer behind mu, statistics are kept behind statsMu, and the    *)
(* buffer is flushed to ClickHouse by a ticker, by a goroutine per full    *)
(* buffer, and once more when the consumer stops.                          *)
(*                                                                         *)
(* addToBatch updates the statistics while it holds mu; LogStats asks for  *)
(* the length of the buffer while it holds statsMu.                        *)
(*                                                                         *)
(* An event is its position in the topic.  Abstracted: what the statistics *)
(* count, the content of events, user data events (handled without the     *)
(* buffer), and retries inside the Kafka client.                           *)
(***************************************************************************)
EXTENDS Naturals, FiniteSets

CONSTANTS
    Length,        \* bound: events in the topic
    KeyOf,         \* event -> the key it is deduplicated by
    KindOf,        \* event -> the table it goes to, numbered in insertion order
    TimeOf,        \* event -> its event time
    MaxTime,       \* the latest event time
    BatchSize,     \* wsBatchSize
    MaxFailures    \* bound: failing inserts and crashes

Events == 1..Length

ASSUME ConstantsAssumption ==
    /\ Length \in Nat
    /\ KindOf \in [Events -> Nat]
    /\ MaxTime \in Nat
    /\ TimeOf \in [Events -> 0..MaxTime]
    /\ BatchSize \in Nat \ {0}
    /\ MaxFailures \in Nat
    /\ \A m, n \in Events : KeyOf[m] = KeyOf[n] => KindOf[m] = KindOf[n]

Loops == {"flush", "log"}

VARIABLES
    next,       \* the next event to be read; those before are committed
    hand,       \* the event the consumer is handling, 0 if none
    main,       \* where the goroutine of the consumer is
    batch,      \* the buffer; its order is that of the events
    flights,    \* the running FlushBatch calls that have taken a batch
    pending,    \* FlushBatch goroutines that have not looked at the buffer yet
    mu,         \* who holds mu between two steps
    statsMu,    \* who holds statsMu between two steps
    loops,      \* the periodic goroutines that run
    mode,       \* running, stopping, down
    stored,     \* events in ClickHouse
    lost,       \* events a failed call, a cancelled context or an exit lost
    failures    \* failures that may still happen

vars == <<next, hand, main, batch, flights, pending, mu, statsMu, loops, mode,
          stored, lost, failures>>

Flight(owner, items, pc) == [owner |-> owner, items |-> items, pc |-> pc]

Carried == UNION {f.items : f \in flights}

Init ==
    /\ next = 1
    /\ hand = 0
    /\ main = "read"
    /\ batch = {}
    /\ flights = {}
    /\ pending = 0
    /\ mu = "free"
    /\ statsMu = "free"
    /\ loops = Loops
    /\ mode = "running"
    /\ stored = {}
    /\ lost = {}
    /\ failures = MaxFailures

Fail == failures > 0 /\ failures' = failures - 1

-----------------------------------------------------------------------------
(* ReadMessage commits the offset before it returns the event.             *)
ReadMessage ==
    /\ main = "read" /\ mode = "running"
    /\ next \in Events
    /\ hand' = next
    /\ next' = next + 1
    /\ main' = "received"
    /\ UNCHANGED <<batch, flights, pending, mu, statsMu, loops, mode, stored, lost, failures>>

(* incrementStat and trackTypeReceived, each a short stay in statsMu.      *)
CountReceived ==
    /\ main = "received"
    /\ statsMu = "free"
    /\ main' = "add"
    /\ UNCHANGED <<next, hand, batch, flights, pending, mu, statsMu, loops, mode,
                   stored, lost, failures>>

(* addToBatch up to its first incrementStat.                               *)
AddToBatch ==
    /\ main = "add"
    /\ mu = "free"
    /\ mu' = "main"
    /\ batch' = batch \cup {hand}
    /\ main' = "counting"
    /\ UNCHANGED <<next, hand, flights, pending, statsMu, loops, mode, stored, lost, failures>>

(* Faulty variant: the call that fills the buffer returns without Unlock.  *)
AddReturnsLocked ==
    /\ main = "counting"
    /\ statsMu = "free"
    /\ IF Cardinality(batch) >= BatchSize THEN pending' = pending + 1 /\ UNCHANGED mu
                                          ELSE mu' = "free" /\ UNCHANGED pending
    /\ main' = "processed"
    /\ UNCHANGED <<next, hand, batch, flights, statsMu, loops, mode, stored, lost, failures>>

(* The rest of addToBatch: a full buffer starts a flush of its own.        *)
AddReturns ==
    /\ main = "counting"
    /\ statsMu = "free"
    /\ mu' = "free"
    /\ pending' = IF Cardinality(batch) >= BatchSize THEN pending + 1 ELSE pending
    /\ main' = "processed"
    /\ UNCHANGED <<next, hand, batch, flights, statsMu, loops, mode, stored, lost, failures>>

(* trackTypeProcessed, and back to the loop of Consume.                    *)
CountProcessed ==
    /\ main = "processed"
    /\ statsMu = "free"
    /\ hand' = 0
    /\ main' = "read"
    /\ UNCHANGED <<next, batch, flights, pending, mu, statsMu, loops, mode, stored, lost, failures>>

-----------------------------------------------------------------------------
(* Faulty variant: the buffer is copied and not reset.                     *)
TakeBatchKept(owner) ==
    /\ mu = "free"
    /\ flights' = IF batch = {} THEN flights ELSE flights \cup {Flight(owner, batch, "dedup")}
    /\ UNCHANGED batch

(* The part of FlushBatch that holds mu.                                   *)
TakeBatch(owner) ==
    /\ mu = "free"
    /\ flights' = IF batch = {} THEN flights ELSE flights \cup {Flight(owner, batch, "dedup")}
    /\ batch' = {}

Flushing(owner) == \E f \in flights : f.owner = owner

(* The goroutine a full buffer has started.                                *)
AsyncFlush ==
    /\ pending > 0
    /\ TakeBatch("async")
    /\ pending' = pending - 1
    /\ UNCHANGED <<next, hand, main, mu, statsMu, loops, mode, stored, lost, failures>>

(* Faulty variant: the ticker leaves a buffer alone that is not full.      *)
PeriodicFlushOfFull ==
    /\ "flush" \in loops /\ ~Flushing("flush")
    /\ Cardinality(batch) >= BatchSize
    /\ TakeBatch("flush")
    /\ UNCHANGED <<next, hand, main, pending, mu, statsMu, loops, mode, stored, lost, failures>>

(* A tick of periodicFlush.                                                *)
PeriodicFlush ==
    /\ "flush" \in loops /\ ~Flushing("flush")
    /\ batch # {}
    /\ TakeBatch("flush")
    /\ UNCHANGED <<next, hand, main, pending, mu, statsMu, loops, mode, stored, lost, failures>>

(* Faulty variant: the first event of a key is kept.                       *)
DeduplicatedFirst(items) ==
    {m \in items : \A n \in items : KeyOf[n] = KeyOf[m] => m <= n}

(* deduplicateBatch: per key the latest event, the first of equally late.  *)
Deduplicated(items) ==
    {m \in items : \A n \in items :
        KeyOf[n] = KeyOf[m] => \/ TimeOf[n] < TimeOf[m]
                               \/ TimeOf[n] = TimeOf[m] /\ m <= n}

(* Faulty variant: a flush that has inserted everything does not end.      *)
ReplaceForever(f, items, pc) == flights' = (flights \ {f}) \cup {Flight(f.owner, items, pc)}

Replace(f, items, pc) ==
    flights' = (flights \ {f}) \cup (IF items = {} THEN {} ELSE {Flight(f.owner, items, pc)})

(* The number of duplicates removed goes to the statistics.                *)
Dedup(f) ==
    LET kept == Deduplicated(f.items)
    IN  /\ f.pc = "dedup"
        /\ kept # f.items => statsMu = "free"
        /\ Replace(f, kept, "insert")
        /\ UNCHANGED <<next, hand, main, batch, pending, mu, statsMu, loops, mode,
                       stored, lost, failures>>

(* StoreMixedBatch inserts one kind of events after the other.             *)
Insert(f) ==
    LET kind == {m \in f.items : \A n \in f.items : KindOf[m] <= KindOf[n]}
    IN  /\ f.pc = "insert"
        /\ stored' = stored \cup kind
        /\ Replace(f, f.items \ kind, "insert")
        /\ UNCHANGED <<next, hand, main, batch, pending, mu, statsMu, loops, mode, lost, failures>>

(* An insert fails, which ends StoreMixedBatch.  The context of a periodic *)
(* flush is that of the consumer: once it is cancelled inserts fail.       *)
InsertFails(f) ==
    /\ f.pc = "insert"
    /\ IF f.owner = "flush" /\ mode = "stopping" THEN UNCHANGED failures ELSE Fail
    /\ lost' = lost \cup f.items
    /\ Replace(f, {}, "insert")
    /\ UNCHANGED <<next, hand, main, batch, pending, mu, statsMu, loops, mode, stored>>

-----------------------------------------------------------------------------
(* LogStats of the ticker, up to the lock of the buffer and after it.      *)
LogStats ==
    /\ "log" \in loops
    /\ statsMu = "free"
    /\ statsMu' = "log"
    /\ UNCHANGED <<next, hand, main, batch, flights, pending, mu, loops, mode,
                   stored, lost, failures>>

LogStatsReturns ==
    /\ statsMu = "log"
    /\ mu = "free"
    /\ statsMu' = "free"
    /\ UNCHANGED <<next, hand, main, batch, flights, pending, mu, loops, mode,
                   stored, lost, failures>>

-----------------------------------------------------------------------------
(* The context of the consumers is cancelled.                              *)
Stop ==
    /\ mode = "running"
    /\ mode' = "stopping"
    /\ UNCHANGED <<next, hand, main, batch, flights, pending, mu, statsMu, loops,
                   stored, lost, failures>>

(* A periodic goroutine sees it, after the call it is in.                  *)
EndLoop(l) ==
    /\ mode = "stopping"
    /\ l \in loops
    /\ IF l = "flush" THEN ~Flushing("flush") ELSE statsMu # "log"
    /\ loops' = loops \ {l}
    /\ UNCHANGED <<next, hand, main, batch, flights, pending, mu, statsMu, mode,
                   stored, lost, failures>>

(* Consume returns, and cleanup starts with the final flush.               *)
FinalFlush ==
    /\ main = "read" /\ mode = "stopping"
    /\ TakeBatch("main")
    /\ main' = "flushed"
    /\ UNCHANGED <<next, hand, pending, mu, statsMu, loops, mode, stored, lost, failures>>

(* cleanup: LogStats after the flush, then the Kafka reader is closed.     *)
FinalStats ==
    /\ \/ /\ main = "flushed" /\ ~Flushing("main")
          /\ statsMu = "free"
          /\ statsMu' = "main"
          /\ main' = "stats"
       \/ /\ main = "stats"
          /\ mu = "free"
          /\ statsMu' = "free"
          /\ main' = "closed"
    /\ UNCHANGED <<next, hand, batch, flights, pending, mu, loops, mode, stored, lost, failures>>

(* The process ends: by a crash, or because the shutdown, which waits five *)
(* seconds for the consumers and not at all for their goroutines, is over. *)
Exit ==
    /\ \/ mode = "running" /\ Fail
       \/ mode = "stopping" /\ UNCHANGED failures
    /\ mode' = "down"
    /\ lost' = lost \cup batch \cup Carried \cup ({hand} \ (stored \cup {0}))
    /\ hand' = 0
    /\ main' = "read"
    /\ batch' = {}
    /\ flights' = {}
    /\ pending' = 0
    /\ mu' = "free"
    /\ statsMu' = "free"
    /\ loops' = {}
    /\ UNCHANGED <<next, stored>>

Restart ==
    /\ mode = "down"
    /\ mode' = "running"
    /\ loops' = Loops
    /\ UNCHANGED <<next, hand, main, batch, flights, pending, mu, statsMu, stored, lost, failures>>

Main ==
    \/ ReadMessage
    \/ CountReceived
    \/ AddToBatch
    \/ AddReturns
    \/ CountProcessed
    \/ FinalFlush
    \/ FinalStats

Next ==
    \/ Main
    \/ AsyncFlush
    \/ PeriodicFlush
    \/ \E f \in flights : Dedup(f) \/ Insert(f) \/ InsertFails(f)
    \/ LogStats
    \/ LogStatsReturns
    \/ Stop
    \/ \E l \in Loops : EndLoop(l)
    \/ Exit
    \/ Restart

(* Goroutines run; a goroutine that waits for a mutex gets it if it is     *)
(* released again and again (sync.Mutex hands over to a starved waiter).   *)
Fairness ==
    /\ SF_vars(Main)
    /\ SF_vars(AsyncFlush)
    /\ SF_vars(PeriodicFlush)
    /\ SF_vars(\E f \in flights : Dedup(f))
    /\ WF_vars(\E f \in flights : Insert(f) \/ InsertFails(f))
    /\ WF_vars(LogStatsReturns)
    /\ \A l \in Loops : WF_vars(EndLoop(l))

Spec == Init /\ [][Next]_vars /\ Fairness

-----------------------------------------------------------------------------
TypeOK ==
    /\ next \in 1..(Length + 1)
    /\ hand \in 0..Length
    /\ main \in {"read", "received", "add", "counting", "processed", "flushed", "stats", "closed"}
    /\ batch \subseteq Events
    /\ \A f \in flights : /\ f.owner \in {"async", "flush", "main"}
                          /\ f.items \in (SUBSET Events) \ {{}}
                          /\ f.pc \in {"dedup", "insert"}
    /\ pending \in Nat
    /\ mu \in {"free", "main"}
    /\ statsMu \in {"free", "log", "main"}
    /\ loops \subseteq Loops
    /\ mode \in {"running", "stopping", "down"}
    /\ stored \subseteq Events
    /\ lost \subseteq Events
    /\ failures \in Nat

(* However flushes overlap, an event is in one place only: waiting in the  *)
(* buffer, carried by one flush, stored, or lost.  None is stored twice,   *)
(* and none that was reported as lost is stored.                           *)
EachInOnePlace ==
    /\ \A f \in flights, g \in flights : f = g \/ f.items \cap g.items = {}
    /\ batch \cap Carried = {}
    /\ stored \cap lost = {}
    /\ (batch \cup Carried) \cap (stored \cup lost) = {}

(* No overlap of flushes loses the newest event of a key: every event that *)
(* was handled is somewhere, or one of its key that is not older is.       *)
NewestSurvives ==
    \A m \in 1..(next - 1) :
        m = hand \/ \E n \in batch \cup Carried \cup stored \cup lost :
                        KeyOf[n] = KeyOf[m] /\ TimeOf[n] >= TimeOf[m]

(* The consumer holds mu and waits for statsMu, LogStats the reverse.      *)
Deadlocked == main = "counting" /\ statsMu = "log"

(* Only that deadlock stops the consumer: an event whose handling began is *)
(* done with, and a stop is over when the final flush is.                  *)
HandlingEnds ==
    (main \notin {"read", "closed"}) ~> (main \in {"read", "closed"} \/ Deadlocked)

(* A buffered event does not stay in the buffer.                           *)
BufferIsFlushed ==
    \A m \in Events : (m \in batch) ~> (m \notin batch \/ Deadlocked)

(* "addToBatch adds an item to batch (thread-safe)"                        *)
(* (websocket_consumer.go:477): the call returns unless the process ends.  *)
AddIsThreadSafe == (main = "counting") ~> (main # "counting")
=============================================================================
