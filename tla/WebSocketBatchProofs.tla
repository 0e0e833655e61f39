------------------------ MODULE WebSocketBatchProofs ------------------------
(***************************************************************************)
(* However many flushes overlap, fail or are cut off by the end of the     *)
(* process, an event of WebSocketBatch is in one place at a time.          *)
(***************************************************************************)
EXTENDS WebSocketBatch, WellFoundedInduction, TLAPS

(* Where events that were added to the buffer can be.                      *)
Placed == batch \cup Carried \cup stored \cup lost

(* An event comes to a place once: what is placed has been read, and the   *)
(* event in hand has no place until it is added to the buffer.             *)
HandIsNew ==
    /\ hand < next
    /\ \A m \in Placed : m < next
    /\ main \in {"received", "add"} => hand \in Events \ Placed
    /\ main \in {"counting", "processed"} => hand \in Events

(* An event of the key of m that is not older than m is placed.            *)
Covered(m) == \E n \in Placed : KeyOf[n] = KeyOf[m] /\ TimeOf[n] >= TimeOf[m]

(* Every event that was read is covered once it is out of hand.            *)
AllCovered ==
    \A m \in 1..(next - 1) : Covered(m) \/ (m = hand /\ main \in {"received", "add"})

IInv == TypeOK /\ EachInOnePlace /\ HandIsNew

(* Among the events of a key that are flushed together deduplicateBatch    *)
(* keeps one that is not older than any other.                             *)
LEMMA DeduplicatedKeepsNewest ==
    ASSUME NEW items \in SUBSET Events, NEW m \in items
    PROVE  \E n \in Deduplicated(items) : KeyOf[n] = KeyOf[m] /\ TimeOf[n] >= TimeOf[m]
<1> DEFINE same == {n \in items : KeyOf[n] = KeyOf[m]}
           ages == {MaxTime - TimeOf[n] : n \in same}
<1>1. /\ Events \subseteq Nat
      /\ \A n \in Events : TimeOf[n] \in Nat /\ MaxTime - TimeOf[n] \in Nat
  BY ConstantsAssumption DEF Events
<1>2. \A T \in SUBSET Nat : T # {} => \E x \in T : \A y \in T : ~(y < x)
  <2>1. \A T \in SUBSET Nat : T # {} =>
            \E x \in T : \A y \in T : ~(<<y, x>> \in OpToRel(<, Nat))
    BY NatLessThanWellFounded, WFMin
  <2> QED BY <2>1 DEF OpToRel
<1>3. ages \in SUBSET Nat /\ ages # {}
  BY <1>1
<1>4. PICK age \in ages : \A y \in ages : ~(y < age)
  BY <1>2, <1>3
<1>5. PICK latest \in same : age = MaxTime - TimeOf[latest]
  BY <1>4
<1>6. \A n \in same : TimeOf[n] <= TimeOf[latest]
  BY <1>1, <1>4, <1>5, ConstantsAssumption
<1> DEFINE late == {n \in same : TimeOf[n] = TimeOf[latest]}
<1>7. late \in SUBSET Nat /\ late # {}
  BY <1>1
<1>8. PICK first \in late : \A n \in late : ~(n < first)
  BY <1>2, <1>7
<1>9. first \in Deduplicated(items)
  BY <1>1, <1>6, <1>8 DEF Deduplicated
<1> QED BY <1>6, <1>8, <1>9

THEOREM InitIInv == Init => IInv
  BY ConstantsAssumption DEF Init, IInv, TypeOK, EachInOnePlace, HandIsNew, Placed, Carried,
     Events, Loops

(* The actions that move no event keep the buffer, the flights and what is *)
(* stored and lost.                                                        *)
LEMMA SamePlaces ==
    ASSUME UNCHANGED <<batch, flights, stored, lost>>
    PROVE  Placed' = Placed /\ Carried' = Carried /\ (EachInOnePlace' <=> EachInOnePlace)
  BY DEF Placed, Carried, EachInOnePlace

LEMMA PlacedAreEvents == TypeOK => Placed \subseteq Events
  BY DEF TypeOK, Placed, Carried

LEMMA MainStill ==
    ASSUME IInv,
           \/ ReadMessage
           \/ CountReceived
           \/ AddReturns
           \/ CountProcessed
    PROVE  IInv'
<1>1. UNCHANGED <<batch, flights, stored, lost>>
  BY DEF ReadMessage, CountReceived, AddReturns, CountProcessed
<1>2. Placed' = Placed /\ EachInOnePlace'
  BY <1>1, SamePlaces DEF IInv
<1>3. TypeOK'
  <2>1. CASE ReadMessage
    BY <2>1, ConstantsAssumption DEF ReadMessage, IInv, TypeOK, Events
  <2>2. CASE CountReceived
    BY <2>2 DEF CountReceived, IInv, TypeOK
  <2>3. CASE AddReturns
    BY <2>3 DEF AddReturns, IInv, TypeOK
  <2>4. CASE CountProcessed
    BY <2>4, ConstantsAssumption DEF CountProcessed, IInv, TypeOK
  <2> QED BY <2>1, <2>2, <2>3, <2>4
<1>4. HandIsNew'
  <2>1. CASE ReadMessage
    <3>1. /\ next \in Nat /\ next' = next + 1 /\ hand' = next /\ hand' \in Events
          /\ main' = "received"
      BY <2>1, ConstantsAssumption DEF ReadMessage, IInv, TypeOK
    <3>2. \A m \in Placed : m \in Nat /\ m < next
      BY PlacedAreEvents, ConstantsAssumption DEF IInv, HandIsNew, Events
    <3> QED BY <3>1, <3>2, <1>2 DEF HandIsNew
  <2>2. CASE CountReceived
    BY <2>2, <1>2 DEF CountReceived, IInv, HandIsNew
  <2>3. CASE AddReturns
    BY <2>3, <1>2 DEF AddReturns, IInv, HandIsNew
  <2>4. CASE CountProcessed
    BY <2>4, <1>2 DEF CountProcessed, IInv, TypeOK, HandIsNew
  <2> QED BY <2>1, <2>2, <2>3, <2>4
<1> QED BY <1>2, <1>3, <1>4 DEF IInv

LEMMA OthersStill ==
    ASSUME IInv,
           \/ LogStats
           \/ LogStatsReturns
           \/ Stop
           \/ \E l \in Loops : EndLoop(l)
           \/ FinalStats
           \/ Restart
    PROVE  IInv'
<1>1. UNCHANGED <<batch, flights, stored, lost>>
  BY DEF LogStats, LogStatsReturns, Stop, EndLoop, FinalStats, Restart
<1>2. Placed' = Placed /\ EachInOnePlace'
  BY <1>1, SamePlaces DEF IInv
<1>3. UNCHANGED <<next, hand, pending, failures>> /\ (main' = main \/ main' \in {"stats", "closed"})
  BY DEF LogStats, LogStatsReturns, Stop, EndLoop, FinalStats, Restart
<1>4. /\ mu' \in {"free", "main"}
      /\ statsMu' \in {"free", "log", "main"}
      /\ loops' \subseteq Loops
      /\ mode' \in {"running", "stopping", "down"}
  BY DEF LogStats, LogStatsReturns, Stop, EndLoop, FinalStats, Restart, IInv, TypeOK
<1>5. TypeOK'
  BY <1>1, <1>3, <1>4 DEF IInv, TypeOK
<1>6. HandIsNew'
  BY <1>2, <1>3 DEF IInv, HandIsNew
<1> QED BY <1>2, <1>5, <1>6 DEF IInv

(* The event in hand enters the buffer: it had no place before.            *)
LEMMA AddKeeps == ASSUME IInv, AddToBatch PROVE IInv'
<1>1. /\ hand \in Events \ Placed
      /\ batch' = batch \cup {hand} /\ hand' = hand /\ main' = "counting"
      /\ UNCHANGED <<next, flights, stored, lost>>
  BY DEF AddToBatch, IInv, HandIsNew
<1>2. Carried' = Carried /\ Placed' = Placed \cup {hand}
  BY <1>1 DEF Placed, Carried
<1>3. TypeOK'
  BY <1>1 DEF AddToBatch, IInv, TypeOK
<1>4. EachInOnePlace'
  BY <1>1, <1>2 DEF IInv, EachInOnePlace, Placed
<1>5. HandIsNew'
  BY <1>1, <1>2 DEF IInv, HandIsNew
<1> QED BY <1>3, <1>4, <1>5 DEF IInv

-----------------------------------------------------------------------------
(* FlushBatch moves the buffer to a flight of its own.                     *)
LEMMA TakenPlaces ==
    ASSUME TypeOK, EachInOnePlace, NEW owner \in {"async", "flush", "main"},
           TakeBatch(owner), UNCHANGED <<stored, lost>>
    PROVE  /\ Placed' = Placed
           /\ EachInOnePlace'
           /\ batch' = {}
           /\ \A f \in flights' : /\ f.owner \in {"async", "flush", "main"}
                                  /\ f.items \in (SUBSET Events) \ {{}}
                                  /\ f.pc \in {"dedup", "insert"}
<1> DEFINE new == Flight(owner, batch, "dedup")
<1>1. new.owner = owner /\ new.items = batch /\ new.pc = "dedup"
  BY DEF Flight
<1>2. CASE batch = {}
  <2>1. flights' = flights /\ batch' = batch
    BY <1>2 DEF TakeBatch
  <2> QED BY <1>2, <2>1, SamePlaces DEF TypeOK
<1>3. CASE batch # {}
  <2>1. flights' = flights \cup {new} /\ batch' = {}
    BY <1>3 DEF TakeBatch
  <2> HIDE DEF new
  <2>2. Carried' = Carried \cup batch
    BY <1>1, <2>1 DEF Carried
  <2>3. \A f \in flights : f.items \cap batch = {}
    BY DEF EachInOnePlace, Carried
  <2>4. \A f \in flights', g \in flights' : f = g \/ f.items \cap g.items = {}
    <3> TAKE f \in flights', g \in flights'
    <3>1. CASE f \in flights /\ g \in flights
      BY <3>1 DEF EachInOnePlace
    <3>2. CASE f = new \/ g = new
      BY <3>2, <1>1, <2>1, <2>3
    <3> QED BY <3>1, <3>2, <2>1
  <2>5. EachInOnePlace'
    BY <2>1, <2>2, <2>4 DEF EachInOnePlace
  <2>6. Placed' = Placed
    BY <2>1, <2>2 DEF Placed
  <2> QED BY <1>1, <1>3, <2>1, <2>5, <2>6 DEF TypeOK
<1> QED BY <1>2, <1>3

LEMMA FlushesTake ==
    ASSUME IInv, AsyncFlush \/ PeriodicFlush \/ FinalFlush
    PROVE  IInv'
<1>1. /\ \E owner \in {"async", "flush", "main"} : TakeBatch(owner)
      /\ UNCHANGED <<next, hand, mu, statsMu, loops, mode, stored, lost, failures>>
      /\ main' = main \/ main' = "flushed"
  BY DEF AsyncFlush, PeriodicFlush, FinalFlush
<1>2. pending' \in Nat
  BY DEF AsyncFlush, PeriodicFlush, FinalFlush, IInv, TypeOK
<1>3. /\ Placed' = Placed
      /\ EachInOnePlace'
      /\ batch' = {}
      /\ \A f \in flights' : /\ f.owner \in {"async", "flush", "main"}
                             /\ f.items \in (SUBSET Events) \ {{}}
                             /\ f.pc \in {"dedup", "insert"}
  BY <1>1, TakenPlaces DEF IInv
<1>4. TypeOK'
  BY <1>1, <1>2, <1>3 DEF IInv, TypeOK
<1>5. HandIsNew'
  BY <1>1, <1>3 DEF IInv, HandIsNew
<1> QED BY <1>3, <1>4, <1>5 DEF IInv

(* A flight goes on with some of its items, or is over.                    *)
LEMMA ReplacedPlaces ==
    ASSUME TypeOK, NEW f \in flights, NEW items \in SUBSET f.items,
           NEW pc \in {"dedup", "insert"}, Replace(f, items, pc),
           \A g \in flights, h \in flights : g = h \/ g.items \cap h.items = {}
    PROVE  /\ \A g \in flights', h \in flights' : g = h \/ g.items \cap h.items = {}
           /\ Carried' = (Carried \ f.items) \cup items
           /\ \A g \in flights' : /\ g.owner \in {"async", "flush", "main"}
                                  /\ g.items \in (SUBSET Events) \ {{}}
                                  /\ g.pc \in {"dedup", "insert"}
<1> DEFINE new == Flight(f.owner, items, pc)
<1>1. new.owner = f.owner /\ new.items = items /\ new.pc = pc
  BY DEF Flight
<1>2. /\ flights' \subseteq (flights \ {f}) \cup {new}
      /\ flights \ {f} \subseteq flights'
      /\ new \in flights' => items # {} \/ new \in flights \ {f}
      /\ items # {} => new \in flights'
  BY DEF Replace
<1> HIDE DEF new
<1>3. \A g \in flights \ {f} : g.items \cap f.items = {}
  OBVIOUS
<1>4. \A g \in flights', h \in flights' : g = h \/ g.items \cap h.items = {}
  BY <1>1, <1>2, <1>3
<1>5. Carried' = (Carried \ f.items) \cup items
  <2>1. Carried' \subseteq (Carried \ f.items) \cup items
    BY <1>1, <1>2, <1>3 DEF Carried
  <2>2. Carried \ f.items \subseteq Carried'
    BY <1>2 DEF Carried
  <2>3. items \subseteq Carried'
    BY <1>1, <1>2 DEF Carried
  <2> QED BY <2>1, <2>2, <2>3
<1>6. \A g \in flights' : /\ g.owner \in {"async", "flush", "main"}
                         /\ g.items \in (SUBSET Events) \ {{}}
                         /\ g.pc \in {"dedup", "insert"}
  BY <1>1, <1>2 DEF TypeOK
<1> QED BY <1>4, <1>5, <1>6

(* What a flight lets go of is stored, lost or dropped, and nothing else   *)
(* changes place.                                                          *)
LEMMA FlightKeeps ==
    ASSUME IInv, NEW f \in flights, NEW items \in SUBSET f.items, NEW gone \in SUBSET f.items,
           items \cap gone = {}, Replace(f, items, "insert"),
           \/ stored' = stored \cup gone /\ UNCHANGED lost
           \/ lost' = lost \cup gone /\ UNCHANGED stored,
           UNCHANGED <<next, hand, main, batch, pending, mu, statsMu, loops, mode>>,
           failures' \in Nat
    PROVE  IInv'
<1>1. /\ \A g \in flights', h \in flights' : g = h \/ g.items \cap h.items = {}
      /\ Carried' = (Carried \ f.items) \cup items
      /\ \A g \in flights' : /\ g.owner \in {"async", "flush", "main"}
                             /\ g.items \in (SUBSET Events) \ {{}}
                             /\ g.pc \in {"dedup", "insert"}
  BY ReplacedPlaces DEF IInv, EachInOnePlace
<1>2. f.items \subseteq Carried /\ f.items \subseteq Events
  BY DEF Carried, IInv, TypeOK
<1>3. TypeOK'
  BY <1>1, <1>2 DEF IInv, TypeOK
<1>4. EachInOnePlace'
  <2>1. batch \cap Carried' = {}
    BY <1>1, <1>2 DEF IInv, EachInOnePlace
  <2>2. stored' \cap lost' = {}
    BY <1>2 DEF IInv, EachInOnePlace
  <2>3. (batch \cup Carried') \cap (stored' \cup lost') = {}
    BY <1>1, <1>2 DEF IInv, EachInOnePlace
  <2> QED BY <1>1, <2>1, <2>2, <2>3 DEF EachInOnePlace
<1>5. Placed' \subseteq Placed
  BY <1>1, <1>2 DEF Placed
<1>6. HandIsNew'
  BY <1>5 DEF IInv, HandIsNew
<1> QED BY <1>3, <1>4, <1>6 DEF IInv

LEMMA FlightSteps ==
    ASSUME IInv, NEW f \in flights, Dedup(f) \/ Insert(f) \/ InsertFails(f)
    PROVE  IInv'
<1>1. CASE Dedup(f)
  <2>1. Deduplicated(f.items) \in SUBSET f.items
    BY DEF Deduplicated
  <2>2. failures' \in Nat
    BY <1>1 DEF Dedup, IInv, TypeOK
  <2>3. stored' = stored \cup {} /\ UNCHANGED lost
    BY <1>1 DEF Dedup
  <2>4. {} \in SUBSET f.items /\ Deduplicated(f.items) \cap {} = {}
    OBVIOUS
  <2>5. /\ Replace(f, Deduplicated(f.items), "insert")
        /\ UNCHANGED <<next, hand, main, batch, pending, mu, statsMu, loops, mode>>
    BY <1>1 DEF Dedup
  <2> QED BY ONLY IInv, f \in flights, <2>1, <2>2, <2>3, <2>4, <2>5, FlightKeeps
<1>2. CASE Insert(f)
  <2> DEFINE kind == {m \in f.items : \A n \in f.items : KindOf[m] <= KindOf[n]}
  <2>1. /\ kind \in SUBSET f.items
        /\ f.items \ kind \in SUBSET f.items
        /\ (f.items \ kind) \cap kind = {}
    OBVIOUS
  <2>2. /\ stored' = stored \cup kind /\ UNCHANGED lost
        /\ Replace(f, f.items \ kind, "insert")
        /\ UNCHANGED <<next, hand, main, batch, pending, mu, statsMu, loops, mode>>
        /\ failures' \in Nat
    BY <1>2 DEF Insert, IInv, TypeOK
  <2> HIDE DEF kind
  <2> QED BY ONLY IInv, f \in flights, <2>1, <2>2, FlightKeeps
<1>3. CASE InsertFails(f)
  <2>1. /\ lost' = lost \cup f.items /\ UNCHANGED stored
        /\ Replace(f, {}, "insert")
        /\ UNCHANGED <<next, hand, main, batch, pending, mu, statsMu, loops, mode>>
    BY <1>3 DEF InsertFails
  <2>2. failures' \in Nat
    BY <1>3 DEF InsertFails, Fail, IInv, TypeOK
  <2>3. {} \in SUBSET f.items /\ f.items \in SUBSET f.items /\ {} \cap f.items = {}
    OBVIOUS
  <2> QED BY ONLY IInv, f \in flights, <2>1, <2>2, <2>3, FlightKeeps
<1> QED BY <1>1, <1>2, <1>3

(* The end of the process loses what is not stored.                        *)
LEMMA ExitKeeps == ASSUME IInv, Exit PROVE IInv'
<1>1. /\ lost' = lost \cup batch \cup Carried \cup ({hand} \ (stored \cup {0}))
      /\ batch' = {} /\ flights' = {} /\ hand' = 0 /\ main' = "read"
      /\ UNCHANGED <<next, stored>>
      /\ failures' \in Nat
  BY DEF Exit, Fail, IInv, TypeOK
<1>2. Carried' = {}
  BY <1>1 DEF Carried
<1>3. Placed \subseteq Events /\ hand \in 0..Length /\ next \in 1..(Length + 1)
  BY PlacedAreEvents DEF IInv, TypeOK
<1>4. lost' \subseteq Events
  BY <1>1, <1>3, ConstantsAssumption DEF Placed, Events
<1>5. TypeOK'
  BY <1>1, <1>3, <1>4, ConstantsAssumption DEF Exit, IInv, TypeOK
<1>6. stored' \cap lost' = {}
  BY <1>1 DEF IInv, EachInOnePlace
<1>7. EachInOnePlace'
  BY <1>1, <1>2, <1>6 DEF EachInOnePlace
<1>8. \A m \in Placed' : m < next
  BY <1>1, <1>2 DEF IInv, HandIsNew, Placed
<1>9. HandIsNew'
  BY <1>1, <1>3, <1>8, ConstantsAssumption DEF HandIsNew
<1> QED BY <1>5, <1>7, <1>9 DEF IInv

-----------------------------------------------------------------------------
LEMMA StepIInv == IInv /\ [Next]_vars => IInv'
<1> SUFFICES ASSUME IInv, [Next]_vars PROVE IInv'
  OBVIOUS
<1>1. CASE ReadMessage \/ CountReceived \/ AddReturns \/ CountProcessed
  BY <1>1, MainStill
<1>2. CASE AddToBatch
  BY <1>2, AddKeeps
<1>3. CASE AsyncFlush \/ PeriodicFlush \/ FinalFlush
  BY <1>3, FlushesTake
<1>4. CASE \E f \in flights : Dedup(f) \/ Insert(f) \/ InsertFails(f)
  BY <1>4, FlightSteps
<1>5. CASE \/ LogStats \/ LogStatsReturns \/ Stop \/ (\E l \in Loops : EndLoop(l))
           \/ FinalStats \/ Restart
  BY <1>5, OthersStill
<1>6. CASE Exit
  BY <1>6, ExitKeeps
<1>7. CASE UNCHANGED vars
  BY <1>7 DEF vars, IInv, TypeOK, EachInOnePlace, HandIsNew, Placed, Carried
<1> QED BY <1>1, <1>2, <1>3, <1>4, <1>5, <1>6, <1>7 DEF Next, Main

THEOREM Inductive == Spec => []IInv
  BY InitIInv, StepIInv, PTL DEF Spec

(* Type correctness of the consumer and its flushes.                       *)
THEOREM TypeCorrect == Spec => []TypeOK
  BY Inductive, PTL DEF IInv

(* For every topic, buffer size and number of failures: no event is        *)
(* flushed twice, stored twice, or stored after it was lost                *)
(* (websocket_consumer.go, addToBatch and FlushBatch).                     *)
THEOREM OnePlaceOnly == Spec => []EachInOnePlace
  BY Inductive, PTL DEF IInv

-----------------------------------------------------------------------------
LEMMA CoveredStays ==
    ASSUME NEW m, Covered(m), Placed \subseteq Placed'
    PROVE  Covered(m)'
  BY DEF Covered

(* What a flight drops is covered by what it keeps.                        *)
LEMMA DedupCovers ==
    ASSUME IInv, NEW f \in flights, Dedup(f), NEW m \in Events, Covered(m)
    PROVE  Covered(m)'
<1> DEFINE kept == Deduplicated(f.items)
<1>1. kept \in SUBSET f.items /\ f.items \in SUBSET Events
  BY DEF Deduplicated, IInv, TypeOK
<1>2. Replace(f, kept, "insert") /\ UNCHANGED <<batch, stored, lost>>
  BY DEF Dedup
<1>3. \A k \in f.items : \E n \in kept : KeyOf[n] = KeyOf[k] /\ TimeOf[n] >= TimeOf[k]
  BY <1>1, DeduplicatedKeepsNewest
<1> HIDE DEF kept
<1>4. Carried' = (Carried \ f.items) \cup kept
  BY <1>1, <1>2, ReplacedPlaces DEF IInv, EachInOnePlace
<1>5. Placed \ f.items \subseteq Placed' /\ kept \subseteq Placed'
  BY <1>2, <1>4 DEF Placed
<1>6. PICK n \in Placed : KeyOf[n] = KeyOf[m] /\ TimeOf[n] >= TimeOf[m]
  BY DEF Covered
<1>7. CASE n \notin f.items
  BY <1>5, <1>6, <1>7 DEF Covered
<1>8. CASE n \in f.items
  <2>1. PICK k \in kept : KeyOf[k] = KeyOf[n] /\ TimeOf[k] >= TimeOf[n]
    BY <1>3, <1>8
  <2>2. TimeOf[k] \in Nat /\ TimeOf[n] \in Nat /\ TimeOf[m] \in Nat
    BY <1>1, <1>8, ConstantsAssumption
  <2>3. KeyOf[k] = KeyOf[m] /\ TimeOf[k] >= TimeOf[m]
    BY <1>6, <2>1, <2>2
  <2> QED BY <1>5, <2>1, <2>3 DEF Covered
<1> QED BY <1>7, <1>8

(* The other steps take no event from where it is without placing it anew. *)
LEMMA FlightsStore ==
    ASSUME IInv, NEW f \in flights, Insert(f) \/ InsertFails(f)
    PROVE  Placed \subseteq Placed'
<1>1. CASE Insert(f)
  <2> DEFINE kind == {m \in f.items : \A n \in f.items : KindOf[m] <= KindOf[n]}
  <2>1. /\ Replace(f, f.items \ kind, "insert") /\ f.items \ kind \in SUBSET f.items
        /\ stored' = stored \cup kind /\ UNCHANGED <<batch, lost>>
    BY <1>1 DEF Insert
  <2> HIDE DEF kind
  <2>2. Carried' = (Carried \ f.items) \cup (f.items \ kind)
    BY <2>1, ReplacedPlaces DEF IInv, EachInOnePlace
  <2> QED BY <2>1, <2>2 DEF Placed
<1>2. CASE InsertFails(f)
  <2>1. /\ Replace(f, {}, "insert") /\ {} \in SUBSET f.items
        /\ lost' = lost \cup f.items /\ UNCHANGED <<batch, stored>>
    BY <1>2 DEF InsertFails
  <2>2. Carried' = (Carried \ f.items) \cup {}
    BY <2>1, ReplacedPlaces DEF IInv, EachInOnePlace
  <2> QED BY <2>1, <2>2 DEF Placed
<1> QED BY <1>1, <1>2

LEMMA StepCovers ==
    ASSUME IInv, AllCovered, [Next]_vars
    PROVE  AllCovered'
<1> USE DEF AllCovered
<1>1. CASE ReadMessage
  <2>1. /\ next' = next + 1 /\ hand' = next /\ main = "read" /\ main' = "received"
        /\ next \in Nat /\ UNCHANGED <<batch, flights, stored, lost>>
    BY <1>1, ConstantsAssumption DEF ReadMessage, IInv, TypeOK
  <2>2. \A m : Covered(m) => Covered(m)'
    BY <2>1, SamePlaces, CoveredStays
  <2>3. \A m \in 1..(next' - 1) : m \in 1..(next - 1) \/ m = next
    BY <2>1
  <2>4. \A m \in 1..(next - 1) : Covered(m)
    BY <2>1
  <2> QED BY <2>1, <2>2, <2>3, <2>4
<1>2. CASE CountReceived \/ AddReturns \/ CountProcessed
  <2>1. /\ UNCHANGED <<next, batch, flights, stored, lost>>
        /\ main \in {"received", "add"} => hand' = hand /\ main' = "add"
    BY <1>2 DEF CountReceived, AddReturns, CountProcessed
  <2>2. \A m : Covered(m) => Covered(m)'
    BY <2>1, SamePlaces, CoveredStays
  <2> QED BY <2>1, <2>2
<1>3. CASE AddToBatch
  <2>1. /\ batch' = batch \cup {hand} /\ hand \in Events
        /\ UNCHANGED <<next, hand, flights, stored, lost>>
    BY <1>3 DEF AddToBatch, IInv, HandIsNew
  <2>2. Placed \subseteq Placed' /\ hand \in Placed'
    BY <2>1 DEF Placed, Carried
  <2>3. Covered(hand)'
    <3>1. TimeOf[hand] >= TimeOf[hand]
      BY <2>1, ConstantsAssumption
    <3> QED BY <2>1, <2>2, <3>1 DEF Covered
  <2>4. \A m : Covered(m) => Covered(m)'
    BY <2>2, CoveredStays
  <2> QED BY <2>1, <2>3, <2>4
<1>4. CASE AsyncFlush \/ PeriodicFlush \/ FinalFlush
  <2>1. /\ \E owner \in {"async", "flush", "main"} : TakeBatch(owner)
        /\ UNCHANGED <<next, hand, stored, lost>>
        /\ main' = main \/ main = "read"
    BY <1>4 DEF AsyncFlush, PeriodicFlush, FinalFlush
  <2>2. Placed' = Placed
    BY <2>1, TakenPlaces DEF IInv
  <2>3. \A m : Covered(m) => Covered(m)'
    BY <2>2, CoveredStays
  <2> QED BY <2>1, <2>3
<1>5. CASE \E f \in flights : Dedup(f) \/ Insert(f) \/ InsertFails(f)
  <2>1. UNCHANGED <<next, hand, main>>
    BY <1>5 DEF Dedup, Insert, InsertFails
  <2>2. \A m \in Events : Covered(m) => Covered(m)'
    BY <1>5, DedupCovers, FlightsStore, CoveredStays
  <2>3. 1..(next - 1) \subseteq Events
    BY ConstantsAssumption DEF IInv, TypeOK, Events
  <2> QED BY <2>1, <2>2, <2>3
<1>6. CASE \/ LogStats \/ LogStatsReturns \/ Stop \/ (\E l \in Loops : EndLoop(l))
           \/ FinalStats \/ Restart
  <2>1. /\ UNCHANGED <<next, hand, batch, flights, stored, lost>>
        /\ main' = main \/ main \in {"flushed", "stats"}
    BY <1>6 DEF LogStats, LogStatsReturns, Stop, EndLoop, FinalStats, Restart
  <2>2. \A m : Covered(m) => Covered(m)'
    BY <2>1, SamePlaces, CoveredStays
  <2> QED BY <2>1, <2>2
<1>7. CASE Exit
  <2>1. /\ lost' = lost \cup batch \cup Carried \cup ({hand} \ (stored \cup {0}))
        /\ UNCHANGED <<next, stored>>
    BY <1>7 DEF Exit
  <2>2. Placed \subseteq Placed'
    BY <2>1 DEF Placed
  <2>3. \A m : Covered(m) => Covered(m)'
    BY <2>2, CoveredStays
  <2>4. \A m : (m = hand /\ main \in {"received", "add"}) => Covered(m)'
    <3> SUFFICES ASSUME NEW m, m = hand, main \in {"received", "add"} PROVE Covered(m)'
      OBVIOUS
    <3>1. m \in Events \ Placed
      BY DEF IInv, HandIsNew
    <3>2. TimeOf[m] >= TimeOf[m] /\ m # 0
      BY <3>1, ConstantsAssumption DEF Events
    <3>3. m \in Placed'
      BY <2>1, <3>1, <3>2 DEF Placed
    <3> QED BY <3>2, <3>3 DEF Covered
  <2> QED BY <2>1, <2>3, <2>4
<1>8. CASE UNCHANGED vars
  BY <1>8 DEF vars, Covered, Placed, Carried
<1> QED BY <1>1, <1>2, <1>3, <1>4, <1>5, <1>6, <1>7, <1>8 DEF Next, Main

(* For every topic and every overlap of flushes: of each key that was read *)
(* the newest event is still in hand, buffered, carried by a flush,        *)
(* stored, or lost by a failure; deduplication never drops it              *)
(* (websocket_consumer.go, deduplicateBatch).                              *)
THEOREM NewestKept == Spec => []NewestSurvives
<1>1. Init => AllCovered
  BY DEF Init, AllCovered
<1>2. IInv /\ AllCovered => NewestSurvives
  BY DEF AllCovered, NewestSurvives, Covered, Placed
<1>3. IInv /\ AllCovered /\ [Next]_vars => AllCovered'
  BY StepCovers
<1> QED BY InitIInv, StepIInv, <1>1, <1>2, <1>3, PTL DEF Spec
=============================================================================
