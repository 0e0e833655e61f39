---------------------------- MODULE ProcessProofs ----------------------------
(***************************************************************************)
(* Safety of the process being taken down (Shutdown), for every set of     *)
(* workers, consumers and requests, whichever of them hang; and of the     *)
(* streams it holds to the exchange (MarketDataStream), for every number   *)
(* of kinds of streams, every limit of its two reconnect managers and      *)
(* every number of failures.                                               *)
(***************************************************************************)
EXTENDS Shutdown, MarketDataStream, TLAPS

-----------------------------------------------------------------------------
(* The process.                                                            *)

(* The shutdown is past the wait for the consumers, past the one for the   *)
(* workers, past the one for the requests.                                 *)
PastWait == main \in {"producer", "databases", "leaving", "exited"}
PastWorkers == main \in {"managers", "readers", "wait"} \/ PastWait
PastDrain == main = "workers" \/ PastWorkers

(* Every wait either saw its goroutines gone or gave up on them, nobody    *)
(* comes back, and nothing is closed before the last of the waits.         *)
RequestsAwaited ==
    /\ main = "drain" \/ PastDrain => http = "closed"
    /\ PastDrain => requests = {} \/ "http" \in gaveUp

WorkersAwaited == PastWorkers => "workers" \in gaveUp \/ \A w \in Workers : worker[w] = "gone"

ConsumersAwaited == PastWait => "consumers" \in gaveUp \/ \A c \in Consumers : consumer[c] = "gone"

ProcessInv ==
    /\ ProcessTypeOK
    /\ RequestsAwaited
    /\ WorkersAwaited
    /\ ConsumersAwaited
    /\ closed # {} => PastWait

-----------------------------------------------------------------------------
LEMMA ProcessInitInv == ProcessInit => ProcessInv
BY DEF ProcessInit, ProcessInv, ProcessTypeOK, Places, RequestsAwaited, WorkersAwaited,
       ConsumersAwaited,
       PastWait, PastWorkers, PastDrain

(* A step that leaves the main goroutine, the listener, the readers and    *)
(* what is closed alone keeps what the waits have established as long as   *)
(* it brings nobody back.                                                  *)
LEMMA Beside ==
    ASSUME ProcessInv, ProcessTypeOK', UNCHANGED mainVars,
           http' = http \/ (http = "serving" /\ http' = "failed"),
           requests' \subseteq requests \/ http = "serving",
           \A w \in Workers : worker[w] = "gone" => worker'[w] = "gone",
           \A c \in Consumers : consumer[c] = "gone" => consumer'[c] = "gone"
    PROVE  ProcessInv'
<1>1. RequestsAwaited'
  BY DEF ProcessInv, RequestsAwaited, mainVars, PastDrain, PastWorkers, PastWait
<1>2. WorkersAwaited'
  BY DEF ProcessInv, WorkersAwaited, mainVars, PastWorkers, PastWait
<1>3. ConsumersAwaited'
  BY DEF ProcessInv, ConsumersAwaited, mainVars, PastWait
<1> QED
  BY <1>1, <1>2, <1>3 DEF ProcessInv, mainVars, PastWait

(* The requests and the listener.                                          *)
LEMMA RequestSteps ==
    ASSUME ProcessInv, (\E q \in Requests : Accept(q) \/ RequestEnds(q)) \/ HttpFails
    PROVE  ProcessInv'
<1> USE DEF ProcessInv, ProcessTypeOK, mainVars, Up
<1>1. ASSUME NEW q \in Requests, Accept(q) PROVE ProcessInv'
  <2>1. ProcessTypeOK'
    BY <1>1 DEF Accept
  <2> QED BY <1>1, <2>1, Beside DEF Accept
<1>2. ASSUME NEW q \in Requests, RequestEnds(q) PROVE ProcessInv'
  <2>1. ProcessTypeOK'
    BY <1>2 DEF RequestEnds
  <2> QED BY <1>2, <2>1, Beside DEF RequestEnds
<1>3. ASSUME HttpFails PROVE ProcessInv'
  <2>1. ProcessTypeOK'
    BY <1>3 DEF HttpFails
  <2> QED BY <1>3, <2>1, Beside DEF HttpFails
<1> QED BY <1>1, <1>2, <1>3

LEMMA WorkerSteps ==
    ASSUME ProcessInv, NEW w \in Workers, Tick(w) \/ RunEnds(w) \/ WorkerLeaves(w)
    PROVE  ProcessInv'
<1> USE DEF Tick, RunEnds, WorkerLeaves
<1>1. ProcessTypeOK'
  BY DEF ProcessInv, ProcessTypeOK, mainVars, Up
<1>2. \A v \in Workers : worker[v] = "gone" => worker'[v] = "gone"
  BY DEF ProcessInv, ProcessTypeOK
<1> QED BY <1>1, <1>2, Beside

LEMMA ConsumerSteps ==
    ASSUME ProcessInv, NEW c \in Consumers,
           Read(c) \/ Handled(c) \/ ReadStops(c) \/ ConsumerLeaves(c)
    PROVE  ProcessInv'
<1> USE DEF Read, Handled, ReadStops, ConsumerLeaves
<1>1. ProcessTypeOK'
  BY DEF ProcessInv, ProcessTypeOK, mainVars, Up
<1>2. \A d \in Consumers : consumer[d] = "gone" => consumer'[d] = "gone"
  BY DEF ProcessInv, ProcessTypeOK
<1>3. CASE ConsumerLeaves(c)
  <2>1. RequestsAwaited' /\ WorkersAwaited'
    BY <1>3 DEF ProcessInv, RequestsAwaited, WorkersAwaited, PastDrain, PastWorkers, PastWait
  <2>2. ConsumersAwaited'
    BY <1>2, <1>3 DEF ProcessInv, ConsumersAwaited, PastWait
  <2> QED BY <1>1, <1>3, <2>1, <2>2 DEF ProcessInv, PastWait
<1>4. CASE ~ConsumerLeaves(c)
  <2>1. UNCHANGED <<mainVars, http, requests, worker>>
    BY <1>4
  <2> QED BY <1>1, <1>2, <2>1, Beside
<1> QED BY <1>3, <1>4

-----------------------------------------------------------------------------
(* The main goroutine: one step at a time.                                 *)
LEMMA MainSteps ==
    ASSUME ProcessInv, Signal \/ MainStep
    PROVE  ProcessInv'
<1> USE DEF ProcessInv, ProcessTypeOK, Places, Up, RequestsAwaited, WorkersAwaited,
            ConsumersAwaited,
            PastDrain, PastWorkers, PastWait, Goto
<1>1. CASE Signal        BY <1>1 DEF Signal
<1>2. CASE StopStreams   BY <1>2 DEF StopStreams
<1>3. CASE StopHttp      BY <1>3 DEF StopHttp
<1>4. CASE RequestsDrained   BY <1>4 DEF RequestsDrained
<1>5. CASE DrainTimesOut     BY <1>5 DEF DrainTimesOut
<1>6. CASE WorkersGone       BY <1>6 DEF WorkersGone
<1>7. CASE SchedulerTimesOut BY <1>7 DEF SchedulerTimesOut
<1>8. CASE StopManagers      BY <1>8 DEF StopManagers
<1>9. CASE CloseReaders      BY <1>9 DEF CloseReaders
<1>10. CASE ConsumersGone    BY <1>10 DEF ConsumersGone
<1>11. CASE WaitTimesOut     BY <1>11 DEF WaitTimesOut
<1>12. CASE CloseProducer    BY <1>12 DEF CloseProducer
<1>13. CASE CloseDatabases   BY <1>13 DEF CloseDatabases
<1>14. CASE Exit             BY <1>14 DEF Exit
<1> QED
  BY <1>1, <1>2, <1>3, <1>4, <1>5, <1>6, <1>7, <1>8, <1>9, <1>10, <1>11, <1>12, <1>13, <1>14
     DEF MainStep

LEMMA ProcessNextInv == ProcessInv /\ [ProcessNext]_processVars => ProcessInv'
<1> SUFFICES ASSUME ProcessInv, [ProcessNext]_processVars PROVE ProcessInv'
  OBVIOUS
<1>1. CASE UNCHANGED processVars
  BY <1>1 DEF processVars, mainVars, ProcessInv, ProcessTypeOK, Up, RequestsAwaited, WorkersAwaited,
              ConsumersAwaited, PastDrain, PastWorkers, PastWait
<1>2. CASE ProcessNext
  BY <1>2, RequestSteps, WorkerSteps, ConsumerSteps, MainSteps DEF ProcessNext
<1> QED BY <1>1, <1>2

LEMMA ProcessInvHolds == ProcessSpec => []ProcessInv
<1> QED BY ProcessInitInv, ProcessNextInv, PTL DEF ProcessSpec

(* Types; and as long as the process runs, a consumer that has left has    *)
(* closed its reader.                                                      *)
THEOREM ProcessTypeCorrect == ProcessSpec => []ProcessTypeOK
<1>1. ProcessInv => ProcessTypeOK
  BY DEF ProcessInv
<1> QED BY <1>1, ProcessInvHolds, PTL

(* Nothing is closed under a request, a worker or a consumer unless the    *)
(* shutdown gave up waiting for its kind.                                  *)
THEOREM ClosedLast == ProcessSpec => []ClosedUnderUseIsGivenUp
<1>1. ProcessInv => ClosedUnderUseIsGivenUp
  BY DEF ProcessInv, ClosedUnderUseIsGivenUp, RequestsAwaited, WorkersAwaited, ConsumersAwaited,
         PastDrain, PastWorkers, PastWait
<1> QED BY <1>1, ProcessInvHolds, PTL

-----------------------------------------------------------------------------
(* The market data streams.                                                *)

(* The streams of the last Connect, as far as it has come.                 *)
Current == held \ orphans

(* The client can still stop every stream that delivers messages; it holds *)
(* one current stream of a kind at most, none that Connect has not come to *)
(* yet, and none at all while it is neither connected nor connecting.      *)
OneEach ==
    /\ open \subseteq held
    /\ \A s, t \in Current : s.kind = t.kind => s = t
    /\ opening # 0 => "connected" \notin flags /\ \A s \in Current : s.kind < opening
    /\ opening = 0 /\ "connected" \notin flags => Current = {}

IInv == TypeOK /\ OneEach

-----------------------------------------------------------------------------
LEMMA InitInv == Init => IInv
BY ConstantsAssumption
   DEF Init, IInv, TypeOK, OneEach, Current, Manager!InitManager, Manager!ManagerTypeOK, Slots

(* Where the reconnect manager's record stays in its bounds.               *)
LEMMA ManagerSteps ==
    ASSUME Manager!ManagerTypeOK,
           Manager!RecordFailure \/ Manager!RecordSuccess \/ Manager!HeartbeatElapses
               \/ Manager!CircuitElapses \/ UNCHANGED managerVars
    PROVE  Manager!ManagerTypeOK'
BY ConstantsAssumption
   DEF Manager!ManagerTypeOK, Manager!RecordFailure, Manager!RecordSuccess,
       Manager!HeartbeatElapses, Manager!CircuitElapses, managerVars

(* Stop leaves nothing open when it finds a connection and changes nothing *)
(* otherwise.                                                              *)
LEMMA Stopped ==
    ASSUME IInv, StopClient
    PROVE  OneEach' /\ flags' \subseteq {"connected", "stopping"}
           /\ open' \subseteq Streams /\ held' \subseteq Streams /\ orphans' \subseteq Streams
           /\ UNCHANGED <<opening, errors, heard>>
<1>1. CASE "connected" \in flags
  BY <1>1 DEF StopClient, IInv, TypeOK, OneEach, Current
<1>2. CASE "connected" \notin flags
  BY <1>2 DEF StopClient, IInv, TypeOK, OneEach, Current, clientVars
<1> QED BY <1>1, <1>2

(* The steps that stop the client.                                         *)
LEMMA StopSteps ==
    ASSUME IInv, StopOld \/ ShutdownClients \/ WatcherStops \/ StopManager
    PROVE  IInv'
<1>1. Manager!ManagerTypeOK'
  BY ManagerSteps DEF StopOld, ShutdownClients, WatcherStops, StopManager, IInv, TypeOK
<1>2. CASE StopClient
  BY <1>1, <1>2, Stopped
     DEF StopOld, ShutdownClients, WatcherStops, StopManager, IInv, TypeOK, managerVars
<1>3. CASE UNCHANGED clientVars
  BY <1>1, <1>3
     DEF StopOld, ShutdownClients, WatcherStops, StopManager, IInv, TypeOK, OneEach, Current,
         clientVars, managerVars
<1> QED
  BY <1>2, <1>3 DEF StopOld, ShutdownClients, WatcherStops, StopManager

-----------------------------------------------------------------------------
(* Connect.                                                                *)

LEMMA BeginStep == ASSUME IInv, BeginConnect PROVE IInv'
<1> USE DEF BeginConnect
<1>1. Manager!ManagerTypeOK'
  BY ManagerSteps DEF IInv, TypeOK
<1> QED
  BY <1>1, ConstantsAssumption DEF IInv, TypeOK, OneEach, Current, managerVars

LEMMA OpenStep == ASSUME IInv, OpenStream PROVE IInv'
<1> USE DEF OpenStream
<1>1. Manager!ManagerTypeOK'
  BY ManagerSteps DEF IInv, TypeOK
<1>2. PICK n \in Slots :
          LET s == [kind |-> opening, slot |-> n]
          IN  s \notin held \cup open /\ open' = open \cup {s} /\ held' = held \cup {s}
  OBVIOUS
<1> DEFINE s == [kind |-> opening, slot |-> n]
<1>3. s \in Streams /\ s.kind = opening
  BY DEF Streams
<1>4. open' = open \cup {s} /\ held' = held \cup {s} /\ UNCHANGED orphans
  BY <1>2
<1> HIDE DEF s
<1>5. TypeOK'
  BY <1>1, <1>3, <1>4, ConstantsAssumption DEF IInv, TypeOK, managerVars
<1>6. Current' \subseteq Current \cup {s}
  BY <1>4 DEF Current
<1>7. opening \in Nat /\ opening # 0 /\ opening' = opening + 1 /\ UNCHANGED flags
  BY ConstantsAssumption
<1>8. \A t \in Current : t.kind < opening /\ t.kind \in Nat
  BY <1>7, ConstantsAssumption DEF IInv, TypeOK, OneEach, Current, Streams
<1>9. OneEach'
  <2>1. \A t, v \in Current' : t.kind = v.kind => t = v
    BY <1>3, <1>6, <1>7, <1>8 DEF IInv, OneEach
  <2>2. \A t \in Current' : t.kind < opening'
    BY <1>3, <1>6, <1>7, <1>8
  <2>3. opening' # 0 /\ "connected" \notin flags'
    BY <1>7 DEF IInv, OneEach
  <2> QED BY <1>4, <2>1, <2>2, <2>3 DEF IInv, OneEach
<1> QED BY <1>5, <1>9 DEF IInv

LEMMA OpenFailsStep == ASSUME IInv, OpenStreamFails PROVE IInv'
<1> USE DEF OpenStreamFails
<1>1. Manager!ManagerTypeOK'
  BY ManagerSteps DEF IInv, TypeOK
<1>2. TypeOK'
  BY <1>1, ConstantsAssumption DEF IInv, TypeOK
<1> QED BY <1>2 DEF IInv, OneEach, Current

LEMMA EndStep == ASSUME IInv, EndConnect PROVE IInv'
<1> USE DEF EndConnect
<1>1. Manager!ManagerTypeOK'
  BY ManagerSteps DEF IInv, TypeOK
<1>2. TypeOK'
  BY <1>1, ConstantsAssumption DEF IInv, TypeOK
<1> QED BY <1>2 DEF IInv, OneEach, Current

-----------------------------------------------------------------------------
(* The steps that open nothing and leave the flags alone.                  *)
LEMMA Others ==
    ASSUME IInv, TypeOK', open' \subseteq open, UNCHANGED <<flags, held, orphans, opening>>
    PROVE  IInv'
BY DEF IInv, OneEach, Current

LEMMA OtherSteps ==
    ASSUME IInv,
           \/ StartClient \/ HealthCheck \/ Backoff \/ EndLoop \/ Cancel
           \/ HeartbeatElapses \/ CircuitElapses \/ ClientHeartbeatElapses
           \/ \E s \in Streams : Message(s) \/ StreamError(s)
    PROVE  IInv'
<1> USE DEF IInv, TypeOK, clientVars
<1>1. CASE StartClient
  <2>1. Manager!ManagerTypeOK'
    BY <1>1, ManagerSteps DEF StartClient
  <2> QED BY <1>1, <2>1, Others DEF StartClient
<1>2. CASE HealthCheck \/ Backoff \/ EndLoop \/ Cancel
  <2>1. Manager!ManagerTypeOK'
    BY <1>2, ManagerSteps DEF HealthCheck, Backoff, EndLoop, Cancel
  <2> QED BY <1>2, <2>1, Others DEF HealthCheck, Backoff, EndLoop, Cancel
<1>3. CASE HeartbeatElapses \/ CircuitElapses
  <2>1. Manager!ManagerTypeOK'
    BY <1>3, ManagerSteps DEF HeartbeatElapses, CircuitElapses
  <2> QED BY <1>3, <2>1, Others DEF HeartbeatElapses, CircuitElapses
<1>4. CASE ClientHeartbeatElapses
  <2>1. Manager!ManagerTypeOK'
    BY <1>4, ManagerSteps DEF ClientHeartbeatElapses
  <2> QED BY <1>4, <2>1, Others DEF ClientHeartbeatElapses, ClientBeat!HeartbeatElapses
<1>5. ASSUME NEW s \in Streams, Message(s) \/ StreamError(s) PROVE IInv'
  <2>1. Manager!ManagerTypeOK'
    BY <1>5, ManagerSteps DEF Message, StreamError
  <2>2. errors' \in 0 .. (ErrorLimit + 1)
    BY <1>5, ConstantsAssumption DEF Message, StreamError, AddError
  <2> QED BY <1>5, <2>1, <2>2, Others DEF Message, StreamError
<1> QED BY <1>1, <1>2, <1>3, <1>4, <1>5

LEMMA NextInv == IInv /\ [Next]_vars => IInv'
<1> SUFFICES ASSUME IInv, [Next]_vars PROVE IInv'
  OBVIOUS
<1>1. CASE UNCHANGED vars
  <2>1. Manager!ManagerTypeOK'
    BY <1>1, ManagerSteps DEF vars, IInv, TypeOK
  <2> QED BY <1>1, <2>1, Others DEF vars, clientVars, IInv, TypeOK
<1>2. CASE Next
  BY <1>2, StopSteps, BeginStep, OpenStep, OpenFailsStep, EndStep, OtherSteps DEF Next, Attempt
<1> QED BY <1>1, <1>2

LEMMA InvHolds == Spec => []IInv
<1> QED BY InitInv, NextInv, PTL DEF Spec

-----------------------------------------------------------------------------
(* Types of the client, the manager and the shutdown.                      *)
THEOREM TypeCorrect == Spec => []TypeOK
<1>1. IInv => TypeOK
  BY DEF IInv
<1> QED BY <1>1, InvHolds, PTL

(* An event is published twice only while streams of a Connect that failed *)
(* half-way are still open.                                                *)
THEOREM DuplicatesExplained == Spec => []DuplicatesNeedFailedConnect
<1>1. IInv => DuplicatesNeedFailedConnect
  BY DEF IInv, OneEach, Current, DuplicatesNeedFailedConnect
<1> QED BY <1>1, InvHolds, PTL

(* The client never loses sight of a stream: whatever delivers messages is *)
(* in its stop channels.                                                   *)
THEOREM OpenIsHeld == Spec => [](open \subseteq held)
<1>1. IInv => open \subseteq held
  BY DEF IInv, OneEach
<1> QED BY <1>1, InvHolds, PTL

=============================================================================
