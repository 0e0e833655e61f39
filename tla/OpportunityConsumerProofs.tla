---------------------- MODULE OpportunityConsumerProofs ----------------------
(***************************************************************************)
(* Safety of OpportunityConsumer for every set of strategies, every size   *)
(* of the semaphore and every number of messages and processes, and the    *)
(* safety part of its refinement of EventConsumer.                         *)
(***************************************************************************)
EXTENDS OpportunityConsumer, FiniteSetTheorems, TLAPS

(* Workflows and acts belong to messages that have been read, and a        *)
(* message is handled only after it was read.                              *)
PastOnly ==
    /\ main \in Handling => offset \in Messages
    /\ \A w \in wf : w.msg <= offset
    /\ \A m \in Messages, s \in Strategies : <<m, s>> \in acted => m <= offset

(* A queued workflow has not begun, and for a strategy the loop has not    *)
(* come to there is none.                                                  *)
NotYet ==
    /\ \A w \in wf : w.st = "queued" => <<w.msg, w.strat>> \notin acted
    /\ main = "start" =>
           \A s \in todo : /\ <<offset, s>> \notin acted
                           /\ \A w \in wf : w.msg = offset => w.strat # s

IInv ==
    /\ TypeOK
    /\ IsFiniteSet(wf)
    /\ OverlapNeedsTimeout
    /\ PastOnly
    /\ NotYet

-----------------------------------------------------------------------------
(* The count of running workflows.                                         *)

LEMMA RunningFinite == ASSUME IsFiniteSet(wf), NEW m \in Messages
                       PROVE  IsFiniteSet(Running(m))
BY FS_Subset DEF Running, Of

(* Workflows that leave, or wait, take no slot.                            *)
LEMMA NoMoreRunning ==
    ASSUME TypeOK, IsFiniteSet(wf),
           \A w \in wf' : w \in wf \/ w.st = "queued"
    PROVE  \A m \in Messages : Cardinality(Running(m)') <= MaxConcurrency
<1> SUFFICES ASSUME NEW m \in Messages
             PROVE  Cardinality(Running(m)') <= MaxConcurrency
  OBVIOUS
<1>1. Running(m)' \subseteq Running(m)
  BY DEF Running, Of
<1>2. IsFiniteSet(Running(m))
  BY RunningFinite
<1>3. IsFiniteSet(Running(m)') /\ Cardinality(Running(m)') <= Cardinality(Running(m))
  BY <1>1, <1>2, FS_Subset
<1>4. Cardinality(Running(m)) \in Nat /\ Cardinality(Running(m)') \in Nat
  BY <1>2, <1>3, FS_CardinalityType
<1> QED
  BY <1>3, <1>4, OpportunityAssumption DEF TypeOK

LEMMA OneMore ==
    ASSUME NEW S, IsFiniteSet(S), NEW x
    PROVE  /\ IsFiniteSet(S \cup {x})
           /\ Cardinality(S \cup {x}) \in Nat
           /\ Cardinality(S \cup {x}) <= Cardinality(S) + 1
<1>1. Cardinality(S) \in Nat
  BY FS_CardinalityType
<1>2. IsFiniteSet(S \cup {x}) /\ (Cardinality(S \cup {x}) = Cardinality(S) \/ Cardinality(S \cup {x}) = Cardinality(S) + 1)
  BY FS_AddElement
<1> QED BY <1>1, <1>2

LEMMA AcquireTakesSlot ==
    ASSUME TypeOK, IsFiniteSet(wf), NEW w \in Workflow, Acquire(w)
    PROVE  /\ IsFiniteSet(wf')
           /\ \A m \in Messages : Cardinality(Running(m)') <= MaxConcurrency
<1> DEFINE r == [w EXCEPT !.st = "running"]
<1>1. wf' = (wf \ {w}) \cup {r} /\ w \in wf /\ w.st = "queued" /\ r.st = "running" /\ r.msg = w.msg
  BY DEF Acquire, Workflow
<1>2. IsFiniteSet(wf \ {w})
  BY FS_RemoveElement
<1>3. IsFiniteSet(wf')
  BY <1>1, <1>2, FS_AddElement
<1>4. ASSUME NEW m \in Messages PROVE Cardinality(Running(m)') <= MaxConcurrency
  <2>1. IsFiniteSet(Running(m)) /\ Cardinality(Running(m)) \in Nat
    BY RunningFinite, FS_CardinalityType
  <2>2. CASE m # w.msg
    <3>1. Running(m)' \subseteq Running(m)
      BY <1>1, <2>2 DEF Running, Of
    <3>2. Cardinality(Running(m)') \in Nat /\ Cardinality(Running(m)') <= Cardinality(Running(m))
      BY <2>1, <3>1, FS_Subset, FS_CardinalityType
    <3> QED BY <2>1, <3>2, OpportunityAssumption DEF TypeOK
  <2>3. CASE m = w.msg
    <3>1. Cardinality(Running(m)) < MaxConcurrency
      BY <2>3 DEF Acquire, FreeSlot
    <3>2. Running(m)' \subseteq Running(m) \cup {r}
      BY <1>1 DEF Running, Of
    <3>3. /\ IsFiniteSet(Running(m) \cup {r})
          /\ Cardinality(Running(m) \cup {r}) <= Cardinality(Running(m)) + 1
          /\ Cardinality(Running(m) \cup {r}) \in Nat
      BY <2>1, OneMore
    <3>4. Cardinality(Running(m)') \in Nat /\ Cardinality(Running(m)') <= Cardinality(Running(m) \cup {r})
      BY <3>2, <3>3, FS_Subset, FS_CardinalityType
    <3> QED BY <2>1, <3>1, <3>3, <3>4, OpportunityAssumption
  <2> QED BY <2>2, <2>3
<1> QED BY <1>3, <1>4

-----------------------------------------------------------------------------
LEMMA InitInv == Init => IInv
<1> SUFFICES ASSUME Init PROVE IInv
  OBVIOUS
<1>1. IsFiniteSet({}) /\ Cardinality({}) = 0
  BY FS_EmptySet
<1>2. \A m \in Messages : Running(m) = {}
  BY DEF Init, Running, Of
<1>3. \A m \in Messages : Cardinality(Running(m)) <= MaxConcurrency
  <2> SUFFICES ASSUME NEW m \in Messages PROVE Cardinality(Running(m)) <= MaxConcurrency
    OBVIOUS
  <2>1. Cardinality(Running(m)) = 0
    BY <1>1, <1>2
  <2> QED BY <2>1, OpportunityAssumption
<1>4. TypeOK
  <2>1. 0 \in 0 .. Topic /\ MaxProcesses \in 0 .. MaxProcesses
    BY OpportunityAssumption
  <2>2. offset \in 0 .. Topic /\ processes \in 0 .. MaxProcesses
    BY <2>1 DEF Init
  <2>3. main \in {"read", "down"} \cup Handling /\ cancelled \in BOOLEAN
    BY DEF Init
  <2>4. /\ todo \subseteq Strategies /\ ended \subseteq Messages /\ wf \subseteq Workflow
        /\ forced \subseteq Messages /\ acted \subseteq Messages \X Strategies
    BY DEF Init
  <2> QED BY <1>3, <2>2, <2>3, <2>4 DEF TypeOK
<1> QED
  BY <1>1, <1>4 DEF Init, IInv, OverlapNeedsTimeout, PastOnly, NotYet, Handling

(* The loop reads: whoever is there belongs to an earlier message.         *)
LEMMA ReadSteps ==
    ASSUME IInv, Read \/ ReadFails \/ StopReading
    PROVE  IInv'
<1> USE DEF IInv, Read, ReadFails, StopReading
<1>1. \A m \in Messages : Cardinality(Running(m)') <= MaxConcurrency
  BY NoMoreRunning
<1>2. TypeOK'
  BY <1>1, OpportunityAssumption DEF TypeOK, Handling
<1>3. OverlapNeedsTimeout'
  BY DEF TypeOK, OverlapNeedsTimeout, Handling
<1>4. offset' \in Nat /\ offset \in Nat /\ offset <= offset'
  BY OpportunityAssumption DEF TypeOK
<1>5. \A m \in Messages : m <= offset => m <= offset'
  BY <1>4 DEF Messages
<1>6. PastOnly'
  <2>1. (main \in Handling)' => offset' \in Messages
    BY OpportunityAssumption DEF TypeOK, Handling, Messages
  <2>2. \A w \in wf : w.msg \in Messages
    BY DEF TypeOK, Workflow
  <2> QED BY <1>5, <2>1, <2>2 DEF PastOnly
<1>7. NotYet'
  <2>1. CASE Read
    <3>1. offset' = offset + 1 /\ offset' \in Messages
      BY <2>1, OpportunityAssumption DEF TypeOK, Messages
    <3>2. \A s \in Strategies : <<offset', s>> \notin acted
      BY <3>1, <1>4 DEF PastOnly
    <3>3. \A w \in wf : w.msg # offset'
      BY <3>1, <1>4 DEF PastOnly
    <3> QED BY <2>1, <3>2, <3>3 DEF NotYet, TypeOK
  <2>2. CASE ReadFails \/ StopReading
    BY <2>2 DEF NotYet
  <2> QED BY <2>1, <2>2
<1> QED BY <1>2, <1>3, <1>6, <1>7

LEMMA StartStep ==
    ASSUME IInv, NEW s \in Strategies, StartWorkflow(s)
    PROVE  IInv'
<1> DEFINE n == [msg |-> offset, strat |-> s, st |-> "queued"]
<1> USE DEF IInv, StartWorkflow
<1>1. offset \in Messages /\ n \in Workflow /\ n.msg = offset /\ n.strat = s /\ n.st = "queued"
  BY DEF PastOnly, Handling, Workflow
<1>2. wf' = wf \/ wf' = wf \cup {n}
  OBVIOUS
<1>3. IsFiniteSet(wf')
  BY <1>2, FS_AddElement
<1>4. \A m \in Messages : Cardinality(Running(m)') <= MaxConcurrency
  BY <1>1, <1>2, NoMoreRunning
<1> HIDE DEF n
<1>5. TypeOK'
  BY <1>1, <1>2, <1>4 DEF TypeOK
<1>6. OverlapNeedsTimeout'
  BY <1>1, <1>2 DEF OverlapNeedsTimeout, Handling
<1>7. PastOnly'
  BY <1>1, <1>2 DEF PastOnly, Messages
<1>8. NotYet'
  BY <1>1, <1>2 DEF NotYet
<1> QED BY <1>3, <1>5, <1>6, <1>7, <1>8

(* The steps that add no workflow and start none: the rest of the loop,    *)
(* those who leave, contexts, the end and the start of a process.          *)
LEMMA Leaving ==
    ASSUME IInv, wf' \subseteq wf, UNCHANGED <<offset, acted>>,
           todo' \subseteq todo, cancelled' \in BOOLEAN, processes' \in 0 .. MaxProcesses,
           main' \in {"read", "down"} \cup Handling,
           ended' \subseteq Messages, forced' \subseteq Messages, forced \subseteq forced',
           main' \in Handling => main \in Handling,
           main' = "start" => main = "start",
           (main \in Handling /\ main' \notin Handling) =>
               \A w \in wf' : w.msg = offset => offset \in forced'
    PROVE  IInv'
<1> USE DEF IInv
<1>1. IsFiniteSet(wf')
  BY FS_Subset
<1>2. \A m \in Messages : Cardinality(Running(m)') <= MaxConcurrency
  BY NoMoreRunning
<1>3. TypeOK'
  BY <1>2 DEF TypeOK
<1>4. OverlapNeedsTimeout'
  BY DEF OverlapNeedsTimeout
<1>5. PastOnly' /\ NotYet'
  BY DEF PastOnly, NotYet
<1> QED BY <1>1, <1>3, <1>4, <1>5

LEMMA LoopSteps ==
    ASSUME IInv, AllStarted \/ AllReturned \/ WaitTimesOut \/ GiveUp \/ ContextTimesOut
    PROVE  IInv'
<1>1. main \in Handling /\ offset \in Messages
  BY DEF IInv, PastOnly, AllStarted, AllReturned, WaitTimesOut, GiveUp, ContextTimesOut, Handling
<1>2. UNCHANGED <<offset, wf, acted, todo, cancelled, processes>>
  BY DEF AllStarted, AllReturned, WaitTimesOut, GiveUp, ContextTimesOut, Return
<1>3. /\ main' \in {"read", "down"} \cup Handling
      /\ ended' \subseteq Messages
      /\ forced' \subseteq Messages /\ forced \subseteq forced'
      /\ main' = "start" => main = "start"
  BY <1>1 DEF IInv, TypeOK, AllStarted, AllReturned, WaitTimesOut, GiveUp, ContextTimesOut, Return,
              Handling
<1>4. main' \notin Handling => \A w \in wf : w.msg = offset => offset \in forced'
  BY <1>1 DEF AllStarted, AllReturned, WaitTimesOut, GiveUp, ContextTimesOut, Return, Handling, Of
<1> QED
  BY <1>1, <1>2, <1>3, <1>4, Leaving DEF IInv, TypeOK

LEMMA AcquireStep ==
    ASSUME IInv, NEW w \in Workflow, Acquire(w)
    PROVE  IInv'
<1> DEFINE r == [w EXCEPT !.st = "running"]
<1> USE DEF IInv
<1>1. /\ w \in wf /\ w.st = "queued"
      /\ wf' = (wf \ {w}) \cup {r}
      /\ acted' = acted \cup {<<w.msg, w.strat>>}
      /\ UNCHANGED <<offset, main, todo, cancelled, ended, forced, processes>>
  BY DEF Acquire
<1>2. r \in Workflow /\ r.msg = w.msg /\ r.strat = w.strat /\ r.st = "running"
  BY DEF Workflow
<1>3. w.msg \in Messages /\ w.strat \in Strategies
  BY DEF Workflow
<1> HIDE DEF r
<1>4. TypeOK'
  BY <1>1, <1>2, <1>3, AcquireTakesSlot DEF TypeOK
<1>5. OverlapNeedsTimeout'
  BY <1>1, <1>2 DEF OverlapNeedsTimeout
<1>6. PastOnly'
  BY <1>1, <1>2, <1>3 DEF PastOnly
<1>7. NotYet'
  <2>1. ASSUME NEW v \in wf', v.st = "queued" PROVE <<v.msg, v.strat>> \notin acted'
    <3>1. v \in wf /\ v # w /\ v \in Workflow
      BY <1>1, <1>2, <2>1 DEF TypeOK
    <3>2. <<v.msg, v.strat>> # <<w.msg, w.strat>>
      BY <1>1, <2>1, <3>1 DEF Workflow
    <3> QED BY <1>1, <2>1, <3>1, <3>2 DEF NotYet
  <2>2. ASSUME main' = "start", NEW s \in todo'
        PROVE  <<offset', s>> \notin acted' /\ \A v \in wf' : v.msg = offset' => v.strat # s
    BY <1>1, <1>2, <2>2 DEF NotYet
  <2> QED BY <2>1, <2>2 DEF NotYet
<1> QED BY <1>4, <1>5, <1>6, <1>7, AcquireTakesSlot

LEMMA OtherSteps ==
    ASSUME IInv,
           \/ \E w \in Workflow : LeaveQueue(w) \/ WorkflowEnds(w)
           \/ Cancel \/ Exit \/ Restart
    PROVE  IInv'
<1>1. ASSUME NEW w \in Workflow, LeaveQueue(w) \/ WorkflowEnds(w) PROVE IInv'
  BY <1>1, Leaving DEF IInv, TypeOK, LeaveQueue, WorkflowEnds
<1>2. CASE Cancel
  BY <1>2, Leaving DEF IInv, TypeOK, Cancel
<1>3. CASE Exit
  BY <1>3, Leaving DEF IInv, TypeOK, Exit, Handling
<1>4. CASE Restart
  <2>1. processes' \in 0 .. MaxProcesses
    BY <1>4, OpportunityAssumption DEF IInv, TypeOK, Restart
  <2> QED BY <1>4, <2>1, Leaving DEF IInv, TypeOK, Restart, Handling
<1> QED BY <1>1, <1>2, <1>3, <1>4

LEMMA NextInv == IInv /\ [Next]_vars => IInv'
<1> SUFFICES ASSUME IInv, [Next]_vars PROVE IInv'
  OBVIOUS
<1>1. CASE UNCHANGED vars
  BY <1>1, Leaving DEF vars, IInv, TypeOK
<1>2. CASE Next
  BY <1>2, ReadSteps, StartStep, LoopSteps, AcquireStep, OtherSteps DEF Next, LoopStep, WorkflowStep
<1> QED BY <1>1, <1>2

LEMMA InvHolds == Spec => []IInv
<1> QED BY InitInv, NextInv, PTL DEF Spec

-----------------------------------------------------------------------------
(* Types, and no message has more workflows running than there are slots.  *)
THEOREM TypeCorrect == Spec => []TypeOK
<1>1. IInv => TypeOK
  BY DEF IInv
<1> QED BY <1>1, InvHolds, PTL

(* Workflows of two messages overlap only after the wait for the earlier   *)
(* ones was given up.                                                      *)
THEOREM NoSilentOverlap == Spec => []OverlapNeedsTimeout
<1>1. IInv => OverlapNeedsTimeout
  BY DEF IInv
<1> QED BY <1>1, InvHolds, PTL

(* No opportunity is acted upon twice for a strategy.                      *)
THEOREM ActedOnce == Spec => ActsOnce
<1>1. ASSUME IInv, [Next]_vars
      PROVE  [\A w \in wf' \ wf : w.st = "running" => <<w.msg, w.strat>> \notin acted]_vars
  <2> SUFFICES ASSUME Next, NEW x \in wf' \ wf, x.st = "running"
               PROVE  <<x.msg, x.strat>> \notin acted
    BY <1>1
  <2>1. ASSUME NEW w \in Workflow, Acquire(w) PROVE <<x.msg, x.strat>> \notin acted
    <3>1. x = [w EXCEPT !.st = "running"] /\ w \in wf /\ w.st = "queued"
      BY <2>1 DEF Acquire
    <3>2. x.msg = w.msg /\ x.strat = w.strat
      BY <3>1 DEF Workflow
    <3> QED BY <1>1, <3>1, <3>2 DEF IInv, NotYet
  <2>2. ASSUME NEW s \in Strategies, StartWorkflow(s) PROVE FALSE
    BY <2>2 DEF StartWorkflow
  <2>3. ASSUME wf' \subseteq wf PROVE FALSE
    BY <2>3
  <2> QED
    BY <2>1, <2>2, <2>3
       DEF Next, LoopStep, WorkflowStep, Read, ReadFails, StopReading, AllStarted, AllReturned,
           WaitTimesOut, GiveUp, LeaveQueue, WorkflowEnds, ContextTimesOut, Cancel, Exit, Restart
<1> QED BY <1>1, InvHolds, PTL DEF Spec, ActsOnce

(* The safety part of the refinement: every step of the consumer is a step *)
(* of EventConsumer or leaves its variables alone.                         *)
THEOREM RefinesConsumer == Spec => Consumer!Init /\ [][Consumer!Next]_Consumer!consumerVars
<1>1. Init => Consumer!Init
  BY DEF Init, Consumer!Init
<1>2. ASSUME IInv, [Next]_vars PROVE [Consumer!Next]_Consumer!consumerVars
  <2> USE DEF Consumer!consumerVars, Handling
  <2>1. CASE UNCHANGED vars
    BY <2>1 DEF vars
  <2>2. CASE Read
    BY <2>2 DEF Read, Consumer!Next, Consumer!Read
  <2>3. CASE ReadFails
    BY <2>3 DEF ReadFails, Consumer!Next, Consumer!Skip
  <2>4. CASE StopReading
    BY <2>4 DEF StopReading, Consumer!Next, Consumer!Stop
  <2>5. CASE AllReturned \/ GiveUp
    BY <2>5 DEF AllReturned, GiveUp, Return, Consumer!Next, Consumer!Handled
  <2>6. CASE Cancel
    BY <2>6 DEF Cancel, Consumer!Next, Consumer!Cancel
  <2>7. CASE Exit
    BY <2>7 DEF Exit, Consumer!Next, Consumer!Exit
  <2>8. CASE Restart
    BY <2>8 DEF Restart, Consumer!Next, Consumer!Restart
  <2>9. CASE \/ \E s \in Strategies : StartWorkflow(s)
             \/ AllStarted \/ WaitTimesOut \/ ContextTimesOut
             \/ \E w \in Workflow : WorkflowStep(w)
    <3>1. UNCHANGED <<offset, cancelled>>
      BY <2>9 DEF StartWorkflow, AllStarted, WaitTimesOut, ContextTimesOut, WorkflowStep, Acquire,
                  LeaveQueue, WorkflowEnds
    <3>2. main' = main \/ (main \in Handling /\ main' \in Handling)
      BY <2>9 DEF StartWorkflow, AllStarted, WaitTimesOut, ContextTimesOut, WorkflowStep, Acquire,
                  LeaveQueue, WorkflowEnds
    <3> QED BY <3>1, <3>2
  <2> QED
    BY <1>2, <2>1, <2>2, <2>3, <2>4, <2>5, <2>6, <2>7, <2>8, <2>9 DEF Next, LoopStep
<1> QED BY <1>1, <1>2, InvHolds, PTL DEF Spec

=============================================================================
