------------------------ MODULE OpportunityConsumer ------------------------
(***************************************************************************)
(* The consumer of opportunity events                                      *)
(* (internal/consumers/opportunity_consumer.go): for each message it       *)
(* starts a trading workflow for every interested strategy, at most        *)
(* MaxConcurrency of them at a time, and waits for all of them.            *)
(*                                                                         *)
(* A workflow is calls of language models and tools and may ignore its     *)
(* context for as long as it likes: nothing here assumes that one returns. *)
(* The wait therefore gives up after 60 seconds and five more, and the     *)
(* workflow it leaves behind goes on beside those of later messages.       *)
(*                                                                         *)
(* Implements EventConsumer.                                               *)
(***************************************************************************)
EXTENDS Naturals, FiniteSets

CONSTANTS
    Topic,            \* bound: the number of messages in the topic
    Strategies,       \* the strategies GetAllActive may return
    MaxConcurrency,   \* size of the semaphore, one for each message
    MaxProcesses      \* bound: processes in one behaviour

ASSUME OpportunityAssumption ==
    /\ Topic \in Nat
    /\ IsFiniteSet(Strategies)
    /\ MaxConcurrency \in Nat \ {0}
    /\ MaxProcesses \in Nat

VARIABLES
    offset,     \* the last message read, committed with the read
    main,       \* the goroutine of Start
    todo,       \* interested strategies the loop has not come to
    cancelled,  \* the context of the process
    ended,      \* messages whose workflow context is done
    wf,         \* the goroutines started for workflows
    forced,     \* history: messages the wait gave up on
    acted,      \* history: workflows that have begun
    processes   \* processes that may still be started

vars == <<offset, main, todo, cancelled, ended, wf, forced, acted, processes>>

Messages == 1 .. Topic
Handling == {"start", "wait", "force"}

Workflow == [msg : Messages, strat : Strategies, st : {"queued", "running"}]

Of(m) == {w \in wf : w.msg = m}
Running(m) == {w \in Of(m) : w.st = "running"}

(* workflowCtx is a child of the context of the process.                   *)
ContextDone(m) == cancelled \/ m \in ended

Init ==
    /\ offset = 0
    /\ main = "read"
    /\ todo = {}
    /\ cancelled = FALSE
    /\ ended = {}
    /\ wf = {}
    /\ forced = {}
    /\ acted = {}
    /\ processes = MaxProcesses

-----------------------------------------------------------------------------
(* The loop of Start.                                                      *)

(* ReadMessage commits and returns a message; the strategies that are      *)
(* interested, none when the message or the query is bad.                  *)
Read ==
    /\ main = "read"
    /\ offset < Topic
    /\ offset' = offset + 1
    /\ main' = "start"
    /\ todo' \in SUBSET Strategies
    /\ UNCHANGED <<cancelled, ended, wf, forced, acted, processes>>

(* ReadMessage returns an error: its commit failed.                        *)
ReadFails ==
    /\ main = "read"
    /\ offset < Topic
    /\ offset' = offset + 1
    /\ UNCHANGED <<main, todo, cancelled, ended, wf, forced, acted, processes>>

StopReading ==
    /\ main = "read"
    /\ cancelled
    /\ main' = "down"
    /\ UNCHANGED <<offset, todo, cancelled, ended, wf, forced, acted, processes>>

(* One turn of the loop over the strategies.  GetByID fails or the user is *)
(* inactive, or a goroutine is started; once the context is cancelled the  *)
(* rest is skipped or GetByID, which uses it, fails.                       *)
StartWorkflow(s) ==
    /\ main = "start"
    /\ s \in todo
    /\ todo' = todo \ {s}
    /\ \/ UNCHANGED wf
       \/ /\ ~cancelled
          /\ wf' = wf \cup {[msg |-> offset, strat |-> s, st |-> "queued"]}
    /\ UNCHANGED <<offset, main, cancelled, ended, forced, acted, processes>>

AllStarted ==
    /\ main = "start"
    /\ todo = {}
    /\ main' = "wait"
    /\ UNCHANGED <<offset, todo, cancelled, ended, wf, forced, acted, processes>>

(* The return of handleOpportunity: the deferred workflowCancel, and the   *)
(* check of the context in Start.                                          *)
Return ==
    /\ main' = IF cancelled THEN "down" ELSE "read"
    /\ ended' = ended \cup {offset}

(* Faulty variant: the wait counts the workflows that run, not the queue.  *)
AllReturnedRunning ==
    /\ main \in {"wait", "force"}
    /\ Running(offset) = {}
    /\ Return
    /\ UNCHANGED <<offset, todo, cancelled, wf, forced, acted, processes>>

(* wg.Wait returns.                                                        *)
AllReturned ==
    /\ main \in {"wait", "force"}
    /\ Of(offset) = {}
    /\ Return
    /\ UNCHANGED <<offset, todo, cancelled, wf, forced, acted, processes>>

(* 60 seconds, or 15 in a shutdown: workflowCtx, which has 45, is done.    *)
WaitTimesOut ==
    /\ main = "wait"
    /\ ContextDone(offset)
    /\ main' = "force"
    /\ ended' = ended \cup {offset}
    /\ UNCHANGED <<offset, todo, cancelled, wf, forced, acted, processes>>

(* Faulty variant: the wait after the forced cancellation has no timeout.  *)
GiveUpWhenDone ==
    /\ main = "force"
    /\ Of(offset) = {}
    /\ Return
    /\ forced' = forced \cup {offset}
    /\ UNCHANGED <<offset, todo, cancelled, wf, acted, processes>>

(* Five seconds after the forced cancellation.                             *)
GiveUp ==
    /\ main = "force"
    /\ Return
    /\ forced' = forced \cup {offset}
    /\ UNCHANGED <<offset, todo, cancelled, wf, acted, processes>>

-----------------------------------------------------------------------------
(* The goroutine of a workflow.                                            *)

(* Faulty variant: one slot more than the semaphore has.                   *)
FreeSlotOneMore(m) == Cardinality(Running(m)) <= MaxConcurrency

FreeSlot(m) == Cardinality(Running(m)) < MaxConcurrency

(* The select takes the semaphore even when the context is done as well.   *)
Acquire(w) ==
    /\ w \in wf
    /\ w.st = "queued"
    /\ FreeSlot(w.msg)
    /\ wf' = (wf \ {w}) \cup {[w EXCEPT !.st = "running"]}
    /\ acted' = acted \cup {<<w.msg, w.strat>>}
    /\ UNCHANGED <<offset, main, todo, cancelled, ended, forced, processes>>

LeaveQueue(w) ==
    /\ w \in wf
    /\ w.st = "queued"
    /\ ContextDone(w.msg)
    /\ wf' = wf \ {w}
    /\ UNCHANGED <<offset, main, todo, cancelled, ended, forced, acted, processes>>

(* runPersonalTradingWorkflow returns.                                     *)
WorkflowEnds(w) ==
    /\ w \in wf
    /\ w.st = "running"
    /\ wf' = wf \ {w}
    /\ UNCHANGED <<offset, main, todo, cancelled, ended, forced, acted, processes>>

(* The 45 seconds of workflowCtx.                                          *)
ContextTimesOut ==
    /\ main \in Handling
    /\ offset \notin ended
    /\ ended' = ended \cup {offset}
    /\ UNCHANGED <<offset, main, todo, cancelled, wf, forced, acted, processes>>

-----------------------------------------------------------------------------
Cancel ==
    /\ ~cancelled
    /\ cancelled' = TRUE
    /\ UNCHANGED <<offset, main, todo, ended, wf, forced, acted, processes>>

(* The process ends, by itself after a cancellation or not, and its        *)
(* goroutines with it.                                                     *)
Exit ==
    /\ main' = "down"
    /\ cancelled' = TRUE
    /\ todo' = {}
    /\ wf' = {}
    /\ UNCHANGED <<offset, ended, forced, acted, processes>>

(* Faulty variant: a reader without a consumer group, FirstOffset again.   *)
RestartFromFirst ==
    /\ main = "down"
    /\ processes > 0
    /\ processes' = processes - 1
    /\ main' = "read"
    /\ cancelled' = FALSE
    /\ todo' = {}
    /\ wf' = {}
    /\ offset' = 0
    /\ UNCHANGED <<ended, forced, acted>>

(* Start in a new process.                                                 *)
Restart ==
    /\ main = "down"
    /\ processes > 0
    /\ processes' = processes - 1
    /\ main' = "read"
    /\ cancelled' = FALSE
    /\ todo' = {}
    /\ wf' = {}
    /\ UNCHANGED <<offset, ended, forced, acted>>

LoopStep ==
    \/ \E s \in Strategies : StartWorkflow(s)
    \/ AllStarted
    \/ AllReturned
    \/ WaitTimesOut
    \/ GiveUp

WorkflowStep(w) == Acquire(w) \/ LeaveQueue(w) \/ WorkflowEnds(w)

Next ==
    \/ Read
    \/ ReadFails
    \/ StopReading
    \/ LoopStep
    \/ \E w \in Workflow : WorkflowStep(w)
    \/ ContextTimesOut
    \/ Cancel
    \/ Exit
    \/ Restart

(* The loop goes on and timers fire.  Workflows owe nothing.               *)
Fairness ==
    /\ WF_vars(LoopStep)
    /\ WF_vars(ContextTimesOut)
    /\ WF_vars(StopReading)

Spec == Init /\ [][Next]_vars /\ Fairness

-----------------------------------------------------------------------------
(* Types; in particular a message never has more workflows running than    *)
(* the semaphore has slots.                                                *)
TypeOK ==
    /\ offset \in 0 .. Topic
    /\ main \in {"read", "down"} \cup Handling
    /\ todo \subseteq Strategies
    /\ cancelled \in BOOLEAN
    /\ ended \subseteq Messages
    /\ wf \subseteq Workflow
    /\ forced \subseteq Messages
    /\ acted \subseteq Messages \X Strategies
    /\ processes \in 0 .. MaxProcesses
    /\ \A m \in Messages : Cardinality(Running(m)) <= MaxConcurrency

(* Workflows of two messages, which may trade for one strategy, overlap    *)
(* only when the wait for the earlier ones was given up: whoever is still  *)
(* there belongs to the message being handled or to one given up on, the   *)
(* queue for the semaphore included.                                       *)
OverlapNeedsTimeout ==
    \A w \in wf : (w.msg = offset /\ main \in Handling) \/ w.msg \in forced

(* No opportunity is acted upon twice for a strategy, restarts and crashes *)
(* included: a workflow never begins again for the message that began it.  *)
ActsOnce ==
    [][\A w \in wf' \ wf : w.st = "running" => <<w.msg, w.strat>> \notin acted]_vars

(* The consumer implements EventConsumer: reads commit, every handling     *)
(* ends although workflows may hang, and a cancelled consumer stops.       *)
Consumer == INSTANCE EventConsumer WITH
    loop <- IF main = "read" THEN "reading" ELSE IF main = "down" THEN "stopped" ELSE "handling"

ImplementsConsumer == Consumer!Spec
=============================================================================
