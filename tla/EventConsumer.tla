--------------------------- MODULE EventConsumer ---------------------------
(***************************************************************************)
(* What a Kafka consumer of internal/consumers promises, whatever handling *)
(* one of its messages means.                                              *)
(*                                                                         *)
(* The loop of Start or Consume reads a message, which commits its offset, *)
(* and handles it before it reads the next one.  A message is handled at   *)
(* most once; every handling ends; once the context of the process is      *)
(* cancelled the loop ends, after at most the message it is busy with and  *)
(* one that was read while the context was being cancelled.                *)
(***************************************************************************)
EXTENDS Naturals

CONSTANT Topic      \* bound: the number of messages in the topic

VARIABLES
    offset,     \* the last message read, committed with the read
    loop,       \* "reading", "handling", or "stopped"
    cancelled   \* the context of the process

consumerVars == <<offset, loop, cancelled>>

Init ==
    /\ offset = 0
    /\ loop = "reading"
    /\ cancelled = FALSE

(* ReadMessage returns the next message.                                   *)
Read ==
    /\ loop = "reading"
    /\ offset < Topic
    /\ offset' = offset + 1
    /\ loop' = "handling"
    /\ UNCHANGED cancelled

(* The commit fails and the reader has advanced: the message is dropped.   *)
Skip ==
    /\ loop = "reading"
    /\ offset < Topic
    /\ offset' = offset + 1
    /\ UNCHANGED <<loop, cancelled>>

Handled ==
    /\ loop = "handling"
    /\ loop' = IF cancelled THEN "stopped" ELSE "reading"
    /\ UNCHANGED <<offset, cancelled>>

Stop ==
    /\ loop = "reading"
    /\ cancelled
    /\ loop' = "stopped"
    /\ UNCHANGED <<offset, cancelled>>

Cancel ==
    /\ ~cancelled
    /\ cancelled' = TRUE
    /\ UNCHANGED <<offset, loop>>

(* The process exits or dies, and a new one goes on after the offset.      *)
Exit ==
    /\ loop' = "stopped"
    /\ cancelled' = TRUE
    /\ UNCHANGED offset

Restart ==
    /\ loop = "stopped"
    /\ loop' = "reading"
    /\ cancelled' = FALSE
    /\ UNCHANGED offset

Next == Read \/ Skip \/ Handled \/ Stop \/ Cancel \/ Exit \/ Restart

Spec ==
    /\ Init
    /\ [][Next]_consumerVars
    /\ WF_consumerVars(Handled)
    /\ WF_consumerVars(Stop)
=============================================================================
