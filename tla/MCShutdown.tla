----------------------------- MODULE MCShutdown -----------------------------
(* Small instance of Shutdown for TLC.                                     *)
EXTENDS Shutdown

CONSTANTS w1, w2, opportunity, systemEvents, q1
=============================================================================
