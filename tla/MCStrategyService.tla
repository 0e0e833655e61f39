-------------------------- MODULE MCStrategyService --------------------------
(* Small instances of StrategyService for TLC.                             *)
EXTENDS StrategyService

CONSTANTS s1, c1, c2, c3

=============================================================================
