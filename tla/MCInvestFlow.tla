---------------------------- MODULE MCInvestFlow ----------------------------
(* Small instance of InvestFlow for TLC.                                   *)
EXTENDS InvestFlow, TLC

CONSTANTS h1, h2

Symmetry == Permutations(Handlers)
=============================================================================
