---------------------------- MODULE MCRiskControl ----------------------------
(* Small instances of RiskControl for TLC.                                 *)
EXTENDS RiskControl

CONSTANTS c1, c2

(* -3 is a loss that exceeds the drawdown at once, -1 one of a streak.     *)
MCPnls == {-3, -1, 1}

=============================================================================
