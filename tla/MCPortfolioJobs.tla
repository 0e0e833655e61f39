-------------------------- MODULE MCPortfolioJobs --------------------------
(* Small instance of PortfolioJobs for TLC.                                *)
EXTENDS PortfolioJobs, TLC

CONSTANTS h1
=============================================================================
