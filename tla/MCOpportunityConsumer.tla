----------------------- MODULE MCOpportunityConsumer -----------------------
(* Small instance of OpportunityConsumer for TLC.                          *)
EXTENDS OpportunityConsumer, TLC

CONSTANTS s1, s2, s3
=============================================================================
