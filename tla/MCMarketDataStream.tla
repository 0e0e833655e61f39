-------------------------- MODULE MCMarketDataStream --------------------------
(* Small instances of MarketDataStream for TLC.                            *)
EXTENDS MarketDataStream
=============================================================================
