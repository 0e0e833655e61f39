-------------------------- MODULE MCWebSocketBatch --------------------------
(* Small instances of WebSocketBatch for TLC.                              *)
EXTENDS WebSocketBatch

(* Two versions of a candle around a tick of the ticker's table, then an   *)
(* older version of the candle that arrives late.                          *)
MCKeyOf  == <<"candle", "ticker", "candle", "candle">>
MCKindOf == <<1, 2, 1, 1>>
MCTimeOf == <<1, 1, 2, 1>>

=============================================================================
