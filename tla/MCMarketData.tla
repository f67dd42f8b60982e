---------------------------- MODULE MCMarketData ----------------------------
(* Small instances of MarketData for TLC.                                   *)
EXTENDS MarketData

CONSTANTS eur, gbp
=============================================================================
