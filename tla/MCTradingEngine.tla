-------------------------- MODULE MCTradingEngine --------------------------
(***************************************************************************)
(* TradingEngine for TLC: the tick loop and the API's kill handler.        *)
(***************************************************************************)
EXTENDS TradingEngine

CONSTANTS tick, api

MCThreads == {tick, api}
MCEnterers == {tick}
=============================================================================
