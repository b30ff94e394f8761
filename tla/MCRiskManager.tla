---------------------------- MODULE MCRiskManager ----------------------------
(***************************************************************************)
(* RiskManager on small numbers: the tick loop and the API's thread, flat  *)
(* charges, and a trail that is looser than the stop for a bought option   *)
(* and tighter for a sold one.                                             *)
(***************************************************************************)
EXTENDS RiskManager, TLC

CONSTANTS tick, api, s1, s2

MCThreads == {tick, api}
MCEnterers == {tick}

MCCharges(p, q, side) == IF side = "sell" THEN 2 ELSE 1
MCStopAt(p, side) == IF side = "buy" THEN p - 1 ELSE p + 2
MCTrailAt(p, side) == IF side = "buy" THEN p - 4 ELSE p + 1

MCSymmetry == Permutations(Symbols)
=============================================================================
