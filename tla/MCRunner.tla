------------------------------ MODULE MCRunner ------------------------------
(***************************************************************************)
(* Runner for TLC: one underlying and its legs.                            *)
(***************************************************************************)
EXTENDS Runner, TLC

CONSTANTS nifty, ce, pe, wing

MCUnderlyings == {nifty}
Straddle == nifty :> <<ce, pe>>
Fly == nifty :> <<wing, ce, pe>>
=============================================================================
