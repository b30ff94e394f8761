--------------------------- MODULE MCRiskScenarios ---------------------------
(***************************************************************************)
(* Two scenarios of RiskManager in one run, chosen at the start.  A        *)
(* market: every price, one session that nothing disturbs.  A restart: one *)
(* price, one symbol, one tick of the clock and no kill, but a crash, a    *)
(* failed call and another declared balance.                               *)
(***************************************************************************)
EXTENDS MCRiskManager

VARIABLE scenario

OnePrice == INSTANCE RiskManager WITH Prices <- {2}, Horizon <- 1

Traded == {s \in Symbols : Held(s) \/ rows[s].id # 0 \/ \E t \in Threads : call[t].sym = s}

MCInit ==
    \/ scenario = "market" /\ Init /\ InitialBalance = 9
    \/ scenario = "restart" /\ OnePrice!Init /\ InitialBalance = 9

MCNext ==
    /\ \/ scenario = "market" /\ Next /\ crashes' + faults' = 0
       \/ scenario = "restart" /\ OnePrice!Next /\ Cardinality(Traded') <= 1 /\ ~killSwitch'
    /\ UNCHANGED scenario

MCSpec == MCInit /\ [][MCNext]_<<vars, scenario>>
=============================================================================
