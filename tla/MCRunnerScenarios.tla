-------------------------- MODULE MCRunnerScenarios --------------------------
(***************************************************************************)
(* Two scenarios of Runner in one run, chosen at the start.  A day: every  *)
(* instant, with resting stop orders and a shutdown in the first three     *)
(* instants; its bounds on failures are spent from the start.  A restart:  *)
(* the first instants, with no stop order resting, and any two of a        *)
(* restart, a failed call and an unknown outcome; runs of three entries do *)
(* without the failed call.                                                *)
(***************************************************************************)
EXTENDS MCRunner

AllSpent == unknown = MaxUnknown /\ restarts = MaxRestarts /\ faults = MaxFaults
NoneSpent == unknown = 0 /\ restarts = 0 /\ faults = 0

MCInit == FirstStart /\ (AllSpent \/ NoneSpent)

MCSpec == MCInit /\ [][Next]_vars

InScenario ==
    IF AllSpent
        THEN attempt' > 0 => now' <= 2
        ELSE /\ now' <= 1
             /\ stops' = {}
             /\ ~AllSpent'
             /\ entries' <= 2 \/ faults' = 0
=============================================================================
