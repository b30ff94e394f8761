------------------------------ MODULE Watchdog ------------------------------
(***************************************************************************)
(* The watchdog process: it looks at the age of the engine's heartbeat     *)
(* file every poll period, raises an alert for an episode and again while  *)
(* it lasts, and runs the restart command at most once per cooldown, also  *)
(* across episodes.  The command is waited for, and polls pass meanwhile.  *)
(*                                                                         *)
(* Time is counted in poll periods.  A missing file is as old as a stale   *)
(* one, and whether an alert arrives is not followed.                      *)
(***************************************************************************)
EXTENDS Naturals

CONSTANTS
    MaxAge,    \* max-age
    Cooldown,  \* restart-cooldown
    MaxRun     \* how long the restart command can take

VARIABLES
    alive,     \* the engine runs and touches the file
    age,       \* of the file
    due,       \* the ticker has fired and check has not begun
    alerted,   \* watchdog.alerted
    sinceAlert,    \* of watchdog.lastAlertAt
    sinceRestart,  \* of watchdog.lastRestartAt; Cooldown if long ago or never
    restarting,    \* the restart command runs, and for how long it has
    silent,   \* history: how long the file is stale without an alert
    resting    \* history: how long no restart command has begun

watchVars == <<alive, age, due, alerted, sinceAlert, sinceRestart, restarting, silent,
               resting>>

-----------------------------------------------------------------------------
Stale == age > MaxAge
NotRunning == [on |-> FALSE, lasted |-> 0]

Init ==
    /\ alive \in BOOLEAN
    /\ age \in {0, MaxAge + 1}
    /\ due = TRUE
    /\ alerted = FALSE
    /\ sinceAlert = 0
    /\ sinceRestart = Cooldown
    /\ restarting = NotRunning
    /\ silent = 0
    /\ resting = Cooldown

\* The engine is the environment: it touches the file, stops or comes back.
Touch ==
    /\ alive
    /\ age' = 0
    /\ silent' = 0
    /\ UNCHANGED <<alive, due, alerted, sinceAlert, sinceRestart, restarting, resting>>

EngineStops ==
    /\ alive
    /\ alive' = FALSE
    /\ UNCHANGED <<age, due, alerted, sinceAlert, sinceRestart, restarting, silent, resting>>

EngineStarts ==
    /\ ~alive
    /\ alive' = TRUE
    /\ UNCHANGED <<age, due, alerted, sinceAlert, sinceRestart, restarting, silent, resting>>

Grow(n, limit) == IF n < limit THEN n + 1 ELSE n

\* A period passes, after this one's check unless the command is running.
Poll ==
    /\ ~due \/ restarting.on
    /\ restarting.on => restarting.lasted < MaxRun
    /\ due' = TRUE
    /\ age' = Grow(age, MaxAge + 1)
    /\ sinceAlert' = Grow(sinceAlert, Cooldown)
    /\ sinceRestart' = Grow(sinceRestart, Cooldown)
    /\ restarting' = IF restarting.on THEN [restarting EXCEPT !.lasted = @ + 1] ELSE restarting
    /\ silent' = IF age' > MaxAge THEN Grow(silent, Cooldown + MaxRun + 1) ELSE 0
    /\ resting' = Grow(resting, Cooldown)
    /\ UNCHANGED <<alive, alerted>>

-----------------------------------------------------------------------------
(***************************************************************************)
(* check and maybeRestart                                                  *)
(***************************************************************************)
Check ==
    /\ due
    /\ ~restarting.on
    /\ due' = FALSE
    /\ UNCHANGED <<alive, age>>

Alert ==
    /\ alerted' = TRUE
    /\ sinceAlert' = 0
    /\ silent' = 0

MaybeRestart ==
    IF sinceRestart < Cooldown
        THEN UNCHANGED <<sinceRestart, restarting, resting>>
        ELSE /\ restarting' = [on |-> TRUE, lasted |-> 0]
             /\ resting' = 0
             /\ sinceRestart' = 0

CheckStale ==
    /\ Check
    /\ Stale /\ ~alerted
    /\ Alert
    /\ MaybeRestart

\* Fault: an episode is alerted once.
CheckStillStaleQuiet ==
    /\ Check
    /\ Stale /\ alerted
    /\ UNCHANGED <<alerted, sinceAlert, sinceRestart, restarting, silent, resting>>

CheckStillStale ==
    /\ Check
    /\ Stale /\ alerted
    /\ IF sinceAlert < Cooldown THEN UNCHANGED <<alerted, sinceAlert, silent>> ELSE Alert
    /\ UNCHANGED <<sinceRestart, restarting, resting>>

CheckRecovered ==
    /\ Check
    /\ ~Stale /\ alerted
    /\ alerted' = FALSE
    /\ UNCHANGED <<sinceAlert, sinceRestart, restarting, silent, resting>>

CheckHealthy ==
    /\ Check
    /\ ~Stale /\ ~alerted
    /\ UNCHANGED <<alerted, sinceAlert, sinceRestart, restarting, silent, resting>>

\* Whether it failed makes a difference to the message only.
CommandEnds ==
    /\ restarting.on
    /\ restarting' = NotRunning
    /\ UNCHANGED <<alive, age, due, alerted, sinceAlert, sinceRestart, silent, resting>>

Next ==
    \/ Touch \/ EngineStops \/ EngineStarts \/ Poll
    \/ CheckStale \/ CheckStillStale \/ CheckRecovered \/ CheckHealthy \/ CommandEnds

Spec == Init /\ [][Next]_watchVars

-----------------------------------------------------------------------------
TypeOK ==
    /\ alive \in BOOLEAN
    /\ age \in 0..(MaxAge + 1)
    /\ due \in BOOLEAN
    /\ alerted \in BOOLEAN
    /\ sinceAlert \in 0..Cooldown
    /\ sinceRestart \in 0..Cooldown
    /\ restarting \in [on : BOOLEAN, lasted : 0..MaxRun]
    /\ silent \in 0..(Cooldown + MaxRun + 1)
    /\ resting \in 0..Cooldown

(***************************************************************************)
(* An outage is never silent for long: whatever episodes, recoveries and   *)
(* restart commands come in between, the file is not stale for longer than *)
(* the cooldown and the run of a command without another alert.            *)
(***************************************************************************)
OutageIsHeard == silent <= Cooldown + MaxRun

(***************************************************************************)
(* A flapping heartbeat cannot restart the engine in a loop: whether the   *)
(* last command failed or not, the next one begins a cooldown later.       *)
(***************************************************************************)
RestartsRest == [][restarting'.on /\ ~restarting.on => resting = Cooldown]_watchVars
=============================================================================
