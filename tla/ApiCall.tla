------------------------------- MODULE ApiCall -------------------------------
(***************************************************************************)
(* What AngelBroker.doAPIRequest promises its callers: a request takes     *)
(* effect at Angel One at most once; an answer says that it did, or that   *)
(* it was declined and did not.  An error promises nothing.                *)
(***************************************************************************)
EXTENDS Naturals

CONSTANT Callers   \* goroutines that call the API

VARIABLES
    phase,     \* "idle" or "open"
    effects,   \* how often the request under way, or the last one, took effect
    answer     \* of the last request: "none", "ok", "declined" or "failed"

apiVars == <<phase, effects, answer>>

Init ==
    /\ phase = [c \in Callers |-> "idle"]
    /\ effects = [c \in Callers |-> 0]
    /\ answer = [c \in Callers |-> "none"]

Request(c) ==
    /\ phase[c] = "idle"
    /\ phase' = [phase EXCEPT ![c] = "open"]
    /\ effects' = [effects EXCEPT ![c] = 0]
    /\ answer' = [answer EXCEPT ![c] = "none"]

Take(c) ==
    /\ phase[c] = "open"
    /\ effects[c] = 0
    /\ effects' = [effects EXCEPT ![c] = 1]
    /\ UNCHANGED <<phase, answer>>

Reply(c) ==
    /\ phase[c] = "open"
    /\ phase' = [phase EXCEPT ![c] = "idle"]
    /\ \/ answer' = [answer EXCEPT ![c] = "failed"]
       \/ effects[c] = 1 /\ answer' = [answer EXCEPT ![c] = "ok"]
       \/ effects[c] = 0 /\ answer' = [answer EXCEPT ![c] = "declined"]
    /\ UNCHANGED effects

Next == \E c \in Callers : Request(c) \/ Take(c) \/ Reply(c)

Spec == Init /\ [][Next]_apiVars
=============================================================================
