----------------------------- MODULE MCServices -----------------------------
(***************************************************************************)
(* The components around the engine checked in one run: part says which    *)
(* one a behaviour is about, and for the larger ones which scenario of it. *)
(***************************************************************************)
EXTENDS Services

VARIABLE part

Threads == {"loop", "api"}
Screens == {"phone", "web"}

MCNeeds == [short_straddle |-> 3, iron_fly |-> 3, rsi_reversal |-> 2, sniper |-> 2,
            ema_crossover |-> 5, momentum |-> 5]

BrokerParts == {"flips", "race", "breaker"}
ServerParts == {"cap", "views"}
Parts == {"session", "price", "feed", "paper", "watchdog", "candles", "backtest",
          "signals"} \cup BrokerParts \cup ServerParts

-----------------------------------------------------------------------------
Init ==
    /\ part \in Parts
    /\ Session!Init /\ Broker!Init /\ Price!Init /\ Feed!Init /\ Paper!Init /\ Server!Init
    /\ IF part = "watchdog" THEN Watch!Init
       ELSE /\ alive = TRUE /\ age = 0 /\ due = TRUE /\ alerted = FALSE /\ sinceAlert = 0
            /\ sinceRestart = Cooldown /\ restarting = Watch!NotRunning /\ silent = 0
            /\ resting = Cooldown
    /\ History!Init /\ Test!Init
    /\ IF part = "signals" THEN Signals!Init
       ELSE /\ strategy = "sniper" /\ readings = 0 /\ bars = 0 /\ own = 0 /\ structure = Signals!Flat
            /\ lastDirection = "none" /\ owed = 0 /\ forgot = FALSE

\* Every component but those whose step this is stays as it is.
Only(parts) ==
    /\ IF "session" \in parts THEN TRUE ELSE UNCHANGED sessionVars
    /\ IF "race" \in parts THEN TRUE ELSE UNCHANGED brokerVars
    /\ IF "price" \in parts THEN TRUE ELSE UNCHANGED priceVars
    /\ IF "feed" \in parts THEN TRUE ELSE UNCHANGED feedVars
    /\ IF "paper" \in parts THEN TRUE ELSE UNCHANGED paperVars
    /\ IF "cap" \in parts THEN TRUE ELSE UNCHANGED serverVars
    /\ IF "watchdog" \in parts THEN TRUE ELSE UNCHANGED watchVars
    /\ IF "candles" \in parts THEN TRUE ELSE UNCHANGED candleVars
    /\ IF "backtest" \in parts THEN TRUE ELSE UNCHANGED backtestVars
    /\ IF "signals" \in parts THEN TRUE ELSE UNCHANGED evaluationVars

(***************************************************************************)
(* The scenarios.  flips: one goroutine, orders of two lots, a mishap and  *)
(* a restart.  race: two goroutines, nothing fails.  breaker: two          *)
(* goroutines and one order, three mishaps.  Buying and selling are        *)
(* symmetric, so the first order buys.  cap: two apps, no commands.        *)
(* views: one app, two operators, no failure.                              *)
(***************************************************************************)
BrokerScenario ==
    /\ orders[1]'.side = "BUY"
    /\ CASE part = "flips" -> /\ call["api"]' = Broker!Idle
                              /\ \A id \in 1..2 : orders[id]'.qty \in {0, 2}
                              /\ mishaps' <= 1 /\ connected'
         [] part = "race" -> /\ \A id \in 1..2 : orders[id]'.qty <= 1
                             /\ mishaps' + brokerRestarts' = 0
         [] part = "breaker" -> /\ orders[1]'.qty <= 1 /\ orders[2]'.status = "none"
                                /\ brokerRestarts' = 0

ServerScenario ==
    CASE part = "cap" -> commands' = 0
      [] part = "views" -> conn["web"]' = Server!NoConn /\ failures' = 0

Next ==
    /\ UNCHANGED part
    /\ \/ part = "session" /\ Session!Next /\ Only({"session"})
       \/ part \in BrokerParts /\ Broker!Next /\ BrokerScenario /\ Only(BrokerParts)
       \/ part = "price" /\ Price!Next /\ Only({"price"})
       \/ part = "feed" /\ Feed!Next /\ Only({"feed"})
       \/ part = "paper" /\ Paper!Next /\ Only({"paper"})
       \/ part \in ServerParts /\ Server!Next /\ ServerScenario /\ Only(ServerParts)
       \/ part = "watchdog" /\ Watch!Next /\ Only({"watchdog"})
       \/ part = "candles" /\ History!Next /\ Only({"candles"})
       \/ part = "backtest" /\ Test!Next /\ Only({"backtest"})
       \/ part = "signals" /\ Signals!Next /\ Only({"signals"})

vars == <<part, sessionVars, brokerVars, priceVars, feedVars, paperVars, serverVars, watchVars,
          candleVars, backtestVars, evaluationVars>>

(***************************************************************************)
(* The fairness each component's Spec states, for the part it is about.    *)
(***************************************************************************)
SessionFair ==
    \A c \in Threads : WF_sessionVars(part = "session" /\ Session!Own(c))

PriceFair ==
    /\ WF_priceVars(part = "price" /\ Price!Poller)
    /\ WF_priceVars(part = "price" /\ Price!Looper)
    /\ WF_priceVars(part = "price" /\ Price!Clock)

FeedFair ==
    /\ WF_feedVars(part = "feed" /\ Feed!MainGoesOn)
    /\ WF_feedVars(part = "feed" /\ Feed!FeedGoesOn)
    /\ WF_feedVars(part = "feed" /\ Feed!Writer)
    /\ WF_feedVars(part = "feed" /\ Feed!HeartbeatEnds)
    /\ WF_feedVars(part = "feed" /\ Feed!Closer)

ServerFair ==
    /\ \A a \in Screens :
          /\ WF_serverVars(part \in ServerParts /\ Server!Handler(a))
          /\ WF_serverVars(part \in ServerParts /\ Server!Writer(a))
          /\ WF_serverVars(part \in ServerParts /\ Server!ReaderEnds(a))
    /\ \A o \in Screens :
          WF_serverVars(part \in ServerParts /\ Server!Operator(o))

Spec == Init /\ [][Next]_vars /\ SessionFair /\ PriceFair /\ FeedFair /\ ServerFair

-----------------------------------------------------------------------------
\* After the last expiry and lapse the session ends up healthy for good.
SessionHeals == part = "session" => Session!SessionHeals

\* The stop of a subscribed contract is decided on again and again.
SubscribedStopsDecide == part = "price" => Price!SubscribedStopsDecide
=============================================================================
