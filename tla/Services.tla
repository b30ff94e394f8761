------------------------------ MODULE Services ------------------------------
(***************************************************************************)
(* The components around the engine and what each promises.  They share no *)
(* state with each other.  A component's constants and variables are       *)
(* explained in its own module.                                            *)
(***************************************************************************)
EXTENDS Integers, Sequences, FiniteSets

CONSTANTS
    Callers, MaxExpiries, MaxLapses,                                   \* AngelSession
    Clients, MaxLots, Polls, TripAt, MaxOrders, MaxMishaps, MaxRestarts, \* AngelBroker
    Symbols, Subscribed, StaleAge, MaxTrip, MaxLosses,                 \* PriceCache
    Contracts, QueueSize, MaxCalls, MaxBreaks,                         \* LiveFeed
    Papers, Derivatives, Capital, Prices, HalfSpread, Fee, MarginTimes,
    MaxHeld, MaxPaperOrders,                                           \* PaperBroker
    Apps, Operators, MaxConns, BufferSize, MaxCommands, MaxFailures,   \* ControlServer
    MaxAge, Cooldown, MaxRun,                                          \* Watchdog
    Levels, MaxVolume, MaxKeep, MaxSkip, MaxTicks,                     \* Candles
    Candles, MinHistory, Expiry, Premiums, Slip, Charge,               \* Backtest
    HistorySize, MinDataPoints, Needs                                  \* Evaluation

VARIABLES
    accessToken, refreshToken, healthy, request, expiries, lapses,
    connected, positions, orderVariety, consecutiveFailures, circuitOpen, call, orders,
    counted, fate, unheard, leaked, mishaps, brokerRestarts,
    quote, poll, fetch, todo, polled, decision, losses,
    desired, feed, snapshot, cancelled, published, queue, socket, helpers, caller, calls,
    breaks, streamed, dropped,
    up, balance, held, reserved, counter, flow, fees, excused,
    paused, running, wsClients, conn, view, command, commands, failures, raced,
    alive, age, due, alerted, sinceAlert, sinceRestart, restarting, silent, resting,
    ticks, points, done, building,
    candle, position, trades, realized, peakEquity, maxDD, verdict,
    strategy, readings, bars, own, structure, lastDirection, owed, forgot

sessionVars == <<accessToken, refreshToken, healthy, request, expiries, lapses>>
brokerVars == <<connected, positions, orderVariety, consecutiveFailures, circuitOpen, call, orders,
                counted, fate, unheard, leaked, mishaps, brokerRestarts>>
priceVars == <<quote, poll, fetch, todo, polled, decision, losses>>
feedVars == <<desired, feed, snapshot, cancelled, published, queue, socket, helpers, caller, calls,
              breaks, streamed, dropped>>
paperVars == <<up, balance, held, reserved, counter, flow, fees, excused>>
serverVars == <<paused, running, wsClients, conn, view, command, commands, failures, raced>>
watchVars == <<alive, age, due, alerted, sinceAlert, sinceRestart, restarting, silent, resting>>
candleVars == <<ticks, points, done, building>>
backtestVars == <<candle, position, trades, realized, peakEquity, maxDD, verdict>>
evaluationVars == <<strategy, readings, bars, own, structure, lastDirection, owed, forgot>>

Session == INSTANCE AngelSession
Broker == INSTANCE AngelBroker
Price == INSTANCE PriceCache
Feed == INSTANCE LiveFeed
Paper == INSTANCE PaperBroker
Server == INSTANCE ControlServer
Watch == INSTANCE Watchdog
History == INSTANCE Candles
Test == INSTANCE Backtest
Signals == INSTANCE Evaluation

ASSUME SessionAssumption == MaxExpiries \in Nat /\ MaxLapses \in Nat

ASSUME BrokerAssumption ==
    /\ IsFiniteSet(Clients) /\ MaxLots \in Nat /\ Polls \in Nat /\ TripAt \in Nat
    /\ MaxOrders \in Nat /\ MaxMishaps \in Nat /\ MaxRestarts \in Nat

ASSUME PriceAssumption ==
    StaleAge \in Nat /\ MaxTrip \in Nat /\ MaxLosses \in Nat /\ Subscribed \subseteq Symbols

ASSUME FeedAssumption == QueueSize \in Nat /\ MaxCalls \in Nat /\ MaxBreaks \in Nat

ASSUME PaperAssumption ==
    /\ IsFiniteSet(Papers) /\ Prices \subseteq Nat /\ HalfSpread \in Nat /\ Fee \in Nat
    /\ MarginTimes \in Nat /\ Capital \in Int /\ MaxHeld \in Nat /\ MaxPaperOrders \in Nat

ASSUME ServerAssumption ==
    /\ IsFiniteSet(Apps) /\ MaxConns \in Nat /\ BufferSize \in Nat
    /\ MaxCommands \in Nat /\ MaxFailures \in Nat

ASSUME WatchAssumption == MaxAge \in Nat /\ Cooldown \in Nat \ {0} /\ MaxRun \in Nat

ASSUME HistoryAssumption == Levels \subseteq Nat /\ MaxVolume \in Nat /\ MaxKeep \in Nat \ {0}

ASSUME TestAssumption ==
    /\ Candles \in Nat /\ MinHistory \in 0..Candles /\ Expiry \in Nat
    /\ Premiums \subseteq Nat /\ Slip \in Nat /\ Charge \in Nat

ASSUME SignalsAssumption ==
    HistorySize \in Nat /\ Needs \in [Signals!Strategies -> Nat \ {0}]

-----------------------------------------------------------------------------
\* Every component's variables have their types.
TypeOK ==
    /\ Session!TypeOK /\ Broker!TypeOK /\ Price!TypeOK /\ Feed!TypeOK /\ Paper!TypeOK
    /\ Server!TypeOK /\ Watch!TypeOK /\ History!TypeOK /\ Test!TypeOK /\ Signals!TypeOK

\* doAPIRequest keeps its contract: a request takes effect once at most.
KeepsContract == Session!KeepsContract

\* The cached book is the sum of the fills heard of; the others are explained.
BookExplained == Broker!BookExplained

\* A reported fill is the order's, and a definite failure filled nothing.
AnswersHold == Broker!AnswersHold

\* While the breaker is open, entries past its check only, one per goroutine.
PauseHolds == Broker!PauseHolds

\* A cached price is no older than its stamp says, but for the quote's way.
StampIsHonest == Price!StampIsHonest

\* Close waits for four goroutines, and returns.
StopReturns == Feed!StopReturns

\* No symbol falls between a call and a connection that is being made.
NoSymbolFallsBetween == Feed!NoSymbolFallsBetween

\* The server streams every desired symbol that the channel did not refuse again
\* after every failure.
FeedRecovers == Feed!FeedRecovers

\* The paper account's cash, margin, positions and history agree.
MoneyAccounted == Paper!MoneyAccounted

\* The cap on WebSocket clients, but for those let in at the same moment.
CapHolds == Server!CapHolds

\* A dead, stuck or slow client is removed with its goroutines.
DeadClientsGo == Server!DeadClientsGo

\* Every connected app ends up showing whether the runner is paused.
ViewsConverge == Server!ViewsConverge

\* No outage goes on for longer than the cooldown without an alert.
OutageIsHeard == Watch!OutageIsHeard

\* Candles are what a reference computes from all readings.
CandlesMatchTicks == History!CandlesMatchTicks

\* The report's drawdown covers every fall between two trades.
DrawdownCovers == Test!DrawdownCovers

\* A position is left when its strategy's own rules say so.
ExitsAreTimely == Signals!ExitsAreTimely
=============================================================================
