# TLA+ models of titan-algo

titan-algo trades options on the Indian market through Angel One. The program
that holds positions is the Go engine in `src/go-engine`; this directory models
what it does with orders, positions, capital and structures of option legs when
calls interleave, writes fail, the broker gives no definite answer and the
process crashes, and how the components around it hold up: the session at Angel
One, the price cache, the live feed, the paper account, the control server, the
watchdog, the candles, the strategies and the backtest. TLC checks small
instances, and the TLA+ proof system proves for every instance what the runs
check of safety.

Paths below are relative to `src/go-engine/internal` unless they start with
`src/`.

## 1. The system

| Part | Code | State | Operations |
| --- | --- | --- | --- |
| Trading engine | `engine/engine.go` | exits in flight, references to the risk manager, store and broker | place an entry, place an exit |
| Risk manager | `risk/risk.go` | balances, capital used, positions with stops, throttle window, kill switch | validate, open, roll back, correct after a fill, close, check stops, kill, restore |
| State store | `state/*.go` | SQLite tables: order attempts, positions, risk snapshot, strategy state | one transaction per call; recovery and reconciliation at start |
| Runner | `engine/runner.go` | open structures (legs by underlying), pause flag | tick, enter, unwind and exit a structure, flatten, pause, resume, kill, shut down, restore |
| Strategies | `strategy/*.go` | the 9:20 straddle keeps latches per symbol; the others keep nothing | evaluate, confirm, snapshot, restore |
| Start-up | `src/go-engine/cmd/main.go` | none | recover, reconcile, gate, restore, serve the API, run |
| Broker clients | `broker/*.go` | position cache, circuit breaker, session tokens, price cache; paper balances | request with session renewal, place, poll, stop orders, cancel, batch prices |
| Live feed | `broker/ws_feed.go` | wanted and actual subscriptions, price cache | subscribe, reconnect, stop |
| Control API | `api/server.go` | WebSocket clients | status, pause, resume, kill, configuration |
| Candles | `strategy/candle_aggregator.go`, `strategy/price_history.go` | last readings and candles by symbol | add a reading |
| Ledger, CSV log | `ledger/`, `logger/` | append-only files nothing reads back | append |
| Watchdog | `src/go-engine/cmd/watchdog` | episode and cooldown | probe, alert, restart |
| Backtest, discovery, configuration, dashboards | the rest | offline, or read once | |

How they interact. One goroutine runs `Runner.Run`: on every tick it looks for
the kill file, checks the risk limits, flattens if it must, checks the software
stops and evaluates the strategy for each symbol. Everything it enters or
exits goes through the trading engine, one leg after the other. The goroutines
of the control API call the same runner (pause, resume, kill and flatten), so
the kill hook exits legs while the tick loop may be entering or exiting them.
The engine writes an *intent* row before an order goes out and resolves it
afterwards; the risk manager and the positions table change in further steps.
A restart reads the tables, compares them with the broker, refuses to start on
a mismatch unless the operator accepts it, and restores positions, snapshot,
latches and structures, twice: before the API is served and when `Run` starts.

What is hard about it:

- **Interleaving.** Two goroutines work on the same books with locks held only
  inside single methods: validating and opening, filling and recording,
  snapshot getters, a structure's legs.
- **Uncertain outcomes.** An order may time out with the exchange having it.
- **Partial failure.** A leg is rejected when others have filled; unwinding
  may fail too; one leg of an exit fails; a row or a record cannot be written.
- **Crashes** between any two of the steps above, and what a restart makes of
  what it finds.
- **Time.** Entry windows, square-off, the throttle's sliding window, latches
  that hold for a day.

What makes each part correct:

- *Engine*: a resolved attempt tells what the exchange did; no order that may
  fill is forgotten; one exit per symbol at a time; the three books (risk
  manager, positions table, exchange) agree at rest.
- *Risk manager*: capital used is what positions lock; the balance is the
  initial one plus the realized P&L; no window exceeds the order limit; after
  a kill no new entry; a stop never loosens.
- *Runner*: a structure is all or nothing; nothing held is untracked unless the
  operator was told; no entry over a position; the record a restart reads is
  what was tracked; a kill ends flat; shutdown ends.
- *Strategy*: latches never outlive the structure they are about.
  Each of the six others leaves a position when its own rules say so.
- *Angel One session*: a request takes effect at most once, though it is sent
  again after a renewal; the session heals, however renewals overtake each other.
- *Angel One orders*: the answer to a call can be relied on; the position book
  is what the fills heard of add up to; the breaker's pause keeps entries out.
- *Price cache*: no price is older than its stamp says; a stop is decided on
  again and again.
- *Live feed*: no symbol falls between a call and a reconnection; the feed comes
  back from every failure; stopping it ends.
- *Paper account*: no order prints or burns money.
- *Control server*: the cap on clients; dead clients go with their goroutines;
  apps show what the engine does.
- *Watchdog*: no outage is silent for long; restarts rest in between.
- *Candles, backtest*: candles are those of exactly their readings; the report
  hides no fall of the account.

## 2. Modules

| Module | Models | Runs | Proofs |
| --- | --- | --- | --- |
| `OrderJournal` | abstract: what the order-attempt journal promises | through `TradingEngine` | refinement |
| `TradingEngine` | `PlaceEntryOrder`, `PlaceExitOrder`, journal, rows, exchange, crash, gate, restore | `engine*` | `TradingEngineProofs` |
| `RiskManager` | `risk.Manager` under the engine's call sequences, the snapshot | `risk*` | `RiskManagerProofs` |
| `NineTwenty` | the latches and signals of the 9:20 straddle | through `Runner` | `RunnerProofs` |
| `Runner` | the tick loop, structures, flattening, kill hook, shutdown, restart | `runner*` | `RunnerProofs` |
| `Evaluation` | `evaluateSymbol` with the six other strategies | `services` | `ServicesProofs` |
| `ApiCall` | abstract: what `doAPIRequest` promises | through `AngelSession` | refinement |
| `AngelSession` | requests and session renewal at Angel One | `services` | `AngelSessionProofs` |
| `AngelBroker` | orders, polling, breaker, position book, restart | `services` | `AngelBrokerProofs` |
| `PriceCache` | the cache, its three writers and the software stop that reads it | `services`, `stale_leg` | `ServicesProofs` |
| `LiveFeed` | the WebSocket feed with its goroutines and channel | `services` | `ServicesProofs` |
| `PaperBroker` | orders, cash and margin of `MockBroker` | `services` | `ServicesProofs` |
| `ControlServer` | start, stop and kill, and the clients of `/ws/live` | `services` | `ServicesProofs` |
| `Watchdog` | episodes, alerts, the restart command and its cooldown | `services` | `ServicesProofs` |
| `Candles` | `PriceHistory.Add`, `CandleAggregator.Add` | `services` | `CandlesProofs` |
| `Backtest` | the loop of `Run` | `services` | `ServicesProofs` |
| `Services` | the instances, assumptions and properties of the components from `AngelSession` to here | `MCServices` extends it | |
| `Sums` | facts about sums over finite sets | | cited by the other proofs |
| `MC...` | constants and scenarios for TLC | | |

`TradingEngine`, `RiskManager` and `Runner` are not one product: each keeps of
its neighbours what its own code sees. `TradingEngine` has the engine calls in
full and of the risk manager only the quantity by symbol. `RiskManager` has the
money and the stops and of the engine the order of its calls. `Runner` has the
walks over structures and of an engine call what its caller sees: it validates,
opens, and is answered (fill, rejection, indeterminate), or claims a symbol and
is answered. A product of the three would add no behaviour that the parts do not
have, and would be out of TLC's reach. The components around them meet in the
same way: `AngelBroker` relies on the contract `AngelSession` is shown to keep,
`PriceCache` joins the poller, the feed's ticks and the runner's stop check.

### TradingEngine and OrderJournal

A call is a record (thread, stage, order id). Each action is the code between
two points where another goroutine can act or the process can stop: the
intent's transaction, the risk manager's lock, the broker call, each later
transaction. `BeginEntry/OpenRisk/Send/EntryFilled/ResolveEntry/SaveEntry`
follow `PlaceEntryOrder`; `BeginExit/RecordExit/Send/ExitFilled/ResolveExit/
CloseExit` follow `PlaceExitOrder`; `StoreFails` is a failed transaction and
leads where the code goes on. The exchange fills or stops a live order at any
time, whether the process runs or not. `Start` is the gate of `main.go`.
Quantities count in the entry's direction, so an exit that reverses the
position makes `Held` negative.

The broker keeps the contract of `broker/broker.go`: the answer is the final
filled quantity, a definite failure with no fill, or indeterminate. `suspect`
and `revived` are history variables: symbols whose books the code itself knows
to be off (an indeterminate outcome, a forced or a blind start, an exit with no
row or a closed one to close, overlapping calls, an entry over an open position),
or that the second
restore brought back. `ThreeBooksAgree` excepts them and `alerted` symbols;
`HeldIsRecorded`, `ExitNeverReverses` and `SecondRestoreChangesNothing` show
what happens there.

`OrderJournal` has no threads and no crashes: an entry reaches the exchange
after its intent, a row is resolved as final only with what the exchange did.
`JournalSpec` says that `TradingEngine` implements it.

### RiskManager

Every method holds the manager's mutex and is one action; the sequence of them
in an engine call is not. Charges and stop distances are operator constants.
Money is an integer. The stop-loss is modelled enabled and trailing. The
snapshot's figures are read one getter at a time. `drift` is capital that
`SessionBalanceUsed` counts for no position, `stale` a snapshot that missed a
close, `torn` a restart from a mixed snapshot; `counted` and `late` record
entries for the throttle and the kill. A restart forgets the trail of a stop
and the margin of a position, as `RestorePosition` does, so `StopNeverLoosens`
speaks of one stay of the process, as does `ThrottleHolds` (the window lives in
memory). The early return of `UpdatePositionPrice` for a fill price that is not
positive is left out: fills have a price. `Enterers` has one member: only the
tick loop enters.

### Runner and NineTwenty

Two goroutines, `"loop"` and `"api"`, each with a *task*: an agenda of jobs
(`flatten`, `market`, `stops`, `evaluate`, `verify`) that walk over structures
and then contracts, and at most one call sequence under way (`enter`, `unwind`,
`exit`, `single`) with the legs it has left. A tick is the agenda
`<<"stops", "evaluate">>`, with `"flatten"` in front when the risk check is
breached or at the square-off; the kill hook is `<<"flatten">>`; shutdown is
`<<"flatten", "verify">>`, up to three times. Each leg is one engine call in
the stages that others can see. HTTP handlers may run at the same time as each
other; one API goroutine stands for them, two overlapping kills are not
modelled.

| Action | Code |
| --- | --- |
| `Tick`, `NextJob` | `tick`, `checkKillSentinel`, `CheckRisk` |
| `WatchStructure`, `WatchRest`, `WatchContract` | `softStopLossCheck` |
| `Evaluate` | `evaluateSymbol` and `Evaluate` of the strategy |
| `FlattenStructure`, `FlattenRest`, `FlattenContract` | `flattenAll` |
| `ValidateLeg` ... `EntryConfirmed` | `enterMultiLeg`, `placeSingleLeg` |
| `ClaimLeg` ... `ExitConfirmed` | `exitStructure`, `unwindLegs`, leftovers |
| `Shutdown`, `Verify` | `Shutdown`, `brokerBookEmpty` |
| `Crash`, `Start`, `RestoreAgain` | a dead process, the gate in `main.go`, `RestoreState` twice |
| `StopFires`, `Clock` | a resting stop order at the exchange; time |

A day has six instants, cut where a rule changes; a tick may straddle an
instant, and no tick lasts through the night. One lot per contract suffices:
what a partial fill does is `TradingEngine`'s subject. Failed position rows are
too. `Latched` chooses the 9:20 straddle; otherwise the strategy is any of the
stateless ones, which may signal an entry whenever flat and an exit whenever in
position. `alerted` records the `flatten_failure` and `indeterminate_order`
alerts; a `leg_rejected` alert does not count, so the property is stronger.
`excused` records what is knowingly off: a stop order that fired at the
exchange (nobody tells the engine), a kill that sold what was still being
bought, a call sequence a crash interrupted, a record that could not be
written, a mismatch the operator accepted, what the day before left untracked.

### Evaluation

Of a series only the length is kept, and of the market what the rules ask of it
(a band of the RSI, above or below an average or the premium stop, a setup).
What a strategy is given depends on what is held: with legs it is their combined
premium, which starts empty at an entry, and neither the price history nor the
candles go on. A sniper without candles of the runner's feeds an aggregator of
its own (`own`). Both cut at the same minutes and the runner's is fed first, so
its own can end a candle first only while a structure restored after a restart is
held, from whose premiums it then makes candles, and once at the first
evaluation after it (`OwnEnds`): such an evaluation can enter on a series of
premiums. `Needs` is how long a series each strategy must have. `owed`
counts evaluations in a row that owed an exit by the position's own rules and
gave none; `ExitsAreTimely` bounds it by the need of the strategy, which is how
long the premium stop of a short straddle is not looked at after an entry or a
restart (fourteen evaluations with the code's RSI period). Excepted is a short
reversal position after a restart, whose direction is forgotten: it is then left
as a bought one is.

What the code does here that a reader would not expect, and that is modelled as
it is: `RestoreState` takes every structure over as one of legs (`runner.go:303`),
so a directional position gets the series of its premium; the sniper, given
candles, may signal on the same completed one at every tick, because its latch
is for its own aggregator only; a leg without a price counts as 0 in the combined premium (`runner.go:657`).

### ApiCall and AngelSession

All that matters of a token is whether Angel One still accepts it. A request is
the round trip it is in (first try, refresh, login, retry) and where that is;
`Serve` is Angel One, `Lapse` a lost message or a refusal for another reason,
`Expire` ends all tokens. `ApiCall` is the promise: at most one effect, and a
definite answer tells it. `KeepsContract` says that `AngelSession` implements it.
A login or a refresh of one goroutine may be overtaken by another's.

### AngelBroker

Each request of an order is a step of a call (`CheckOrder`, `Submit`, `Arrive`,
`Accepted`, `Poll`, `Filled`, ...), the exchange fills, rejects or cancels in
between. The book is one symbol's: every order touches its own only. `fate` and
`unheard` are history. A submission that gets no answer is a definite failure in
this code although the exchange may have the order; `AnswersHold` excepts
exactly these (`unheard`), where `TradingEngine` has the contract of the
interface, which would call them indeterminate. `BookExplained` lists every way
in which the cached book, which shutdown verifies, can be off. `PauseHolds`
bounds the entries that were past the breaker's check when it opened.

### PriceCache

A cached price has two ages, that of its stamp and the real one. `StampIsHonest`
relates them over all three writers. `Subscribed` is what main subscribes: the
underlyings and never the legs, so a leg's price is fetched once and never
again. `stale_leg` shows what becomes of its software stop.

### LiveFeed

The feed's goroutine (`feed`), its three helpers per connection, main's calls of
subscribe, unsubscribe and close, the bounded channel, and what the server
streams. A connection breaks or falls silent; a write to a silent one is lost or
blocks. `NoSymbolFallsBetween` is the safety of it: whichever of a call and a
(re)connection comes first, the server streams every desired symbol once what was
sent is written. `FeedRecovers` says that the feed comes to that. Both except
the symbols whose last subscription the full channel refused (`dropped`), until a
later call or a reconnection sends it. `UnsubscribeLive` has no caller in the
program and is modelled as main's call all the same; that it leaves the server
streaming what nobody wants, when its frame is refused, no property says.

### PaperBroker

An order is one step, as the account's lock is held throughout. Two kinds of
orders leave cash, margin and position out of step and are excepted by name
(`OutOfStep`): a short refused for its margin keeps that margin locked
(`broker/mock.go:282` against the comment at line 135), and an order beyond an
opposite position is paid for in full and deletes the position, where the
comment at line 309 says that it mirrors the crossover. Money is in whole
units, and an order that would give a fractional average price is left out
(`Exact`): rounding an average is no part of what the property is about.

### ControlServer

Of a message only *running* is kept. A client is its handler, two pumps, a
bounded buffer and a socket that may break or get stuck. `CapHolds` excepts the
clients let in while another was between the check and its registration
(`raced`). The hooks of pause, resume and kill are the runner's, which never return
an error, so that the server's answer 500 to one is left out; a client that is
too slow is removed in the step that finds its buffer full. A kill tells the apps *stopped*, and the next heartbeat shows the
runner as running again, since `Status` reads the pause flag: this is what
`ViewsConverge` says apps show. `UpdateStatus` has no caller, so that the
positions the API lists stay empty.

### Watchdog

Time is counted in poll periods. The command is waited for, so that no check is
made while it runs; one that never ended would end the watchdog's work, and
`MaxRun` bounds it. An episode whose restart the cooldown skipped is alerted
again and never restarted: restarting is tied to its first alert.

### Candles and Backtest

`Candles` keeps all readings as history, and `CandlesMatchTicks` says of every
interval what its candle is: the first and last of its readings, their extremes,
and the sum of what the day's count rose by between them. `Backtest` has the premium of a structure and the strategy's
signal as choices of the environment: it has one slippage, and one expiry, since
no strategy names another for a leg; `DrawdownCovers` excepts a trade that a
signal closed at the open of the last candle, after which the loop marks no
more. Unlike the live runner, the backtest exits a directional position on an
opposite signal.

### MCServices, MCRiskScenarios, MCRunnerScenarios

The components of `MCServices` share no state. Their instances are checked in
one run: `part` is chosen at the start, and every step is one of that part.
`Broker` is checked in three scenarios and `Server` in two, which bound
different things. The two other scenario modules choose likewise between an
undisturbed longer run and a shorter one with crashes and faults; that of
`Runner` starts the longer one with the bounds on failures spent and keeps both
apart with an action constraint.

## 3. Runs

| Run | Result | What it shows |
| --- | --- | --- |
| `engine` | holds | all engine invariants and the refinement of `OrderJournal`: 1 symbol, 2 goroutines of which 1 enters, 3 orders of up to 2 lots, 1 crash, 1 failed write |
| `engine_partial_exit` | `HeldIsRecorded` fails | an exit that fills in part closes the whole position on our side |
| `engine_exit_retry` | `ExitNeverReverses` fails | an exit after an indeterminate one sells again what may be sold |
| `engine_restore_twice` | `SecondRestoreChangesNothing` fails | the second restore revives a position an API exit closed |
| `risk` | holds | a market: capital, throttle, kill, stops, snapshot in one session, 2 symbols, 2 prices, 2 entries, limit 1 per window; a restart: balances and snapshot of one symbol at one price, without a kill, but with a crash, a failed write or read, another declared balance |
| `risk_snapshot` | `SnapshotIsOneMoment` fails | the snapshot's figures are of different moments |
| `runner` | holds | a day: the straddle and the next morning with resting stop orders, nothing untracked, no entry over a position, no latch left over; a restart: an indeterminate order, a crash at any step, the gate, both restores and a failed write or read, what is restored was tracked |
| `runner_kill` | holds | two control API calls at any step of the loop: a kill ends flat, shutdown ends (liveness) |
| `runner_naked` | `HedgesCover` fails | unwinding closes the hedge before the short, whose exit then fails |
| `runner_retry` | `RetriesClose` fails | a structure of which one leg failed to close is never cleared, not even when all have closed |
| `services` | holds | the invariants, the refinement of `ApiCall` and the liveness of the components around the engine, 220,335 states |
| `stale_leg` | `StopsDecide` fails | the software stop of an option leg is never decided on again once its only price is older than `StaleAge` |

The runs that fail are disagreements between the code and a comment or document
of its own, quoted in `PROJECT.json` with the line. Four that an operator would
feel: after a partly failed exit a structure is tracked for ever, across restarts
too, so its symbol is not entered again; an unwinding that fails on the second of
three legs leaves a short option without its hedge; an exit retried after an
indeterminate one can open the opposite position; and the software stop of an
option leg works only until the one price fetched for it is older than
`StaleAge`.

**Bounds and why they suffice.** One entry order more than the legs of a
structure is enough for an entry over a forgotten leg; three orders are entry,
exit and a second exit or entry. Two goroutines are all that the program has on
these books. One crash reaches every interruption, and the restart after it
reads everything a crash leaves; a second would start from the same tables.
One failed write (or read) at every place covers each branch; combinations of
two are not checked. The restart scenario of `runner` has any two of a crash, a
failed call and an indeterminate order, but no failed call in a run of three
entries, and the day shuts down in its first three instants only: the
constraints keep the run within minutes. Two symbols in `risk` are needed because capital and the
throttle are shared; structures of different underlyings share nothing but the
loop that walks them, so `Runner` is checked with one. `Horizon = 7` ends in
the entry window of the second day; the restart scenario and the kill run end in
that of the first, where everything can be entered, stopped and exited.

| Part of `services` | Bounds | What they let happen |
| --- | --- | --- |
| `session` | 2 goroutines, 2 expiries, 2 lapses | renewals that overtake each other, an expiry during a renewal, a refresh and a login that both fail |
| `flips`, `race`, `breaker` | 2 goroutines, 2 orders, 2 lots, 1 poll, `TripAt` 2, 3 mishaps, 1 restart | partial fills and a flip, two orders at once, a breaker that opens with an entry past its check, a fetch that fails |
| `price` | 2 symbols of which 1 is subscribed, `StaleAge` 2, trip 1, 2 losses | both ages on both sides of `StaleAge`, each writer before and after each other |
| `feed` | 2 symbols, channel of 2, 2 calls, 1 break | a full channel, a call before, during and after a reconnection, a silent connection |
| `paper` | 2 symbols, 2 prices, positions of 2, 4 orders | add, cover in part, cross zero, a refusal |
| `cap`, `views` | 2 apps, 1 allowed, buffer 1, 2 operators, 2 commands, 2 failures | two upgrades at once, a slow client, commands that overtake each other and a heartbeat |
| `watchdog` | `MaxAge` 2, cooldown 4, command of 2 periods | outages that outlast the cooldown, flapping, a command during which polls pass |
| `candles` | 3 readings, 2 prices, 1 kept | a gap, a candle dropped, a day's count that starts again |
| `backtest` | 5 candles, 2 premiums | two trades, one outlived expiry, the forced close |
| `signals` | series of 5, 4 data points, needs of 2 to 5 | series shorter and longer than each need, a restart with a position |

A second order, client or reading meets what the first left; a third meets
nothing new in these modules, whose state by symbol is a position, a connection
or a candle. What is proved of them (section 4) does not rest on these bounds.

`CHECK_DEADLOCK FALSE` in every run: the process may stop for good (it crashed,
or shut down; a feed is closed, a backtest reports), and the bounds run out.
`Runner.TypeOK` is in no run and is proved. That nothing is untracked under the
calls of the control API at any step is proved too, and checked in `runner` with
the kill of the sentinel file; `runner_kill` is for the liveness.

**Fairness.** The models of the engine, the risk manager, the orders at Angel
One, the paper account, the watchdog, the candles and the evaluation claim safety
only. `Runner` has
`FairSpec`: each goroutine goes on (the ticker ticks, every broker call returns:
HTTP and polling have timeouts), `Run`'s restore happens, and a goroutine that
exits over and over is not refused by the exchange for ever (strong fairness of
`ExitFills`). Without the last no program could flatten; shutdown ends without
it. Nothing makes the operator, the clock, the gate or a stop order act.

`AngelSession`: every caller goes on; a round trip ends at the latest by the
client's timeout, and the tick loop and the poller keep calling. `PriceCache`:
the poller, the tick loop and the clock. `LiveFeed`: main's call goes on once it
is begun, and the feed's goroutine, its writer, heartbeat and closer run; the
network need not fail and nobody need call. `ControlServer`: each client's
handler, writer and reader, and a request that was begun is served. `Backtest`
runs on. All of it is weak fairness of steps that the Go scheduler, a ticker or
a deadline makes happen.

## 4. Proofs

`tlapm` checks every proof to the last leaf, for any number of symbols,
threads, orders, quantities, structures, legs, crashes and faults, under the
named assumptions of the modules, which TLC evaluates on every run: bounds are
naturals, sets that are counted or summed over are finite, charges are naturals,
a trailing stop follows its peak, one goroutine enters (`RiskManager`), and the
contracts of two structures, and the legs of one, differ (`Runner`). The
properties are seldom inductive; what follows says what had to be added and why.

### TradingEngineProofs

    IInv == TypeOK, FreshOK, CallsOK, StagesOK, JournalTruthful, NoLostOrder, OneExitPerSymbol

None of the last three is inductive alone. Resolving an attempt as filled is
truthful only because the call at that stage has seen its order finished
(`StagesOK`: what each stage implies about the attempt and the exchange's
order); that nobody else resolves or sends it needs calls to have different
ids (`CallsOK`), and a fresh id to have no row and no order (`FreshOK`). The
proof has a lemma per kind of step (call step, begin, exchange, crash, start,
restore), and in it one per part of the invariant. Theorems: `TypeCorrect`,
`JournalIsTruthful`, `NoOrderIsLost`, `ExitsExclude`, and `ImplementsJournal`,
that every step is a step of `OrderJournal` or leaves it unchanged.

`BooksAgree` (`ThreeBooksAgree`) speaks of a symbol at rest; `BooksOK` adds what
the books are in between. While an entry waits for the broker the risk manager
has the whole quantity, afterwards what filled (`EntryBooks`); an exit asks for
what the risk manager and the table both have, and until its last stage the row
it was given is open (`ExitBooks`). That takes at most one open row and one call
per symbol, and somebody waiting for every live order, for the symbols that
nothing has marked. `RowsOK` types the rows beyond `TypeOK`.

`PositionsAreDurable` (`RiskIsDurable`): what backs a position is an open row, an
unresolved attempt, or an entry about to write its row. A row that an exit is
about to close and an attempt about to be marked rejected back nothing
(`BackedOK`), which is why taking them away later hurts nobody.

`OnlyMarkedReverse` (`OnlyMarkedOnesReverse`) is what `engine_exit_retry` leaves:
the exchange holds a position on the other side only for a symbol that something
has marked (an unknown outcome, an exit that filled in part or had no row,
overlapping calls, a forced start, a restore that changed something, an alert).
`BooksOK` says so only while the process runs. After a crash an exit may still be
filling; `CoverOK` says that at most one order of a clean symbol is live, and
that what is held covers what it has left to sell.

`RestoreDisturbsClosingOnly` (`RestoreIsHarmless`) is the same for
`engine_restore_twice`: the second restore changes the risk position of a clean
symbol only if an exit of it has filled and not closed its row yet. At every
other stage the row is what the risk manager has.

### RiskManagerProofs

    IInv == Types, CallsOK, BooksOK, StopsOK, KillOK, MoneyOK

`BooksOK` relates positions, rows and the ids of the calls in progress, so that
a correction after a fill meets the position it is for; `StopsOK` is
`StopTracksPeak` for what is held; `KillOK` counts the entries validated before
the kill that may still open, which is why the bound is one per entering
goroutine; `MoneyOK` is the balance identity with what a snapshot being read,
and the one stored, must satisfy (`SnapshotOK`) for a restart to keep it.
Theorems: `BalancesAgree`, `StopsAreTheirOwn`, `KillStopsEntries`, `TypesHold`
(with `FiguresOK` for the rest of the types), and the action property
`StopsOnlyTighten`. Three more rest on it:

- `CapitalIsAccounted`. The total is kept by adding and subtracting; `CapitalOK`
  says that it is the sum of the locks and the drift, and every method changes
  one lock.
- `ThrottleLimits`. Counting entries against timestamps is not inductive, as the
  clock drops timestamps and a roll-back takes the last one, whoever's it is.
  `ThrottleOK` has a map from the entries still in the window to timestamps that
  keeps their order, so the last timestamp can only be that of the last entry.
- `SnapshotKeepsUp`. While the snapshot lags, some call is on its way to write
  one (`CurrentOK`), unless it is known to be stale.

### RunnerProofs

Six layers, two of which are proved together, since what the exchange holds
depends on where each goroutine is:

- *Shape* (`ShapeKept`): types, what a call sequence at each stage has done and
  has left, that no two goroutines close one leg, and that what the loop enters
  is tracked by nobody. Most actions are shown to be of a few kinds (lemma
  `Kinds`: a walk that goes on or begins a call sequence, a step of a call, a
  kill or end, a start, a stop order that fires, the clock), and each later
  layer has a lemma for each kind.
- *Records* (`RecordsAreKept`): a record differs from what is tracked only
  between the write to memory and that to the database.
- *Latches* (`LatchesAreKept`): a latch is set after its structure is tracked and
  reset after it is cleared.
- *Lots* and *days* (`NothingIsUntracked`, `NoEntryIsOverAPosition`). For a
  contract that neither an alert nor a known mishap has marked (with the straddle,
  also for one that is merely alerted), at most one lot is held, what the risk
  manager has is held or on its way, and it is tracked or in the hands of the
  loop (`LotOK`, `EntersOK`, `ExitsOK`, `BookOK`). An entry starts with nothing
  held only because a straddle that has signaled does not signal again that day
  (`LInv`) and an evaluation is of the day it is made on (`DInv`); and a restart,
  which starts with the signal forgotten, restores what is held as tracked only
  because of the lots. So the two are proved together.
- *Types* (`RunnerTyped`). `Shape` types what the other layers need. `KInv` adds
  the bounds, the marks, the days of the latches, and that a leg has the id of
  its row when its order is sent: a stop order is placed only for a leg that was
  numbered.

`NoEntryIsOverAPosition` assumes `Latched`: the six other strategies signal again
while a leftover position is alerted, and the run checks the straddle.

### ServicesProofs, CandlesProofs

These state their theorems about the instances of `Services`. `ServicesProofs`
extends the three other modules about them, and `EveryTypeHolds` collects the
types of all (`TypeOK`).

- *Evaluation* (`Timely`, `SignalsTyped`). `ExitsAreTimely` says nothing of why
  `owed` is small. The invariant ties it to what the strategy still waits for:
  while a short straddle owes an exit, its series of premiums is as long as the
  debt, and a reversal position has the direction it was entered in, unless the
  process ended, so it owes nothing.
- *Watchdog* (`Heard`, action property `Rests`). `silent` is bounded only because
  a stale file is looked at in time. It is zero while the file is fresh, at most
  the time since the last alert within the cooldown of an episode, at most as
  long as the command has run while it runs, and zero after a check unless that
  was within the cooldown. The two clocks since the last restart, the code's and
  the history's, agree.
- *PriceCache* (`StampHonest`, `PriceTyped`). Inductive with the types and what a
  request on its way carries.
- *LiveFeed* (`SubscriptionsArrive`, `FeedTyped`). Who will put a desired symbol
  through depends on when it was asked for, so `SymbolsOK` lists them: while the
  socket is up, it is in the snapshot that the feed is to send, or main's call has
  it and will put it on the current channel (`Calling`), or the server streams it
  once the channel is written (`Promised`: a request for it is queued, or it is
  streamed, and no later frame withdraws it). It is inductive with what a
  connection has at each of its stages (`LinkOK`). `CloseIsNotStuck` rests on
  `ClosersOK`, that a connection not yet closed has its closer and that `Close`
  cancels before it waits: somebody it waits for can always go on (`CloseGoesOn`).
- *ControlServer* (`CapKept`). Between the check and the registration a client is
  counted by nobody. Of those that were alone at the check there is one at most,
  and room for it (`EnteringOK`). `ClientsLeaveNothing`: only attended clients get
  broadcasts, all that are open get them, and a connection that was made has a
  goroutine that can go on until none is left and the socket is closed
  (`NothingIsLeft`). Each of the three ends because of another, and `LeavingOK`
  says which has done so.
- *Backtest* (`DrawdownCovered`). The peak covers the account after every trade
  that a mark has seen, and the drawdown every fall from there (`MarksOK`);
  between two marks at most one trade closes (`TradesOK`). The account after a
  trade is a sum of the trades up to it (`TestTyped`).
- *PaperBroker* (`MoneyIsAccounted`). An order moves one symbol, so both sums
  move by what that symbol's margin and premium do; `HeldOK` says that what has
  no side has no quantity.
- *Candles* (`CandlesAreTheReadings`, `HistoryTyped`). Readings come in the order
  of their intervals, the candle being built is that of the last interval and its
  count that of the last reading. A new reading is one more summand and at most
  a new extreme of its interval, and leaves the other intervals alone.

### AngelBrokerProofs, AngelSessionProofs

An order is one call's alone (`CallOK`, `OwnOrders`), a report seen is what the
order ended with (`SeenOK`), and what a fate says of an order is so (`OrderOK`,
`AnswerOK`). `PauseOK`: the entries that slipped through together with those past
the check are fewer than the goroutines, since the one whose failure opened the
breaker was neither then, and can be counted again only after the pause.
Theorems: `AnswersRelied`, `PauseKept`, `FlipsAdd` (`UpdatePosition` adds signed
quantities through every flip), and `BookIsExplained`: the cached book is the
sum over all orders of the fills heard of, of which each step changes one, and a
restart reads all (`BookOK`). That sum also bounds the book by the lots of all
orders, which is the part of `BrokerTyped` that no step preserves by itself.

`ImplementsContract`: every behaviour of `AngelSession` is one of `ApiCall`. The
invariant `Safe` says that a request has taken no effect while it is out, while
the session is renewed for it, and when it came back refused for its token: that
is why sending it once more is safe. `SessionTyped` has the module's types.

### Sums

The models add up with `SumFunctionOnSet`, which folds over a set in an order it
chooses. That a sum is one summand and the sum of the rest takes an induction on
finite sets. The library's induction theorems have an operator for a parameter,
which the provers cannot instantiate, so `Sums` takes a smallest set that is a
counterexample instead. The facts the other proofs cite: a sum of integers is an
integer, what adding, removing, changing or ignoring a summand does, the sums
of nothing, of zeros and of one, and the bound on a sum of bounded summands.

### Only model-checked

Every invariant and every action property that a passing run checks is a theorem.
Out of the prover's reach, and checked by TLC only: liveness under fairness
(`KillFlattens`, `ShutdownEnds`, `SessionHeals`, `SubscribedStopsDecide`,
`StopReturns`, `FeedRecovers`, `DeadClientsGo`, `ViewsConverge`) and `ENABLED`.
What comes closest to two of them in safety is proved: `CloseGoesOn` says that no
state is stuck that `StopReturns` must leave, and `NothingIsLeft` the same of
`DeadClientsGo`; that the steps are taken is fairness. `OnlyMarkedReverse`,
`RestoreDisturbsClosingOnly`, `CloseGoesOn` and `NothingIsLeft` are stated in the
proof modules and are in no run.
The modules use no recursive operators.

## 5. Not modelled

- Indicators: floating-point functions of a series, without state, which unit
  tests cover. Instrument master and historical data: tables loaded and looked
  up. Prices, strikes, lots and margins: choices of the environment.
- Ledger and CSV lines, alerts' wording, heartbeats' contents: written and never
  read by the program.
- Configuration, discovery, command line, dashboards: read once, or presentation.
- Of the broker: balance and margin queries and instrument tokens, which change
  nothing the modelled parts use. Of the control API: authentication, rate
  limits, configuration and the endpoints that only read. Of the backtest:
  option pricing, charges, loading and sweeps. Of the store: sessions, schema
  and migration. Of the risk manager: the rate card and `CheckRisk`, which reads.
- Broker health: `engine/runner.go:443` logs that new entries are halted, and the
  code only alerts, so there is no state to model.
- The throttle window and the kill switch do not survive a restart; the models
  have it so, and the properties about them speak of one stay of the process.

`PROJECT.json` lists every component with its status, every hazard with the
property that covers it or the reason none does, and for each definition the
lines it models.

## 6. Plan

Done, in this order: `OrderJournal`, `TradingEngine` and its first proofs,
`RiskManager` and its first proofs, `NineTwenty`, `Runner`; then `ApiCall`,
`AngelSession`, `AngelBroker`, `PriceCache`, `LiveFeed`, `PaperBroker`,
`ControlServer`, `Watchdog`, `Candles`, `Backtest`, `Evaluation` and the scenarios
that merge runs; then, with `Sums`, the proofs of every safety invariant that a
run checks; then the safety of `LiveFeed` behind `FeedRecovers`, the goroutines of
a client that leaves, how far exits and restores can go wrong, and all types.

Left: a structure of which a position row was left open (`flattenAll` passes no
row id) against what the runbook says of the next start.

Runs are kept to one per question; scenarios that differ in bounds only share
one.
