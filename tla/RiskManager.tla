---------------------------- MODULE RiskManager ----------------------------
(***************************************************************************)
(* risk.Manager under the calls the trading engine makes on it: balances,  *)
(* capital locked by positions, the entry throttle, stop prices, the kill  *)
(* switch, and the durable snapshot a restart resumes from.                *)
(*                                                                         *)
(* Every method of the manager holds its mutex, so it is one step here.    *)
(* What is not atomic is the sequence of them inside an engine call:       *)
(* PlaceEntryOrder validates, locks the capital, waits for the broker and  *)
(* corrects the lock; both calls end with a snapshot whose figures are     *)
(* read one getter at a time (engine.go:256, 380) before it is written.    *)
(* The journal, the rows and what the exchange holds are TradingEngine's;  *)
(* one row per symbol is enough here.                                      *)
(*                                                                         *)
(* Money is an integer amount.  The rate card and the percentages of the   *)
(* stop prices are the operators Charges, StopAt and TrailAt.              *)
(***************************************************************************)
EXTENDS Integers, Sequences, FiniteSets, Functions

CONSTANTS
    Symbols,          \* tradable option contracts
    Threads,          \* goroutines that may call the engine
    Enterers,         \* those that place entries: the tick loop
    Prices,           \* market prices and fill prices
    Quantities,       \* order quantities; what fills is at most that
    Margins,          \* what the broker may ask for a short option
    Declared,         \* session balances the operator may declare
    MaxOrdersPerMin,  \* throttle: entries in a window
    Window,           \* throttle: its length
    Charges(_, _, _), \* EstimateCharges by price, quantity and side
    StopAt(_, _),     \* calculateStopLossPrice by entry price and side
    TrailAt(_, _),    \* trailing stop by peak price and side
    Horizon,          \* bound: the clock
    MaxEntries,       \* bound: entries that reach OpenPosition
    MaxCrashes,       \* bound: process crashes
    MaxFaults         \* bound: failed snapshot writes and reads

Sides == {"buy", "sell"}
Fills == UNION {1..q : q \in Quantities}
Opposite(side) == IF side = "buy" THEN "sell" ELSE "buy"

ASSUME RiskManagerAssumption ==
    /\ IsFiniteSet(Symbols)
    /\ Enterers \subseteq Threads
    /\ \A t, u \in Enterers : t = u  \* Runner.Run is one goroutine
    /\ Prices \subseteq Nat \ {0}
    /\ Quantities \subseteq Nat \ {0}
    /\ Margins \subseteq Nat \ {0}
    /\ Declared \subseteq Nat \ {0}
    /\ MaxOrdersPerMin \in Nat \ {0}
    /\ Window \in Nat \ {0}
    /\ Horizon \in Nat
    /\ MaxEntries \in Nat
    /\ MaxCrashes \in Nat
    /\ MaxFaults \in Nat
    /\ \A p \in Prices, side \in Sides :
          /\ \A q \in Fills : Charges(p, q, side) \in Nat
          /\ StopAt(p, side) \in Int
          /\ TrailAt(p, side) \in Int

\* A trailing distance is a percentage of the peak: stops follow prices.
ASSUME TrailAssumption ==
    \A p, r \in Prices, side \in Sides : p <= r => TrailAt(p, side) <= TrailAt(r, side)

VARIABLES
    up,                 \* the process runs
    ticking,            \* Runner.Run has started its loop
    now,                \* the clock
    call,               \* each thread's engine call in progress
    InitialBalance,     \* Manager fields of the same names
    CurrentBalance,
    RealizedPnL,
    SessionBalanceUsed,
    OpenPositions,
    orderTimes,         \* the throttle's entry timestamps
    killSwitch,
    rows,               \* durable open position rows
    snapshot,           \* the durable risk_snapshot row
    entries,            \* history: entries that reached OpenPosition
    counted,            \* history: this session's entries that did not fail
    late,               \* history: entries opened after the kill
    drift,              \* history: capital locked for no position
    stale,              \* history: the snapshot missed the last close
    torn,               \* history: a restart resumed from a mixed snapshot
    crashes, faults     \* spent bounds

money == <<InitialBalance, CurrentBalance, RealizedPnL>>
capital == <<SessionBalanceUsed, OpenPositions, drift>>
throttle == <<orderTimes, entries, counted, late>>
durable == <<rows, snapshot>>
history == <<stale, torn>>
bounds == <<crashes, faults>>
vars == <<up, ticking, now, call, money, capital, throttle, killSwitch,
          durable, history, bounds>>

-----------------------------------------------------------------------------
(***************************************************************************)
(* Values.  Id 0 is no position.                                           *)
(***************************************************************************)
NoPosition == [id |-> 0, price |-> 0, qty |-> 0, side |-> "buy", margin |-> 0,
               locked |-> 0, stop |-> 0, peak |-> 0]
Row == [id : 0..MaxEntries, price : Prices \cup {0}, qty : Fills \cup {0}, side : Sides]
NoRow == [id |-> 0, price |-> 0, qty |-> 0, side |-> "buy"]

Snapshot == [saved : BOOLEAN, balance : Int, realized : Int, used : Int, initial : Int,
             mixed : BOOLEAN]
NoSnapshot == [saved |-> FALSE, balance |-> 0, realized |-> 0, used |-> 0, initial |-> 0,
               mixed |-> FALSE]

\* Where a call is.  A snapshot's figures are read in the order of its
\* arguments; mixed (history) says that they moved before it was written.
Stages == {"idle", "open", "sent", "row", "balance", "realized", "gross", "free", "write"}
Saving == {"realized", "gross", "free", "write"}
Call == [at : Stages, kind : {"none", "entry", "exit"}, sym : Symbols \cup {"none"},
         ask : Row, margin : Margins \cup {0}, seen : Snapshot]
Idle == [at |-> "idle", kind |-> "none", sym |-> "none",
         ask |-> NoRow, margin |-> 0, seen |-> NoSnapshot]

Held(s) == OpenPositions[s].id # 0
Locked == SumFunctionOnSet([s \in Symbols |-> OpenPositions[s].locked], Symbols)
Exiting(s) == \E t \in Threads : call[t].kind = "exit" /\ call[t].sym = s

\* Capital a position locks: its margin, or its turnover, and the charges.
Cost(p, q, side, margin) == (IF margin > 0 THEN margin ELSE p * q) + Charges(p, q, side)

\* A position as OpenPosition, RestorePosition and a fill leave it.
PositionOf(id, p, q, side, margin) ==
    [id |-> id, price |-> p, qty |-> q, side |-> side, margin |-> margin,
     locked |-> Cost(p, q, side, margin), stop |-> StopAt(p, side), peak |-> p]

Gain(side, from, to, q) == IF side = "buy" THEN (to - from) * q ELSE (from - to) * q

Init ==
    /\ up = TRUE
    /\ ticking = TRUE
    /\ now = Window
    /\ call = [t \in Threads |-> Idle]
    /\ InitialBalance \in Declared
    /\ CurrentBalance = InitialBalance
    /\ RealizedPnL = 0
    /\ SessionBalanceUsed = 0
    /\ OpenPositions = [s \in Symbols |-> NoPosition]
    /\ orderTimes = <<>>
    /\ killSwitch = FALSE
    /\ rows = [s \in Symbols |-> NoRow]
    /\ snapshot = NoSnapshot
    /\ entries = 0
    /\ counted = [id \in 1..MaxEntries |-> 0]
    /\ late = 0
    /\ drift = 0
    /\ stale = FALSE
    /\ torn = FALSE
    /\ crashes = 0
    /\ faults = 0

-----------------------------------------------------------------------------
At(t, stage, k) ==
    /\ up
    /\ call[t].at = stage
    /\ call[t].kind = k

Goto(t, stage) == call' = [call EXCEPT ![t].at = stage]
Return(t) == call' = [call EXCEPT ![t] = Idle]
Sym(t) == call[t].sym

\* A thread may start a call: the tick loop only once it runs.
Free(t) ==
    /\ up
    /\ t \in Enterers => ticking
    /\ call[t].at = "idle"

\* A snapshot write or read fails, within the bound.
StoreFails ==
    /\ faults < MaxFaults
    /\ faults' = faults + 1
    /\ UNCHANGED crashes

Mixed(c) == [c EXCEPT !.seen = [@ EXCEPT !.mixed = TRUE]]

\* The money moved: the snapshots other calls are reading are mixed, and if
\* to is not "" the call of t moves on to that stage.
MixSnapshots(t, to) ==
    call' = [u \in Threads |->
                IF u = t THEN [call[u] EXCEPT !.at = to]
                ELSE IF call[u].at \in Saving THEN Mixed(call[u])
                ELSE call[u]]

-----------------------------------------------------------------------------
(***************************************************************************)
(* Entries.                                                                *)
(***************************************************************************)
\* ordersInWindowLocked
Recent(time) == time > now - Window
InWindow == Cardinality({i \in DOMAIN orderTimes : Recent(orderTimes[i])})

\* pruneOrderTimesLocked drops the first n timestamps, those that are too old
\* up to the first that is not, before an entry appends its own.
Expired(n) ==
    /\ \A i \in 1..n : ~Recent(orderTimes[i])
    /\ n < Len(orderTimes) => Recent(orderTimes[n + 1])

AppendOrderTime ==
    \E n \in 0..Len(orderTimes) :
        /\ Expired(n)
        /\ orderTimes' = Append(SubSeq(orderTimes, n + 1, Len(orderTimes)), now)

\* validateLocked
Affordable(cost) == cost <= CurrentBalance - SessionBalanceUsed

\* Fault: the throttle allows one entry too many.
ValidateOrderOneMore(t, s, p, q, side, margin) ==
    /\ Free(t)
    /\ t \in Enterers
    /\ entries < MaxEntries
    /\ side = "sell" <=> margin > 0
    /\ ~killSwitch
    /\ InWindow <= MaxOrdersPerMin
    /\ Affordable(Cost(p, q, side, margin))
    /\ call' = [call EXCEPT ![t] =
                   [Idle EXCEPT !.at = "open", !.kind = "entry", !.sym = s, !.margin = margin,
                                !.ask = [id |-> 0, price |-> p, qty |-> q, side |-> side]]]
    /\ UNCHANGED <<up, ticking, now, money, capital, throttle, killSwitch, durable, history, bounds>>

\* Fault: the kill switch is not looked at.
ValidateOrderKilled(t, s, p, q, side, margin) ==
    /\ Free(t)
    /\ t \in Enterers
    /\ entries < MaxEntries
    /\ side = "sell" <=> margin > 0
    /\ InWindow < MaxOrdersPerMin
    /\ Affordable(Cost(p, q, side, margin))
    /\ call' = [call EXCEPT ![t] =
                   [Idle EXCEPT !.at = "open", !.kind = "entry", !.sym = s, !.margin = margin,
                                !.ask = [id |-> 0, price |-> p, qty |-> q, side |-> side]]]
    /\ UNCHANGED <<up, ticking, now, money, capital, throttle, killSwitch, durable, history, bounds>>

\* ValidateOrder, ValidateOrderWithMargin: only a short asks for margin.  A
\* refused order ends the call with nothing changed.
ValidateOrder(t, s, p, q, side, margin) ==
    /\ Free(t)
    /\ t \in Enterers
    /\ entries < MaxEntries
    /\ side = "sell" <=> margin > 0
    /\ ~killSwitch
    /\ InWindow < MaxOrdersPerMin
    /\ Affordable(Cost(p, q, side, margin))
    /\ call' = [call EXCEPT ![t] =
                   [Idle EXCEPT !.at = "open", !.kind = "entry", !.sym = s, !.margin = margin,
                                !.ask = [id |-> 0, price |-> p, qty |-> q, side |-> side]]]
    /\ UNCHANGED <<up, ticking, now, money, capital, throttle, killSwitch, durable, history, bounds>>

\* openPositionLocked, which neither validates again nor releases what a
\* position it overwrites has locked.
OpenPosition(t) ==
    /\ At(t, "open", "entry")
    /\ entries < MaxEntries
    /\ entries' = entries + 1
    /\ LET ask == call[t].ask
           position == PositionOf(entries + 1, ask.price, ask.qty, ask.side, call[t].margin)
       IN  /\ OpenPositions' = [OpenPositions EXCEPT ![Sym(t)] = position]
           /\ SessionBalanceUsed' = SessionBalanceUsed + position.locked
           /\ drift' = drift + OpenPositions[Sym(t)].locked
    /\ AppendOrderTime
    /\ counted' = [counted EXCEPT ![entries + 1] = now]
    /\ late' = IF killSwitch THEN late + 1 ELSE late
    /\ call' = [call EXCEPT ![t].at = "sent", ![t].ask = [@ EXCEPT !.id = entries + 1]]
    /\ UNCHANGED <<up, ticking, now, money, killSwitch, durable, history, bounds>>

\* RollbackPosition: the order failed.  The entry no longer counts, and it is
\* the last one in the window; without a position nothing is undone.
RollbackPosition(t) ==
    /\ At(t, "sent", "entry")
    /\ counted' = [counted EXCEPT ![call[t].ask.id] = 0]
    /\ \/ /\ Held(Sym(t))
          /\ SessionBalanceUsed' = SessionBalanceUsed - OpenPositions[Sym(t)].locked
          /\ OpenPositions' = [OpenPositions EXCEPT ![Sym(t)] = NoPosition]
          /\ orderTimes' = SubSeq(orderTimes, 1, Len(orderTimes) - 1)
       \/ ~Held(Sym(t)) /\ UNCHANGED <<SessionBalanceUsed, OpenPositions, orderTimes>>
    /\ Return(t)
    /\ UNCHANGED <<up, ticking, now, money, drift, entries, late, killSwitch, durable, history, bounds>>

\* Fault: the fill is added to the quantity asked for.
UpdatePositionPriceAdds(t, p, q) ==
    /\ At(t, "sent", "entry")
    /\ LET old == OpenPositions[Sym(t)]
           new == PositionOf(old.id, p, old.qty + q, old.side, old.margin)
       IN  \/ /\ Held(Sym(t))
              /\ OpenPositions' = [OpenPositions EXCEPT ![Sym(t)] = new]
              /\ SessionBalanceUsed' = SessionBalanceUsed + new.locked - old.locked
           \/ ~Held(Sym(t)) /\ UNCHANGED <<OpenPositions, SessionBalanceUsed>>
    /\ call' = [call EXCEPT ![t].at = "row",
                               ![t].ask = [@ EXCEPT !.price = p, !.qty = q]]
    /\ UNCHANGED <<up, ticking, now, money, drift, throttle, killSwitch, durable, history, bounds>>

\* Fault: the lock is not corrected.
UpdatePositionPriceKeepsLock(t, p, q) ==
    /\ At(t, "sent", "entry")
    /\ LET old == OpenPositions[Sym(t)]
           new == PositionOf(old.id, p, q, old.side, old.margin)
       IN  \/ /\ Held(Sym(t))
              /\ OpenPositions' = [OpenPositions EXCEPT ![Sym(t)] = new]
              /\ UNCHANGED SessionBalanceUsed
           \/ ~Held(Sym(t)) /\ UNCHANGED <<OpenPositions, SessionBalanceUsed>>
    /\ call' = [call EXCEPT ![t].at = "row",
                               ![t].ask = [@ EXCEPT !.price = p, !.qty = q]]
    /\ UNCHANGED <<up, ticking, now, money, drift, throttle, killSwitch, durable, history, bounds>>

\* Fault: the peak stays at the price asked for.
UpdatePositionPriceKeepsPeak(t, p, q) ==
    /\ At(t, "sent", "entry")
    /\ LET old == OpenPositions[Sym(t)]
           new == [PositionOf(old.id, p, q, old.side, old.margin) EXCEPT !.peak = old.peak]
       IN  \/ /\ Held(Sym(t))
              /\ OpenPositions' = [OpenPositions EXCEPT ![Sym(t)] = new]
              /\ SessionBalanceUsed' = SessionBalanceUsed + new.locked - old.locked
           \/ ~Held(Sym(t)) /\ UNCHANGED <<OpenPositions, SessionBalanceUsed>>
    /\ call' = [call EXCEPT ![t].at = "row",
                               ![t].ask = [@ EXCEPT !.price = p, !.qty = q]]
    /\ UNCHANGED <<up, ticking, now, money, drift, throttle, killSwitch, durable, history, bounds>>

\* UpdatePositionPrice with what filled: the whole position is figured again.
UpdatePositionPrice(t, p, q) ==
    /\ At(t, "sent", "entry")
    /\ LET old == OpenPositions[Sym(t)]
           new == PositionOf(old.id, p, q, old.side, old.margin)
       IN  \/ /\ Held(Sym(t))
              /\ OpenPositions' = [OpenPositions EXCEPT ![Sym(t)] = new]
              /\ SessionBalanceUsed' = SessionBalanceUsed + new.locked - old.locked
           \/ ~Held(Sym(t)) /\ UNCHANGED <<OpenPositions, SessionBalanceUsed>>
    /\ call' = [call EXCEPT ![t].at = "row",
                               ![t].ask = [@ EXCEPT !.price = p, !.qty = q]]
    /\ UNCHANGED <<up, ticking, now, money, drift, throttle, killSwitch, durable, history, bounds>>

-----------------------------------------------------------------------------
(***************************************************************************)
(* Exits.  TradingEngine.exitInFlight lets one exit of a symbol run.       *)
(***************************************************************************)
BeginExit(t, s) ==
    /\ Free(t)
    /\ Held(s)
    /\ ~Exiting(s)
    /\ call' = [call EXCEPT ![t] = [Idle EXCEPT !.at = "sent", !.kind = "exit", !.sym = s]]
    /\ UNCHANGED <<up, ticking, now, money, capital, throttle, killSwitch, durable, history, bounds>>

\* The broker's error ends the call: an exit keeps its position, and an entry
\* whose outcome is indeterminate keeps its optimistic one.
OrderFails(t) ==
    /\ up
    /\ call[t].at = "sent"
    /\ Return(t)
    /\ UNCHANGED <<up, ticking, now, money, capital, throttle, killSwitch, durable, history, bounds>>

\* ClosePosition at the fill price: releases the lock and realizes the net
\* result.  A position that is gone is alerted and the call goes on.
NetPnL(position, p) ==
    Gain(position.side, position.price, p, position.qty)
        - Charges(position.price, position.qty, position.side)
        - Charges(p, position.qty, Opposite(position.side))

ClosePosition(t, p) ==
    /\ At(t, "sent", "exit")
    /\ \/ /\ Held(Sym(t))
          /\ LET net == NetPnL(OpenPositions[Sym(t)], p)
             IN  /\ CurrentBalance' = CurrentBalance + net
                 /\ RealizedPnL' = RealizedPnL + net
          /\ SessionBalanceUsed' = SessionBalanceUsed - OpenPositions[Sym(t)].locked
          /\ OpenPositions' = [OpenPositions EXCEPT ![Sym(t)] = NoPosition]
          /\ MixSnapshots(t, "row")
       \/ ~Held(Sym(t)) /\ Goto(t, "row") /\ UNCHANGED <<money, capital>>
    /\ UNCHANGED <<up, ticking, now, InitialBalance, drift, throttle, killSwitch, durable, history, bounds>>

-----------------------------------------------------------------------------
(***************************************************************************)
(* The end of both calls: the row, then the snapshot.                      *)
(***************************************************************************)
\* Fault: an exit does not save a snapshot.
SaveRowLast(t) ==
    /\ up
    /\ call[t].at = "row"
    /\ rows' = [rows EXCEPT ![Sym(t)] = IF call[t].kind = "entry" THEN call[t].ask ELSE NoRow]
    /\ IF call[t].kind = "entry" THEN Goto(t, "balance") ELSE Return(t)
    /\ UNCHANGED <<up, ticking, now, money, capital, throttle, killSwitch, snapshot, history, bounds>>

\* SavePosition or state.ClosePosition.
SaveRow(t) ==
    /\ up
    /\ call[t].at = "row"
    /\ rows' = [rows EXCEPT ![Sym(t)] = IF call[t].kind = "entry" THEN call[t].ask ELSE NoRow]
    /\ Goto(t, "balance")
    /\ UNCHANGED <<up, ticking, now, money, capital, throttle, killSwitch, snapshot, history, bounds>>

\* The getters, in the order the arguments are evaluated.
Read(t, stage, next, seen) ==
    /\ up
    /\ call[t].at = stage
    /\ call' = [call EXCEPT ![t].at = next, ![t].seen = seen]
    /\ UNCHANGED <<up, ticking, now, money, capital, throttle, killSwitch, durable, history, bounds>>

Seen(t) == call[t].seen
ReadBalance(t) ==
    Read(t, "balance", "realized", [Seen(t) EXCEPT !.balance = CurrentBalance])
ReadRealized(t) ==
    Read(t, "realized", "gross", [Seen(t) EXCEPT !.realized = RealizedPnL])
\* GetCurrentBalance() - GetRemainingBalance() takes the mutex twice.
ReadGross(t) ==
    Read(t, "gross", "free", [Seen(t) EXCEPT !.used = CurrentBalance])
ReadFree(t) ==
    Read(t, "free", "write", [Seen(t) EXCEPT !.used = @ - (CurrentBalance - SessionBalanceUsed)])

\* SaveRiskSnapshot; its error is dropped.
SaveRiskSnapshot(t) ==
    /\ up
    /\ call[t].at = "write"
    /\ \/ /\ snapshot' = [call[t].seen EXCEPT !.saved = TRUE, !.initial = InitialBalance]
          /\ stale' = call[t].seen.mixed
          /\ UNCHANGED bounds
       \/ StoreFails /\ stale' = TRUE /\ UNCHANGED snapshot
    /\ Return(t)
    /\ UNCHANGED <<up, ticking, now, money, capital, throttle, killSwitch, rows, torn>>

-----------------------------------------------------------------------------
(***************************************************************************)
(* Ticks, the kill switch and the clock.                                   *)
(***************************************************************************)
Tighter(side, a, b) ==
    IF side = "buy" THEN IF a >= b THEN a ELSE b
                    ELSE IF a <= b THEN a ELSE b
Better(side, p, r) == IF side = "buy" THEN p > r ELSE p < r

\* Fault: the stop follows the price even when that loosens it.
CheckStopFollows(s, p) ==
    /\ \E t \in Enterers : Free(t)
    /\ Held(s)
    /\ Better(OpenPositions[s].side, p, OpenPositions[s].peak)
    /\ OpenPositions' = [OpenPositions EXCEPT
           ![s].peak = p,
           ![s].stop = TrailAt(p, OpenPositions[s].side)]
    /\ UNCHANGED <<up, ticking, now, call, money, SessionBalanceUsed, drift, throttle,
                   killSwitch, durable, history, bounds>>

\* ShouldTriggerStopLoss with updateTrailingStop, by the tick loop between
\* its calls.  What it triggers is an exit like any other.
CheckStop(s, p) ==
    /\ \E t \in Enterers : Free(t)
    /\ Held(s)
    /\ Better(OpenPositions[s].side, p, OpenPositions[s].peak)
    /\ OpenPositions' = [OpenPositions EXCEPT
           ![s].peak = p,
           ![s].stop = Tighter(OpenPositions[s].side, @, TrailAt(p, OpenPositions[s].side))]
    /\ UNCHANGED <<up, ticking, now, call, money, SessionBalanceUsed, drift, throttle,
                   killSwitch, durable, history, bounds>>

\* By the API's handler, or the tick loop that finds the sentinel file.
TriggerKillSwitch ==
    /\ \E t \in Threads : Free(t)
    /\ ~killSwitch
    /\ killSwitch' = TRUE
    /\ UNCHANGED <<up, ticking, now, call, money, capital, throttle, durable, history, bounds>>

Advance ==
    /\ now < Horizon
    /\ now' = now + 1
    /\ UNCHANGED <<up, ticking, call, money, capital, throttle, killSwitch, durable, history, bounds>>

-----------------------------------------------------------------------------
(***************************************************************************)
(* Crash and start.                                                        *)
(***************************************************************************)
\* A fresh manager: NewManager with the declared balance.
Crash ==
    /\ up
    /\ crashes < MaxCrashes
    /\ crashes' = crashes + 1
    /\ up' = FALSE
    /\ ticking' = FALSE
    /\ call' = [t \in Threads |-> Idle]
    /\ InitialBalance' \in Declared
    /\ CurrentBalance' = InitialBalance'
    /\ RealizedPnL' = 0
    /\ SessionBalanceUsed' = 0
    /\ OpenPositions' = [s \in Symbols |-> NoPosition]
    /\ drift' = 0
    /\ orderTimes' = <<>>
    /\ killSwitch' = FALSE
    /\ counted' = [id \in 1..MaxEntries |-> 0]
    /\ late' = 0
    /\ UNCHANGED <<now, entries, durable, history, faults>>

\* RestorePosition for every open row: it forgets the margin and how far the
\* stop had trailed.
RestorePositions ==
    OpenPositions' = [s \in Symbols |->
        IF rows[s].id = 0 THEN OpenPositions[s]
        ELSE PositionOf(rows[s].id, rows[s].price, rows[s].qty, rows[s].side, 0)]

\* Fault: the declared balance stays the initial one.
RestoreSnapshotDeclared ==
    \/ /\ snapshot.saved
       /\ CurrentBalance' = snapshot.balance
       /\ RealizedPnL' = snapshot.realized
       /\ SessionBalanceUsed' = snapshot.used
       /\ UNCHANGED InitialBalance
       /\ torn' = (torn \/ snapshot.mixed)
       /\ stale' = FALSE
    \/ ~snapshot.saved /\ UNCHANGED <<money, SessionBalanceUsed, history>>

RestoreSnapshot ==
    \/ /\ snapshot.saved
       /\ CurrentBalance' = snapshot.balance
       /\ RealizedPnL' = snapshot.realized
       /\ SessionBalanceUsed' = snapshot.used
       /\ InitialBalance' = IF snapshot.initial > 0 THEN snapshot.initial ELSE InitialBalance
       /\ torn' = (torn \/ snapshot.mixed)
       /\ stale' = FALSE
    \/ ~snapshot.saved /\ UNCHANGED <<money, SessionBalanceUsed, history>>

\* RestoreState: rows or a snapshot that cannot be read are skipped.
RestoreState ==
    /\ \/ RestorePositions /\ RestoreSnapshot /\ UNCHANGED bounds
       \/ StoreFails /\ RestoreSnapshot /\ UNCHANGED OpenPositions
       \/ /\ StoreFails /\ RestorePositions
          /\ stale' = (stale \/ snapshot.saved)
          /\ UNCHANGED <<money, SessionBalanceUsed, torn>>
    /\ drift' = SessionBalanceUsed' - Locked'

Start ==
    /\ ~up
    /\ up' = TRUE
    /\ RestoreState
    /\ UNCHANGED <<ticking, now, call, throttle, killSwitch, durable>>

\* Runner.Run restores again before its loop, with the control API served.
RestoreAgain ==
    /\ up
    /\ ~ticking
    /\ ticking' = TRUE
    /\ RestoreState
    /\ call' = [t \in Threads |->
                   IF call[t].at \in Saving THEN Mixed(call[t])
                   ELSE call[t]]
    /\ UNCHANGED <<up, now, throttle, killSwitch, durable>>

-----------------------------------------------------------------------------
EntryStep(t) ==
    \/ OpenPosition(t) \/ RollbackPosition(t)
    \/ \E p \in Prices, q \in 1..call[t].ask.qty : UpdatePositionPrice(t, p, q)

ExitStep(t) == \E p \in Prices : ClosePosition(t, p)

SaveStep(t) ==
    \/ SaveRow(t)
    \/ ReadBalance(t) \/ ReadRealized(t) \/ ReadGross(t) \/ ReadFree(t)
    \/ SaveRiskSnapshot(t)

CallStep(t) == EntryStep(t) \/ ExitStep(t) \/ OrderFails(t) \/ SaveStep(t)

Begin(t) ==
    \E s \in Symbols :
        \/ \E p \in Prices, q \in Quantities, side \in Sides, margin \in Margins \cup {0} :
              ValidateOrder(t, s, p, q, side, margin)
        \/ BeginExit(t, s)

Next ==
    \/ \E t \in Threads : Begin(t) \/ CallStep(t)
    \/ \E s \in Symbols, p \in Prices : CheckStop(s, p)
    \/ TriggerKillSwitch
    \/ Advance
    \/ Crash
    \/ Start
    \/ RestoreAgain

Spec == Init /\ [][Next]_vars

-----------------------------------------------------------------------------
Position == [id : 0..MaxEntries, price : Prices \cup {0}, qty : Fills \cup {0},
             side : Sides, margin : Margins \cup {0}, locked : Int, stop : Int,
             peak : Prices \cup {0}]

\* Calls, positions and the figures have their types; drift is an integer by
\* CapitalAccounted.
TypeOK ==
    /\ up \in BOOLEAN
    /\ ticking \in BOOLEAN
    /\ now \in Nat
    /\ call \in [Threads -> Call]
    /\ InitialBalance \in Int
    /\ CurrentBalance \in Int
    /\ RealizedPnL \in Int
    /\ SessionBalanceUsed \in Int
    /\ OpenPositions \in [Symbols -> Position]
    /\ orderTimes \in Seq(Nat)
    /\ killSwitch \in BOOLEAN
    /\ rows \in [Symbols -> Row]
    /\ snapshot \in Snapshot
    /\ entries \in 0..MaxEntries
    /\ counted \in [1..MaxEntries -> Nat]
    /\ late \in Nat
    /\ stale \in BOOLEAN
    /\ torn \in BOOLEAN
    /\ crashes \in 0..MaxCrashes
    /\ faults \in 0..MaxFaults

(***************************************************************************)
(* SessionBalanceUsed is the capital the open positions lock, through      *)
(* partial fills at another price, rollbacks and exits by another thread.  *)
(* drift is what it is off by: an entry over an open position loses the    *)
(* old lock, and a restart brings back the snapshot's total but not the    *)
(* positions' margins.                                                     *)
(***************************************************************************)
CapitalAccounted == SessionBalanceUsed = Locked + drift

(***************************************************************************)
(* risk.go:322: the current balance is the initial one plus the realized   *)
(* P&L, which is what the drawdown limit is measured on.  It holds across  *)
(* restarts too, unless one resumed from a snapshot whose figures were     *)
(* read while another call closed a position.                              *)
(***************************************************************************)
BalanceIdentity == ~torn => CurrentBalance = InitialBalance + RealizedPnL

(***************************************************************************)
(* At rest the durable snapshot has the manager's balances, so a crash     *)
(* there loses no profit or loss: the last call to write it had read them  *)
(* after every close.  Exceptions (stale): a close among its reads, a      *)
(* write or a read that failed.                                            *)
(***************************************************************************)
Resting == up /\ \A t \in Threads : call[t].at = "idle"

SnapshotCurrent ==
    Resting /\ ~stale =>
        IF snapshot.saved
        THEN <<snapshot.initial, snapshot.balance, snapshot.realized>> = money
        ELSE CurrentBalance = InitialBalance /\ RealizedPnL = 0

(***************************************************************************)
(* Within a session no window holds more entries than the limit, a failed  *)
(* entry not counting: a rollback takes the timestamp of its own entry     *)
(* out, never of another, although it just drops the last one.             *)
(***************************************************************************)
ThrottleHolds ==
    Cardinality({id \in 1..MaxEntries : counted[id] > now - Window}) <= MaxOrdersPerMin

(***************************************************************************)
(* Validating and opening are two critical sections, so the kill switch    *)
(* can fall between them.  After it only the entry that each entering      *)
(* thread had already validated still opens, in that session.              *)
(***************************************************************************)
EntriesStopAtKill == late <= Cardinality(Enterers)

(***************************************************************************)
(* A position's stop is where its own fill price and best price put it,    *)
(* the tighter of the two: it carries nothing over from the price asked    *)
(* for, from an earlier position, or from a worse peak.                    *)
(***************************************************************************)
StopOf(position) ==
    IF position.peak = position.price
    THEN StopAt(position.price, position.side)
    ELSE Tighter(position.side, StopAt(position.price, position.side),
                                TrailAt(position.peak, position.side))

StopTracksPeak == \A s \in Symbols : Held(s) => OpenPositions[s].stop = StopOf(OpenPositions[s])

(***************************************************************************)
(* The stop of one position at one entry price never moves away from the   *)
(* market, whoever restores or updates it (a restart after a crash makes   *)
(* a new one, with the trail forgotten).                                   *)
(***************************************************************************)
StopNeverLoosens ==
    [][\A s \in Symbols :
          LET old == OpenPositions[s]
              new == OpenPositions'[s]
          IN  old.id # 0 /\ new.id = old.id /\ new.price = old.price
              => new.stop = Tighter(old.side, old.stop, new.stop)]_vars

(***************************************************************************)
(* models/trade.go:102-104 calls the snapshot a point-in-time view of the  *)
(* risk manager, so its balance would be its initial balance plus its      *)
(* realized P&L.  It need not be: its figures are read under separate      *)
(* locks, and an exit by the other thread can close a position among them. *)
(***************************************************************************)
SnapshotIsOneMoment == snapshot.saved => snapshot.balance = snapshot.initial + snapshot.realized

=============================================================================
