------------------------------- MODULE Runner -------------------------------
(***************************************************************************)
(* engine.Runner: the tick loop that enters, watches and exits structures  *)
(* of option legs, the kill hook that flattens from the control API's      *)
(* goroutine, shutdown, and what a restart finds.                          *)
(*                                                                         *)
(* Two goroutines walk the same books.  A walk is an agenda of jobs        *)
(* (flatten, stops, evaluate, verify), and each job works through          *)
(* structures and then through contracts, one engine call at a time.  An   *)
(* engine call is here what its caller can see of it: an entry validates,  *)
(* opens its position and is answered; an exit claims its symbol and is    *)
(* answered.  TradingEngine has the calls in full, so one lot per          *)
(* contract is enough: partial fills and failed rows are its own.          *)
(***************************************************************************)
EXTENDS NineTwenty, SequencesExt, FiniteSets

CONSTANTS
    Underlyings,   \* cfg.Symbols
    Contracts,     \* option contracts
    LegsOf,        \* an underlying's legs, in the order they are placed
    Latched,       \* the strategy is the 9:20 straddle; others keep no state
    BrokerStops,   \* the broker is an ExtendedTradeService
    MaxEntries,    \* bound: entry orders
    MaxHooks,      \* bound: calls of the control API's hooks
    MaxUnknown,    \* bound: indeterminate outcomes
    MaxRestarts,   \* bound: starts after the first
    MaxFaults      \* bound: failed state writes and reads

ASSUME RunnerAssumption ==
    /\ LegsOf \in [Underlyings -> Seq(Contracts) \ {<<>>}]
    /\ \A u \in Underlyings : \A i, j \in DOMAIN LegsOf[u] :
          LegsOf[u][i] = LegsOf[u][j] => i = j
    /\ \A u, v \in Underlyings : u # v => ToSet(LegsOf[u]) \cap ToSet(LegsOf[v]) = {}
    /\ Latched \in BOOLEAN
    /\ BrokerStops \in BOOLEAN
    /\ MaxEntries \in Nat
    /\ MaxHooks \in Nat
    /\ MaxUnknown \in Nat
    /\ MaxRestarts \in Nat
    /\ MaxFaults \in Nat

Threads == {"loop", "api"}

VARIABLES
    process,       \* "running", "crashed", or how Shutdown ended: "clean", "dirty"
    ticking,       \* Run has started its loop
    now,           \* the instant
    task,          \* what each goroutine is doing
    killSwitch,    \* risk.Manager's flag
    paused,        \* Runner.paused
    attempt,       \* Shutdown's attempt, 0 before the signal
    book,          \* contracts with a position in the risk manager
    exitInFlight,  \* TradingEngine.exitInFlight
    open,          \* Runner.open: legs by underlying, empty for none
    latch,         \* the strategy's latches by underlying
    rows,          \* durable open position rows: contract and id
    legsRec,       \* durable "legs:" records
    stratRec,      \* durable "strat:" records
    unresolved,    \* contracts with an indeterminate order attempt (durable)
    held,          \* exchange: net lots in the entry's direction
    reported,      \* broker client: the same from the fills it reported
    stops,         \* exchange: resting stop orders, by contract and entry id
    alerted,       \* history: contracts in a flatten_failure or indeterminate alert
    excused,       \* history: contracts whose books are known to be off
    entries, hooks, unknown, restarts, faults  \* spent bounds

control == <<killSwitch, paused, attempt>>
memory == <<book, exitInFlight, open, latch>>
durable == <<rows, legsRec, stratRec, unresolved>>
exchange == <<held, reported, stops>>
history == <<alerted, excused>>
bounds == <<entries, hooks, unknown, restarts, faults>>
vars == <<process, ticking, now, task, control, memory, durable, exchange, history, bounds>>

-----------------------------------------------------------------------------
(***************************************************************************)
(* Values.  A leg's row is the id of its position row, 0 if not known.     *)
(***************************************************************************)
Leg == [sym : Contracts, row : 0..MaxEntries, stop : BOOLEAN]
Ticket == [sym : Contracts, row : 1..MaxEntries]
Jobs == {"market", "flatten", "stops", "evaluate", "verify"}

\* part: how far the head of the agenda is; us, cs: the structures and the
\* contracts it has left, cs while the stops are checked those it covered;
\* act and at: the call sequence under way and its stage; time and allowed:
\* the tick's instant and its entriesAllowed.
Task == [agenda : Seq(Jobs), part : {"structures", "contracts"},
         us : SUBSET Underlyings, cs : SUBSET Contracts,
         act : {"none", "enter", "unwind", "exit", "single"},
         at : {"ready", "open", "sent", "record", "confirm"},
         u : Underlyings \cup {"none"}, legs : Seq(Leg), done : Seq(Leg), ok : BOOLEAN,
         time : Instants, allowed : BOOLEAN]

Idle == [agenda |-> <<>>, part |-> "structures", us |-> {}, cs |-> {}, act |-> "none",
         at |-> "ready", u |-> "none", legs |-> <<>>, done |-> <<>>, ok |-> TRUE,
         time |-> 0, allowed |-> FALSE]

Untracked(c) == [sym |-> c, row |-> 0, stop |-> FALSE]
SymsOf(legs) == [i \in DOMAIN legs |-> legs[i].sym]

Tracked == {u \in Underlyings : open[u] # <<>>}
TrackedContracts == UNION {ToSet(SymsOf(open[u])) : u \in Underlyings}
RowsOf(c) == {r \in rows : r.sym = c}

\* A first start: no table, nothing held.
FirstStart ==
    /\ process = "running"
    /\ ticking = TRUE
    /\ now = 0
    /\ task = [t \in Threads |-> Idle]
    /\ killSwitch = FALSE
    /\ paused = FALSE
    /\ attempt = 0
    /\ book = {}
    /\ exitInFlight = {}
    /\ open = [u \in Underlyings |-> <<>>]
    /\ latch = [u \in Underlyings |-> NoLatch]
    /\ rows = {}
    /\ legsRec = [u \in Underlyings |-> <<>>]
    /\ stratRec = [u \in Underlyings |-> NoLatch]
    /\ unresolved = {}
    /\ held = [c \in Contracts |-> 0]
    /\ reported = [c \in Contracts |-> 0]
    /\ stops = {}
    /\ alerted = {}
    /\ excused = {}
    /\ entries = 0
    /\ hooks = 0

Init ==
    /\ FirstStart
    /\ unknown = 0
    /\ restarts = 0
    /\ faults = 0

-----------------------------------------------------------------------------
(***************************************************************************)
(* Walking.                                                                *)
(***************************************************************************)
Running == process = "running"
Free(t) == Running /\ task[t] = Idle

\* The job at hand, between two call sequences.
On(t, job, part) ==
    /\ Running
    /\ task[t].act = "none"
    /\ task[t].agenda # <<>>
    /\ Head(task[t].agenda) = job
    /\ task[t].part = part

\* The call sequence at hand, with a leg to work on or none left.
In(t, acts, stage) ==
    /\ Running
    /\ task[t].act \in acts
    /\ task[t].at = stage

Leg1(t) == Head(task[t].legs)
Sym(t) == Leg1(t).sym

Put(t, new) == task' = [task EXCEPT ![t] = new]

\* marketState at the instant that the rest of the tick uses: a square-off
\* flattens, on every tick of it.
AtMarket(k) ==
    [k EXCEPT !.time = now,
              !.allowed = @ /\ Part(now) \in {"window", "session", "late"},
              !.agenda = IF Part(now) = "square-off" THEN <<"flatten", "stops", "evaluate">>
                         ELSE <<"stops", "evaluate">>]

\* A job starts with the structures tracked now, and with the stops the
\* entries are allowed or not.
Started(k) ==
    LET job == Head(k.agenda)
    IN  [k EXCEPT !.part = "structures", !.cs = {},
                  !.us = IF job = "evaluate" THEN Underlyings ELSE Tracked,
                  !.allowed = @ /\ (job = "stops" => ~paused)]

\* The task goes on with the next job, and is idle after the last.
After(k) ==
    LET rest == Tail(k.agenda)
    IN  IF rest = <<>> THEN Idle
        ELSE IF Head(rest) = "market" THEN Started(AtMarket(k))
        ELSE Started([k EXCEPT !.agenda = rest])

Begin(k, act, u, legs) ==
    [k EXCEPT !.act = act, !.at = "ready", !.u = u, !.legs = legs, !.done = <<>>, !.ok = TRUE]

\* The call sequence ends.
Ended(k) == [k EXCEPT !.act = "none", !.at = "ready", !.u = "none", !.legs = <<>>,
                      !.done = <<>>, !.ok = TRUE]

NextLeg(k, ok) == [k EXCEPT !.legs = Tail(@), !.at = "ready", !.ok = @ /\ ok]

\* The broker's answer is indeterminate, within the bound.
Unknown ==
    /\ unknown < MaxUnknown
    /\ unknown' = unknown + 1
    /\ UNCHANGED <<entries, hooks, restarts, faults>>

StoreFails ==
    /\ faults < MaxFaults
    /\ faults' = faults + 1
    /\ UNCHANGED <<entries, hooks, unknown, restarts>>

-----------------------------------------------------------------------------
(***************************************************************************)
(* The tick loop.                                                          *)
(***************************************************************************)
\* tick: the sentinel file, then CheckRisk.  A kill or a drawdown pauses the
\* runner and flattens, on every tick.
Tick ==
    /\ Free("loop")
    /\ ticking
    /\ attempt = 0
    /\ killSwitch' \in {killSwitch, TRUE}
    /\ \E breached \in BOOLEAN :
          /\ killSwitch' => breached
          /\ paused' = (paused \/ breached)
          /\ Put("loop", IF breached THEN Started([Idle EXCEPT !.agenda = <<"flatten", "market">>])
                          ELSE Started(AtMarket([Idle EXCEPT !.allowed = TRUE])))
    /\ UNCHANGED <<process, ticking, now, attempt, memory, durable, exchange, history, bounds>>

\* softStopLossCheck.
\* No leg of u is at its stop, or the first that is has the structure closed;
\* the legs after it are not looked at.
WatchStructure(u) ==
    LET k == task["loop"]
        seen(n) == [k EXCEPT !.us = @ \ {u}, !.cs = @ \cup ToSet(SymsOf(SubSeq(open[u], 1, n)))]
    IN  /\ On("loop", "stops", "structures")
        /\ u \in k.us
        /\ \/ Put("loop", seen(Len(open[u])))
           \/ \E n \in DOMAIN open[u] :
                 /\ open[u][n].sym \in book
                 /\ Put("loop", Begin(seen(n), "exit", u, open[u]))
        /\ UNCHANGED <<process, ticking, now, control, memory, durable, exchange, history, bounds>>

\* Then what the risk manager holds and no structure covered.
WatchRest ==
    /\ On("loop", "stops", "structures")
    /\ task["loop"].us = {}
    /\ LET rest == book \ task["loop"].cs
       IN  Put("loop", IF rest = {} THEN After(task["loop"])
                       ELSE [task["loop"] EXCEPT !.part = "contracts", !.cs = rest])
    /\ UNCHANGED <<process, ticking, now, control, memory, durable, exchange, history, bounds>>

WatchContract(c) ==
    LET k == [task["loop"] EXCEPT !.cs = @ \ {c}]
    IN  /\ On("loop", "stops", "contracts")
        /\ c \in task["loop"].cs
        /\ \/ Put("loop", k)
           \/ c \in book /\ Put("loop", Begin(k, "single", "none", <<Untracked(c)>>))
        /\ UNCHANGED <<process, ticking, now, control, memory, durable, exchange, history, bounds>>

\* evaluateSymbol: what Evaluate signals and what the runner does with it.  An
\* entry is skipped when it is not allowed or when its strikes, lots or margin
\* cannot be had; the strategy does not learn of it.
Evaluate(u) ==
    LET k == [task["loop"] EXCEPT !.us = @ \ {u}]
        l == Today(latch[u], k.time)
        hasPosition == open[u] # <<>>
        enters == IF Latched THEN SignalsEntry(l, hasPosition, k.time) ELSE ~hasPosition
        exits == IF Latched THEN \E stopHit \in BOOLEAN : SignalsExit(l, hasPosition, k.time, stopHit)
                 ELSE hasPosition
        holds == ~Latched \/ ~(enters \/ SignalsExit(l, hasPosition, k.time, FALSE))
        learn(new) == latch' = IF Latched THEN [latch EXCEPT ![u] = new] ELSE latch
    IN  /\ On("loop", "evaluate", "structures")
        /\ u \in task["loop"].us
        /\ \/ Put("loop", k) /\ UNCHANGED latch     \* no price, too little history
           \/ holds /\ Put("loop", k) /\ learn(l)
           \/ /\ enters
              /\ learn(EntrySignaled(l))
              /\ \/ Put("loop", k)
                 \/ k.allowed /\ Put("loop", Begin(k, "enter", u,
                        [i \in DOMAIN LegsOf[u] |-> Untracked(LegsOf[u][i])]))
           \/ /\ exits
              /\ learn(ExitSignaled(l))
              /\ Put("loop", IF hasPosition THEN Begin(k, "exit", u, open[u]) ELSE k)
        /\ UNCHANGED <<process, ticking, now, control, book, exitInFlight, open, durable,
                       exchange, history, bounds>>

-----------------------------------------------------------------------------
(***************************************************************************)
(* Flattening, by either goroutine.                                        *)
(***************************************************************************)
FlattenStructure(t, u) ==
    LET k == [task[t] EXCEPT !.us = @ \ {u}]
    IN  /\ On(t, "flatten", "structures")
        /\ u \in task[t].us
        /\ Put(t, IF open[u] = <<>> THEN k ELSE Begin(k, "exit", u, open[u]))
        /\ UNCHANGED <<process, ticking, now, control, memory, durable, exchange, history, bounds>>

\* Fault: only what a structure tracks is closed.
FlattenRestForgotten(t) ==
    /\ On(t, "flatten", "structures")
    /\ task[t].us = {}
    /\ Put(t, After(task[t]))
    /\ UNCHANGED <<process, ticking, now, control, memory, durable, exchange, history, bounds>>

\* Fail-closed: then whatever the risk manager still knows of.
FlattenRest(t) ==
    /\ On(t, "flatten", "structures")
    /\ task[t].us = {}
    /\ Put(t, IF book = {} THEN After(task[t])
              ELSE [task[t] EXCEPT !.part = "contracts", !.cs = book])
    /\ UNCHANGED <<process, ticking, now, control, memory, durable, exchange, history, bounds>>

FlattenContract(t, c) ==
    /\ On(t, "flatten", "contracts")
    /\ c \in task[t].cs
    /\ Put(t, Begin([task[t] EXCEPT !.cs = @ \ {c}], "single", "none", <<Untracked(c)>>))
    /\ UNCHANGED <<process, ticking, now, control, memory, durable, exchange, history, bounds>>

\* The head of the agenda is through.
NextJob(t) ==
    /\ \/ \E job \in {"stops", "flatten"} : On(t, job, "contracts") /\ task[t].cs = {}
       \/ On(t, "evaluate", "structures") /\ task[t].us = {}
    /\ Put(t, After(task[t]))
    /\ UNCHANGED <<process, ticking, now, control, memory, durable, exchange, history, bounds>>

-----------------------------------------------------------------------------
(***************************************************************************)
(* The control API's hooks.                                                *)
(***************************************************************************)
Called ==
    /\ Free("api")
    /\ hooks < MaxHooks
    /\ hooks' = hooks + 1
    /\ UNCHANGED <<entries, unknown, restarts, faults>>

KillAndFlatten ==
    /\ Called
    /\ killSwitch' = TRUE
    /\ Put("api", Started([Idle EXCEPT !.agenda = <<"flatten">>]))
    /\ UNCHANGED <<process, ticking, now, paused, attempt, memory, durable, exchange, history>>

Pause ==
    /\ Called
    /\ paused' = TRUE
    /\ UNCHANGED <<process, ticking, now, task, killSwitch, attempt, memory, durable, exchange,
                   history>>

Resume ==
    /\ Called
    /\ paused' = FALSE
    /\ UNCHANGED <<process, ticking, now, task, killSwitch, attempt, memory, durable, exchange,
                   history>>

-----------------------------------------------------------------------------
(***************************************************************************)
(* Entering a structure: enterMultiLeg, and placeSingleLeg as one leg.     *)
(***************************************************************************)
\* PlaceEntryOrder up to the intent row.
ValidateLeg ==
    /\ In("loop", {"enter"}, "ready")
    /\ task["loop"].legs # <<>>
    /\ entries < MaxEntries
    /\ ~killSwitch
    /\ entries' = entries + 1
    /\ Put("loop", [task["loop"] EXCEPT !.at = "open", !.legs[1].row = entries + 1])
    /\ UNCHANGED <<process, ticking, now, control, memory, durable, exchange, history,
                   hooks, unknown, restarts, faults>>

\* A leg that fails: the legs known to be filled are unwound.
Unwind(k) == Begin(k, "unwind", k.u, k.done)

\* The kill switch, a risk limit, a missing price or the store refuses it.
RefuseLeg ==
    /\ In("loop", {"enter"}, "ready")
    /\ task["loop"].legs # <<>>
    /\ Put("loop", Unwind(task["loop"]))
    /\ UNCHANGED <<process, ticking, now, control, memory, durable, exchange, history, bounds>>

OpenLeg ==
    /\ In("loop", {"enter"}, "open")
    /\ book' = book \cup {Sym("loop")}
    /\ Put("loop", [task["loop"] EXCEPT !.at = "sent"])
    /\ UNCHANGED <<process, ticking, now, control, exitInFlight, open, latch, durable, exchange,
                   history, bounds>>

\* Filled: the row is saved and a stop order rests at the exchange if it is
\* taken.  The risk manager has nothing to correct when another goroutine has
\* closed the position meanwhile.
EntryFills ==
    /\ In("loop", {"enter"}, "sent")
    /\ LET id == Leg1("loop").row
           c == Sym("loop")
           ticket == [sym |-> c, row |-> id]
       IN  /\ rows' = rows \cup {ticket}
           /\ held' = [held EXCEPT ![c] = @ + 1]
           /\ reported' = [reported EXCEPT ![c] = @ + 1]
           /\ \E stop \in {FALSE, BrokerStops} :
                 /\ stops' = IF stop THEN stops \cup {ticket} ELSE stops
                 /\ Put("loop", [NextLeg(task["loop"], TRUE) EXCEPT
                        !.done = Append(@, [sym |-> c, row |-> id, stop |-> stop])])
    /\ UNCHANGED <<process, ticking, now, control, memory, legsRec, stratRec, unresolved, history, bounds>>

\* Rejected: the position is rolled back.
EntryRejected ==
    /\ In("loop", {"enter"}, "sent")
    /\ book' = book \ {Sym("loop")}
    /\ Put("loop", Unwind(task["loop"]))
    /\ UNCHANGED <<process, ticking, now, control, exitInFlight, open, latch, durable, exchange,
                   history, bounds>>

\* Indeterminate: the position stays, and this leg is not unwound.
EntryUnknown ==
    /\ In("loop", {"enter"}, "sent")
    /\ Unknown
    /\ \E filled \in {0, 1} : held' = [held EXCEPT ![Sym("loop")] = @ + filled]
    /\ unresolved' = unresolved \cup {Sym("loop")}
    /\ alerted' = alerted \cup {Sym("loop")}
    /\ Put("loop", Unwind(task["loop"]))
    /\ UNCHANGED <<process, ticking, now, control, memory, rows, legsRec, stratRec, reported,
                   stops, excused>>

\* All legs filled: r.open, then persistStructure, then ConfirmEntry and the
\* strategy's snapshot.  The state writes' errors are dropped.
TrackStructure ==
    /\ In("loop", {"enter"}, "ready")
    /\ task["loop"].legs = <<>>
    /\ open' = [open EXCEPT ![task["loop"].u] = task["loop"].done]
    /\ Put("loop", [task["loop"] EXCEPT !.at = "record"])
    /\ UNCHANGED <<process, ticking, now, control, book, exitInFlight, latch, durable, exchange,
                   history, bounds>>

\* Of the three writes only that of the legs is kept.  Of the premium and the
\* entry time only signals depend; that a restart may miss the premium is in
\* Evaluation.
PersistStructure ==
    /\ In("loop", {"enter"}, "record")
    /\ \/ /\ legsRec' = [legsRec EXCEPT ![task["loop"].u] = SymsOf(task["loop"].done)]
          /\ UNCHANGED <<excused, bounds>>
       \/ /\ StoreFails
          /\ UNCHANGED legsRec
          /\ excused' = excused \cup ToSet(SymsOf(task["loop"].done))
    /\ Put("loop", [task["loop"] EXCEPT !.at = "confirm"])
    /\ UNCHANGED <<process, ticking, now, control, memory, rows, stratRec, unresolved, exchange,
                   alerted>>

\* persistStrategySnapshot: every symbol's latches, key by key.
SaveLatches(new) ==
    \/ /\ stratRec' = IF Latched THEN new ELSE stratRec
       /\ UNCHANGED bounds
    \/ /\ Latched
       /\ StoreFails
       /\ stratRec' \in {saved \in [Underlyings -> Latch] :
              \A u \in Underlyings : saved[u] \in SavedInPart(stratRec[u], new[u])}

EntryConfirmed ==
    /\ In("loop", {"enter"}, "confirm")
    /\ latch' = IF Latched THEN [latch EXCEPT ![task["loop"].u] = ConfirmEntry(@)] ELSE latch
    /\ SaveLatches(latch')
    /\ Put("loop", Ended(task["loop"]))
    /\ UNCHANGED <<process, ticking, now, control, book, exitInFlight, open, rows, legsRec,
                   unresolved, exchange, history>>

-----------------------------------------------------------------------------
(***************************************************************************)
(* Closing legs: exitStructure, unwindLegs and flattenAll's leftovers.     *)
(***************************************************************************)
Closing == {"exit", "unwind", "single"}

\* Another goroutine's entry of c is at the exchange, unanswered.
Entering(t, c) ==
    \E o \in Threads \ {t} : task[o].act = "enter" /\ task[o].at = "sent" /\ Sym(o) = c

\* The leg's stop order is cancelled, and a failure to do so is only logged.
CancelStop(leg) ==
    \/ UNCHANGED stops
    \/ leg.stop /\ stops' = stops \ {[sym |-> leg.sym, row |-> leg.row]}

\* PlaceExitOrder claims the symbol and reads the position.  The position of
\* an entry still unanswered is there to be closed too.
ClaimLeg(t) ==
    LET c == Sym(t)
    IN  /\ In(t, Closing, "ready")
        /\ task[t].legs # <<>>
        /\ c \in book /\ c \notin exitInFlight
        /\ CancelStop(Leg1(t))
        /\ exitInFlight' = exitInFlight \cup {c}
        /\ excused' = IF Entering(t, c) THEN excused \cup {c} ELSE excused
        /\ Put(t, [task[t] EXCEPT !.at = "sent"])
        /\ UNCHANGED <<process, ticking, now, control, book, open, latch, durable, held, reported,
                       alerted, bounds>>

\* An exit of the symbol is under way, or there is no position to close.
ClaimRefused(t) ==
    LET c == Sym(t)
    IN  /\ In(t, Closing, "ready")
        /\ task[t].legs # <<>>
        /\ c \notin book \/ c \in exitInFlight
        /\ CancelStop(Leg1(t))
        /\ alerted' = alerted \cup {c}
        /\ Put(t, NextLeg(task[t], FALSE))
        /\ UNCHANGED <<process, ticking, now, control, memory, durable, held, reported, excused, bounds>>

\* Filled: the position is closed, and the row the caller named.
ExitFills(t) ==
    LET c == Sym(t)
    IN  /\ In(t, Closing, "sent")
        /\ held' = [held EXCEPT ![c] = @ - 1]
        /\ reported' = [reported EXCEPT ![c] = @ - 1]
        /\ book' = book \ {c}
        /\ rows' = rows \ {[sym |-> c, row |-> Leg1(t).row]}
        /\ exitInFlight' = exitInFlight \ {c}
        /\ Put(t, NextLeg(task[t], TRUE))
        /\ UNCHANGED <<process, ticking, now, control, open, latch, legsRec, stratRec, unresolved,
                       stops, history, bounds>>

\* Rejected, or indeterminate: the position stays to be retried.
ExitFails(t) ==
    LET c == Sym(t)
    IN  /\ In(t, Closing, "sent")
        /\ \/ UNCHANGED <<held, unresolved, bounds>>
           \/ /\ Unknown
              /\ unresolved' = unresolved \cup {c}
              /\ \E filled \in {0, 1} : held' = [held EXCEPT ![c] = @ - filled]
        /\ exitInFlight' = exitInFlight \ {c}
        /\ alerted' = alerted \cup {c}
        /\ Put(t, NextLeg(task[t], FALSE))
        /\ UNCHANGED <<process, ticking, now, control, book, open, latch, rows, legsRec, stratRec,
                       reported, stops, excused>>

\* unwindLegs, or a single contract, is through.
LegsClosed(t) ==
    /\ In(t, {"unwind", "single"}, "ready")
    /\ task[t].legs = <<>>
    /\ Put(t, Ended(task[t]))
    /\ UNCHANGED <<process, ticking, now, control, memory, durable, exchange, history, bounds>>

\* Fault: a structure is forgotten although a leg did not close.
UntrackAlways(t) ==
    /\ In(t, {"exit"}, "ready")
    /\ task[t].legs = <<>>
    /\ open' = [open EXCEPT ![task[t].u] = <<>>]
    /\ Put(t, [task[t] EXCEPT !.at = "record", !.ok = TRUE])
    /\ UNCHANGED <<process, ticking, now, control, book, exitInFlight, latch, durable, exchange,
                   history, bounds>>

\* exitStructure: a structure all of whose legs closed is forgotten.
Untrack(t) ==
    /\ In(t, {"exit"}, "ready")
    /\ task[t].legs = <<>>
    /\ IF task[t].ok
       THEN open' = [open EXCEPT ![task[t].u] = <<>>] /\ Put(t, [task[t] EXCEPT !.at = "record"])
       ELSE UNCHANGED open /\ Put(t, [task[t] EXCEPT !.at = "confirm"])
    /\ UNCHANGED <<process, ticking, now, control, book, exitInFlight, latch, durable, exchange,
                   history, bounds>>

\* Fault: the durable record stays.
ClearStructureNot(t) ==
    /\ In(t, {"exit"}, "record")
    /\ Put(t, [task[t] EXCEPT !.at = "confirm"])
    /\ UNCHANGED <<process, ticking, now, control, memory, durable, exchange, history, bounds>>

ClearStructure(t) ==
    /\ In(t, {"exit"}, "record")
    /\ \/ legsRec' = [legsRec EXCEPT ![task[t].u] = <<>>] /\ UNCHANGED bounds
       \/ StoreFails /\ UNCHANGED legsRec
    /\ Put(t, [task[t] EXCEPT !.at = "confirm"])
    /\ UNCHANGED <<process, ticking, now, control, memory, rows, stratRec, unresolved, exchange,
                   history>>

\* Fault: the strategy never learns of it.
ExitUnconfirmed(t) ==
    /\ In(t, {"exit"}, "confirm")
    /\ SaveLatches(latch)
    /\ Put(t, Ended(task[t]))
    /\ UNCHANGED <<process, ticking, now, control, memory, rows, legsRec, unresolved, exchange,
                   history>>

\* ConfirmExit if the structure closed; the snapshot in any case.
ExitConfirmed(t) ==
    /\ In(t, {"exit"}, "confirm")
    /\ latch' = IF Latched /\ task[t].ok THEN [latch EXCEPT ![task[t].u] = ConfirmExit(@)] ELSE latch
    /\ SaveLatches(latch')
    /\ Put(t, Ended(task[t]))
    /\ UNCHANGED <<process, ticking, now, control, book, exitInFlight, open, rows, legsRec,
                   unresolved, exchange, history>>

-----------------------------------------------------------------------------
(***************************************************************************)
(* Shutdown.                                                               *)
(***************************************************************************)
MaxAttempts == 3

\* The signal is seen between two ticks.
Shutdown ==
    /\ Free("loop")
    /\ ticking
    /\ attempt = 0
    /\ attempt' = 1
    /\ paused' = TRUE
    /\ Put("loop", Started([Idle EXCEPT !.agenda = <<"flatten", "verify">>]))
    /\ UNCHANGED <<process, ticking, now, killSwitch, memory, durable, exchange, history, bounds>>

\* brokerBookEmpty: GetPositions has what the broker client saw fill.
BrokerBookEmpty == book = {} /\ \A c \in Contracts : reported[c] = 0

Memoryless ==
    /\ ticking' = FALSE
    /\ task' = [t \in Threads |-> Idle]
    /\ killSwitch' = FALSE
    /\ paused' = FALSE
    /\ attempt' = 0
    /\ book' = {}
    /\ exitInFlight' = {}
    /\ open' = [u \in Underlyings |-> <<>>]
    /\ latch' = [u \in Underlyings |-> NoLatch]

\* The orders at the exchange when the process stops may still fill.
InFlight(kinds) == {Sym(t) : t \in {o \in Threads : task[o].act \in kinds /\ task[o].at = "sent"}}
Interrupted == InFlight({"enter"}) \cup InFlight(Closing)

\* What a call sequence was about when the process stopped may be in no record.
UnderWay == UNION {ToSet(SymsOf(task[t].legs \o task[t].done)) : t \in Threads}

LastFills ==
    /\ unresolved' = unresolved \cup Interrupted
          \cup {Sym(t) : t \in {o \in Threads : task[o].at = "open"}}
    /\ excused' = excused \cup (book \ TrackedContracts) \cup UnderWay
    /\ \E bought \in SUBSET InFlight({"enter"}), sold \in SUBSET InFlight(Closing) :
          held' = [c \in Contracts |-> held[c] + (IF c \in bought THEN 1 ELSE 0)
                                              - (IF c \in sold THEN 1 ELSE 0)]

\* Fault: the attempts are not counted.
VerifyForever ==
    /\ On("loop", "verify", "structures")
    /\ \/ BrokerBookEmpty /\ process' = "clean" /\ Memoryless /\ LastFills
       \/ /\ ~BrokerBookEmpty
          /\ Put("loop", Started([Idle EXCEPT !.agenda = <<"flatten", "verify">>]))
          /\ UNCHANGED <<process, ticking, control, memory, held, unresolved, excused>>
    /\ UNCHANGED <<now, rows, legsRec, stratRec, reported, stops, alerted, bounds>>

\* The process ends once the book is verified empty or the attempts are spent.
Verify ==
    /\ On("loop", "verify", "structures")
    /\ \/ BrokerBookEmpty /\ process' = "clean" /\ Memoryless /\ LastFills
       \/ ~BrokerBookEmpty /\ attempt = MaxAttempts
             /\ process' = "dirty" /\ Memoryless /\ LastFills
       \/ /\ ~BrokerBookEmpty
          /\ attempt < MaxAttempts
          /\ attempt' = attempt + 1
          /\ Put("loop", Started([Idle EXCEPT !.agenda = <<"flatten", "verify">>]))
          /\ UNCHANGED <<process, ticking, killSwitch, paused, memory, held, unresolved, excused>>
    /\ UNCHANGED <<now, rows, legsRec, stratRec, reported, stops, alerted, bounds>>

-----------------------------------------------------------------------------
(***************************************************************************)
(* Crash and start.                                                        *)
(***************************************************************************)
Crash ==
    /\ Running
    /\ restarts < MaxRestarts
    /\ process' = "crashed"
    /\ Memoryless
    /\ LastFills
    /\ UNCHANGED <<now, rows, legsRec, stratRec, reported, stops, alerted, bounds>>

\* A structure as its record and the open rows that were read give it.
Restored(u, read) ==
    [i \in DOMAIN legsRec[u] |->
        LET ids == {r.row : r \in RowsOf(legsRec[u][i]) \cap read}
        IN  [sym |-> legsRec[u][i], stop |-> FALSE,
             row |-> IF ids = {} THEN 0 ELSE CHOOSE id \in ids : \A other \in ids : other <= id]]

\* ReconcilePositions: rows and exchange disagree.
Mismatched == {c \in Contracts : Cardinality(RowsOf(c)) # held[c]}

Recorded == UNION {ToSet(legsRec[u]) : u \in Underlyings}

\* Fault: the positions come back, and no structure does.
RestorePositionsOnly ==
    /\ book' = book \cup {r.sym : r \in rows}
    /\ excused' = excused \cup Mismatched
    /\ UNCHANGED <<open, latch, faults>>

\* RestoreState: the positions of the rows that could be read, then, unless
\* the strategy's state cannot be read, the latches and the structures.
RestoreState ==
    /\ \E read \in {rows, {}}, loaded \in BOOLEAN :
          /\ \/ read = rows /\ loaded /\ UNCHANGED faults
             \/ ~(read = rows /\ loaded) /\ faults < MaxFaults /\ faults' = faults + 1
          /\ book' = book \cup {r.sym : r \in read}
          /\ open' = [u \in Underlyings |->
                 IF loaded /\ legsRec[u] # <<>> THEN Restored(u, read) ELSE open[u]]
          /\ latch' = [u \in Underlyings |->
                 IF loaded /\ stratRec[u] # NoLatch THEN Restore(stratRec[u], latch[u]) ELSE latch[u]]
          /\ excused' = excused \cup Mismatched \cup (IF loaded THEN {} ELSE Recorded)

\* main.go's gate, and the restore before the control API is served.  The
\* broker client starts from the positions it fetches.
Start(acceptReconcile) ==
    /\ ~Running
    /\ restarts < MaxRestarts
    /\ \/ acceptReconcile
       \/ Mismatched \cup unresolved = {}
    /\ process' = "running"
    /\ RestoreState
    /\ restarts' = restarts + 1
    /\ reported' = held
    /\ UNCHANGED <<ticking, now, task, control, exitInFlight, durable, held, stops, alerted, entries,
                   hooks, unknown>>

\* Run restores once more before its loop.
RestoreAgain ==
    /\ Running
    /\ ~ticking
    /\ ticking' = TRUE
    /\ RestoreState
    /\ UNCHANGED <<process, now, task, control, exitInFlight, durable, exchange, alerted, entries,
                   hooks, unknown, restarts>>

-----------------------------------------------------------------------------
(***************************************************************************)
(* The world: stop orders trigger, time passes.                            *)
(***************************************************************************)
\* While the market trades.  Nobody tells the engine.
StopFires(ticket) ==
    /\ ticket \in stops
    /\ Part(now) \notin {"pre-open", "closed"}
    /\ stops' = stops \ {ticket}
    /\ held' = [held EXCEPT ![ticket.sym] = @ - 1]
    /\ excused' = excused \cup {ticket.sym}
    /\ UNCHANGED <<process, ticking, now, task, control, memory, durable, reported, alerted, bounds>>

\* No tick lasts through the night.  What the day leaves untracked is excused:
\* the next day's entries may meet it.
Clock ==
    /\ now < Horizon
    /\ Day(now + 1) # Day(now) => \A t \in Threads : task[t] = Idle
    /\ now' = now + 1
    /\ excused' = IF Day(now + 1) # Day(now) THEN excused \cup (book \ TrackedContracts) ELSE excused
    /\ UNCHANGED <<process, ticking, task, control, memory, durable, exchange, alerted, bounds>>

-----------------------------------------------------------------------------
Watch ==
    \/ WatchRest
    \/ \E u \in Underlyings : WatchStructure(u)
    \/ \E c \in Contracts : WatchContract(c)

Enter ==
    \/ ValidateLeg \/ RefuseLeg \/ OpenLeg
    \/ EntryFills \/ EntryRejected \/ EntryUnknown
    \/ TrackStructure \/ PersistStructure \/ EntryConfirmed

Flatten(t) ==
    \/ FlattenRest(t)
    \/ \E u \in Underlyings : FlattenStructure(t, u)
    \/ \E c \in Contracts : FlattenContract(t, c)

Close(t) ==
    \/ ClaimLeg(t) \/ ClaimRefused(t) \/ ExitFills(t) \/ ExitFails(t) \/ LegsClosed(t)
    \/ Untrack(t) \/ ClearStructure(t) \/ ExitConfirmed(t)

Evaluation == \E u \in Underlyings : Evaluate(u)

\* What a goroutine does on its own.
Step(t) ==
    \/ Flatten(t) \/ Close(t) \/ NextJob(t)
    \/ t = "loop" /\ (Tick \/ Watch \/ Evaluation \/ Enter \/ Verify)

Next ==
    \/ \E t \in Threads : Step(t)
    \/ KillAndFlatten \/ Pause \/ Resume \/ Shutdown
    \/ Crash \/ RestoreAgain \/ \E acceptReconcile \in BOOLEAN : Start(acceptReconcile)
    \/ \E ticket \in stops : StopFires(ticket)
    \/ Clock

Spec == Init /\ [][Next]_vars

(***************************************************************************)
(* The ticker keeps ticking and every broker call returns: each goroutine  *)
(* goes on.  The broker is assumed not to refuse the exits of a goroutine  *)
(* for ever.  Nothing makes the operator, the clock or a stop order act.   *)
(***************************************************************************)
Fairness ==
    /\ WF_vars(RestoreAgain)
    /\ \A t \in Threads : WF_vars(Step(t)) /\ SF_vars(ExitFills(t))

FairSpec == Spec /\ Fairness

-----------------------------------------------------------------------------
\* Every goroutine's work and every book has its shape, and Shutdown counts to three.
TypeOK ==
    /\ process \in {"running", "crashed", "clean", "dirty"}
    /\ ticking \in BOOLEAN
    /\ now \in Instants
    /\ task \in [Threads -> Task]
    /\ killSwitch \in BOOLEAN
    /\ paused \in BOOLEAN
    /\ attempt \in 0..MaxAttempts
    /\ book \subseteq Contracts
    /\ exitInFlight \subseteq Contracts
    /\ open \in [Underlyings -> Seq(Leg)]
    /\ latch \in [Underlyings -> Latch]
    /\ rows \subseteq Ticket
    /\ legsRec \in [Underlyings -> Seq(Contracts)]
    /\ stratRec \in [Underlyings -> Latch]
    /\ unresolved \subseteq Contracts
    /\ held \in [Contracts -> Int]
    /\ reported \in [Contracts -> Int]
    /\ stops \subseteq Ticket
    /\ alerted \subseteq Contracts
    /\ excused \subseteq Contracts
    /\ entries \in 0..MaxEntries
    /\ hooks \in 0..MaxHooks
    /\ unknown \in 0..MaxUnknown
    /\ restarts \in 0..MaxRestarts
    /\ faults \in 0..MaxFaults

\* Neither goroutine is at work.
Resting == Running /\ \A t \in Threads : task[t].act = "none"

(***************************************************************************)
(* A structure is all or nothing: between call sequences, what the         *)
(* exchange holds is a leg of a tracked structure, or the operator was     *)
(* alerted to that contract, through every order of rejections, failed     *)
(* unwinding, exits, kills and restarts.  Excused: a stop order that       *)
(* fired, a kill that sold what was still being bought, what a crash found *)
(* in the middle of a call sequence, a record that could not be written,   *)
(* a mismatch the operator accepted at a start.                            *)
(***************************************************************************)
NothingUntracked ==
    Resting => \A c \in Contracts \ (alerted \cup excused) : held[c] # 0 => c \in TrackedContracts

(***************************************************************************)
(* The straddle never enters a contract whose position the risk manager    *)
(* still has, which would overwrite it there: a structure that did not     *)
(* close stays tracked, and one that was not completed is not signaled     *)
(* again that day.                                                         *)
(***************************************************************************)
NoEntryOverPosition ==
    In("loop", {"enter"}, "open") => Sym("loop") \notin book \ excused

(***************************************************************************)
(* Between call sequences, until a kill, the durable record of every       *)
(* structure is what the runner tracks, if no write or read failed; a      *)
(* restart resumes just that.                                              *)
(***************************************************************************)
RecordsMatch ==
    Resting /\ ticking /\ ~killSwitch /\ faults = 0 =>
        \A u \in Underlyings : legsRec[u] = SymsOf(open[u])

(***************************************************************************)
(* Between call sequences the straddle's own latch never outlives the      *)
(* structure, which would keep it out of the market and mute its exits,    *)
(* until a kill, a restart or a failed write.                              *)
(***************************************************************************)
LatchesMatch ==
    Resting /\ ~killSwitch /\ restarts = 0 /\ faults = 0 =>
        \A u \in Underlyings : latch[u].entered \/ latch[u].pendingExit => open[u] # <<>>

(***************************************************************************)
(* The kill switch flattens: once it is on and the process stays up, the   *)
(* risk manager ends up with no position, whatever was being entered, and  *)
(* whether or not a structure tracks it.                                   *)
(***************************************************************************)
KillFlattens == killSwitch ~> book = {} \/ ~Running

(***************************************************************************)
(* Hedges first: whatever is left of a structure that was not completed,   *)
(* between call sequences no later leg is held without the first.          *)
(***************************************************************************)
HedgesCover ==
    Resting => \A u \in Underlyings \ Tracked : \A c \in ToSet(Tail(LegsOf[u])) :
                   held[c] > 0 => held[Head(LegsOf[u])] > 0

(***************************************************************************)
(* A structure that did not close is retried until it has: once a kill has *)
(* the runner flatten on every tick, it ends up tracking none.             *)
(***************************************************************************)
RetriesClose == killSwitch ~> Tracked = {} \/ ~Running

(***************************************************************************)
(* Shutdown ends, with the book verified or not, whatever the broker does. *)
(***************************************************************************)
ShutdownEnds == attempt > 0 ~> ~Running

=============================================================================
