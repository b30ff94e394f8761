--------------------------- MODULE TradingEngine ---------------------------
(***************************************************************************)
(* engine.TradingEngine: PlaceEntryOrder and PlaceExitOrder, run by        *)
(* concurrent threads over three books that must agree:                    *)
(*                                                                         *)
(*   openPositions  the risk manager's book (memory)                       *)
(*   positions      the durable positions table                            *)
(*   Held           what the exchange really holds for us                  *)
(*                                                                         *)
(* and over the durable order_attempts journal.  Each call is cut where    *)
(* the code leaves a critical section, commits a transaction or waits for  *)
(* the broker, so threads interleave, durable writes fail and the process  *)
(* crashes between any two of those points.  Starting again is gated by    *)
(* main.go's reconciliation.                                               *)
(*                                                                         *)
(* A symbol is traded in one direction (its entry side), so quantities are *)
(* counts in that direction; Held goes below zero when an exit reverses    *)
(* the position.  Prices, the ledger and the CSV log carry no control.     *)
(* The broker keeps TradeService's contract (broker.go:184-194): a call    *)
(* either reports the final filled quantity, a definite failure with no    *)
(* fill, or an indeterminate outcome.                                      *)
(***************************************************************************)
EXTENDS Integers, FiniteSets, Functions

CONSTANTS
    Symbols,     \* tradable instruments
    Threads,     \* goroutines that may call the engine
    Enterers,    \* those that place entries: the tick loop
    MaxOrders,   \* bound: client order ids issued
    MaxQty,      \* bound: largest order quantity
    MaxCrashes,  \* bound: process crashes
    MaxFaults    \* bound: failed durable writes and reads

ASSUME TradingEngineAssumption ==
    /\ MaxOrders \in Nat
    /\ MaxQty \in Nat \ {0}
    /\ MaxCrashes \in Nat
    /\ MaxFaults \in Nat
    /\ Enterers \subseteq Threads

Orders == 1..MaxOrders

VARIABLES
    up,             \* the process runs: its control API is served
    ticking,        \* Runner.Run has started its loop
    issued,         \* client order ids handed out so far
    order,          \* what each issued id asks the broker for
    call,           \* each thread's engine call in progress
    openPositions,  \* risk.Manager's quantity by symbol, 0 for no position
    exitInFlight,   \* TradingEngine.exitInFlight
    attempts,       \* order_attempts rows (durable)
    positions,      \* positions rows, by the id of the entry that opened them
    exch,           \* the exchange's order book
    alerted,        \* symbols whose durable-write alert reached the operator
    suspect,        \* history: symbols whose books were knowingly disturbed
    revived,        \* history: symbols a second restore gave another position
    crashes, faults \* spent bounds

memory == <<openPositions, exitInFlight>>
durable == <<attempts, positions>>
history == <<suspect, revived>>
bounds == <<crashes, faults>>
vars == <<up, ticking, issued, order, call, memory, durable, exch, alerted, history, bounds>>

-----------------------------------------------------------------------------
(***************************************************************************)
(* Values.  "none" is an absent row and 0 an absent id.                    *)
(***************************************************************************)
Final == {"filled", "partial", "rejected"}
Unresolved == {"intent", "indeterminate"}

NoSymbol == "none"
Ask == [kind : {"none", "entry", "exit"}, sym : Symbols \cup {NoSymbol}, qty : 0..MaxQty]
Attempt == [st : {"none"} \cup Unresolved \cup Final, filled : 0..MaxQty]
Row == [st : {"none", "open", "closed"}, qty : 0..MaxQty]
ExchangeOrder == [st : {"none", "live", "done"}, filled : 0..MaxQty]

Stages == {"idle", "record", "open", "send", "wait",
           "resolve", "reject", "unknown", "row"}
Call == [at : Stages, id : 0..MaxOrders, row : 0..MaxOrders]
Idle == [at |-> "idle", id |-> 0, row |-> 0]

Init ==
    /\ up = TRUE
    /\ ticking = TRUE
    /\ issued = 0
    /\ order = [id \in Orders |-> [kind |-> "none", sym |-> NoSymbol, qty |-> 0]]
    /\ call = [t \in Threads |-> Idle]
    /\ openPositions = [s \in Symbols |-> 0]
    /\ exitInFlight = {}
    /\ attempts = [id \in Orders |-> [st |-> "none", filled |-> 0]]
    /\ positions = [id \in Orders |-> [st |-> "none", qty |-> 0]]
    /\ exch = [id \in Orders |-> [st |-> "none", filled |-> 0]]
    /\ alerted = {}
    /\ suspect = {}
    /\ revived = {}
    /\ crashes = 0
    /\ faults = 0

-----------------------------------------------------------------------------
(***************************************************************************)
(* Reading the books.                                                      *)
(***************************************************************************)
CallOn(t, s) == call[t].at # "idle" /\ order[call[t].id].sym = s
Busy(s) == \E t \in Threads : CallOn(t, s)

OrdersOn(s, k) == {id \in Orders : order[id].sym = s /\ order[id].kind = k}
FilledBy(ids) == SumFunctionOnSet([id \in Orders |-> exch[id].filled], ids)
Held(s) == FilledBy(OrdersOn(s, "entry")) - FilledBy(OrdersOn(s, "exit"))

Rows(s) == {id \in OrdersOn(s, "entry") : positions[id].st # "none"}
OpenRows(s) == {id \in OrdersOn(s, "entry") : positions[id].st = "open"}
RowQty(s) == SumFunctionOnSet([id \in Orders |-> positions[id].qty], OpenRows(s))

UnresolvedOn(s) == \E id \in Orders : order[id].sym = s /\ attempts[id].st \in Unresolved

-----------------------------------------------------------------------------
(***************************************************************************)
(* Moving a call along.  k is the kind of call the stage belongs to.       *)
(***************************************************************************)
At(t, stage, k) ==
    /\ up
    /\ call[t].at = stage
    /\ order[call[t].id].kind = k

Goto(t, stage) == call' = [call EXCEPT ![t].at = stage]
Return(t) == call' = [call EXCEPT ![t] = Idle]

\* The call's id, symbol and asked quantity.
Id(t) == call[t].id
Sym(t) == order[Id(t)].sym
Qty(t) == order[Id(t)].qty

\* defer func() { delete(e.exitInFlight, symbol) }
Release(t) == exitInFlight' = exitInFlight \ {Sym(t)}

\* A durable write or read fails, within the bound.
StoreFails ==
    /\ faults < MaxFaults
    /\ faults' = faults + 1
    /\ UNCHANGED crashes

\* Take the next client order id for an order.
IssueOrder(t, k, s, q, row, stage) ==
    /\ issued < MaxOrders
    /\ issued' = issued + 1
    /\ order' = [order EXCEPT ![issued + 1] = [kind |-> k, sym |-> s, qty |-> q]]
    /\ call' = [call EXCEPT ![t] = [at |-> stage, id |-> issued + 1, row |-> row]]

\* A thread may start a call: the tick loop only once it runs.
Free(t) ==
    /\ up
    /\ t \in Enterers => ticking
    /\ call[t].at = "idle"

\* Another call on s is running: the books of s may part from here on.
Overlaps(t, s) == \E u \in Threads \ {t} : CallOn(u, s)

-----------------------------------------------------------------------------
(***************************************************************************)
(* PlaceEntryOrder.  A refusal by the price check or the risk limits, or a *)
(* failed intent write, returns with nothing changed and is not an action. *)
(***************************************************************************)
\* Fault: the order goes out before its intent is durable.
BeginEntryUnjournaled(t, s, q) ==
    /\ Free(t)
    /\ t \in Enterers
    /\ IssueOrder(t, "entry", s, q, 0, "open")
    /\ suspect' = IF Overlaps(t, s) THEN suspect \cup {s} ELSE suspect
    /\ UNCHANGED <<up, ticking, memory, durable, exch, alerted, bounds, revived>>

BeginEntry(t, s, q) ==
    /\ Free(t)
    /\ t \in Enterers
    /\ IssueOrder(t, "entry", s, q, 0, "open")
    /\ attempts' = [attempts EXCEPT ![issued + 1].st = "intent"]
    /\ suspect' = IF Overlaps(t, s) THEN suspect \cup {s} ELSE suspect
    /\ UNCHANGED <<up, ticking, memory, positions, exch, alerted, bounds, revived>>

\* OpenPosition: the optimistic position, before the broker is called.  A
\* position the risk manager already has for the symbol is overwritten.
OpenRisk(t) ==
    /\ At(t, "open", "entry")
    /\ openPositions' = [openPositions EXCEPT ![Sym(t)] = Qty(t)]
    /\ suspect' = IF openPositions[Sym(t)] > 0 THEN suspect \cup {Sym(t)} ELSE suspect
    /\ Goto(t, "send")
    /\ UNCHANGED <<up, ticking, issued, order, exitInFlight, durable, exch, alerted, bounds, revived>>

\* OpenPositionWithMargin may refuse: the call returns and leaves the intent.
MarginLockFails(t) ==
    /\ At(t, "open", "entry")
    /\ Return(t)
    /\ UNCHANGED <<up, ticking, issued, order, memory, durable, exch, alerted, history, bounds>>

\* Fault: the fill is added to the optimistic quantity.
EntryFilledTwice(t) ==
    /\ At(t, "wait", "entry")
    /\ exch[Id(t)].st = "done" /\ exch[Id(t)].filled > 0
    /\ openPositions' = [openPositions EXCEPT ![Sym(t)] =
                            IF @ > 0 THEN @ + exch[Id(t)].filled ELSE 0]
    /\ Goto(t, "resolve")
    /\ UNCHANGED <<up, ticking, issued, order, exitInFlight, durable, exch, alerted, history, bounds>>

EntryFilled(t) ==
    /\ At(t, "wait", "entry")
    /\ exch[Id(t)].st = "done" /\ exch[Id(t)].filled > 0
    \* UpdatePositionPrice corrects an existing position only
    /\ openPositions' = [openPositions EXCEPT ![Sym(t)] =
                            IF @ > 0 THEN exch[Id(t)].filled ELSE 0]
    /\ Goto(t, "resolve")
    /\ UNCHANGED <<up, ticking, issued, order, exitInFlight, durable, exch, alerted, history, bounds>>

\* Fault: a failed entry keeps its optimistic position.
EntryFailedKept(t) ==
    /\ At(t, "wait", "entry")
    /\ exch[Id(t)].st # "live" /\ exch[Id(t)].filled = 0
    /\ Goto(t, "reject")
    /\ UNCHANGED <<up, ticking, issued, order, memory, durable, exch, alerted, history, bounds>>

\* A definite failure rolls the optimistic position back.
EntryFailed(t) ==
    /\ At(t, "wait", "entry")
    /\ exch[Id(t)].st # "live" /\ exch[Id(t)].filled = 0
    /\ openPositions' = [openPositions EXCEPT ![Sym(t)] = 0]
    /\ Goto(t, "reject")
    /\ UNCHANGED <<up, ticking, issued, order, exitInFlight, durable, exch, alerted, history, bounds>>

\* MarkOrderResolved(filled or partial).
ResolveEntry(t) ==
    /\ At(t, "resolve", "entry")
    /\ \/ /\ attempts' = [attempts EXCEPT ![Id(t)] =
                 [st |-> IF exch[Id(t)].filled < Qty(t) THEN "partial" ELSE "filled",
                  filled |-> exch[Id(t)].filled]]
          /\ UNCHANGED bounds
       \/ StoreFails /\ UNCHANGED attempts
    /\ Goto(t, "row")
    /\ UNCHANGED <<up, ticking, issued, order, memory, positions, exch, alerted, history>>

\* Fault: a failed SavePosition goes unnoticed.
SaveEntrySilently(t) ==
    /\ At(t, "row", "entry")
    /\ \/ /\ positions' = [positions EXCEPT ![Id(t)] =
                              [st |-> "open", qty |-> exch[Id(t)].filled]]
          /\ UNCHANGED bounds
       \/ StoreFails /\ UNCHANGED positions
    /\ Return(t)
    /\ UNCHANGED <<up, ticking, issued, order, memory, attempts, exch, alerted, history>>

\* SavePosition with the filled quantity; its failure only alerts.
SaveEntry(t) ==
    /\ At(t, "row", "entry")
    /\ \/ /\ positions' = [positions EXCEPT ![Id(t)] =
                              [st |-> "open", qty |-> exch[Id(t)].filled]]
          /\ UNCHANGED <<alerted, bounds>>
       \/ /\ StoreFails
          /\ alerted' = alerted \cup {Sym(t)}
          /\ UNCHANGED positions
    /\ Return(t)
    /\ UNCHANGED <<up, ticking, issued, order, memory, attempts, exch, history>>

-----------------------------------------------------------------------------
(***************************************************************************)
(* PlaceExitOrder.  The caller passes the row of the position when it has  *)
(* one and 0 otherwise; the row may be one that is closed by now, and will *)
(* then be closed once more (ClosePosition asks for no open one).  A       *)
(* second exit for a symbol whose exit is in flight, and an exit without a *)
(* risk position, return an error with nothing changed and are not         *)
(* actions.                                                                *)
(***************************************************************************)
ClosedAlready(s, row) == row \in Rows(s) \ OpenRows(s)

\* Fault: an exit does not look whether one is in flight.
BeginExitUnguarded(t, s, row) ==
    /\ Free(t)
    /\ openPositions[s] > 0
    /\ exitInFlight' = exitInFlight \cup {s}
    /\ IssueOrder(t, "exit", s, openPositions[s], row, "record")
    /\ suspect' = IF Overlaps(t, s) \/ ClosedAlready(s, row) THEN suspect \cup {s} ELSE suspect
    /\ UNCHANGED <<up, ticking, openPositions, durable, exch, alerted, bounds, revived>>

BeginExit(t, s, row) ==
    /\ Free(t)
    /\ s \notin exitInFlight
    /\ openPositions[s] > 0
    /\ exitInFlight' = exitInFlight \cup {s}
    /\ IssueOrder(t, "exit", s, openPositions[s], row, "record")
    /\ suspect' = IF Overlaps(t, s) \/ ClosedAlready(s, row) THEN suspect \cup {s} ELSE suspect
    /\ UNCHANGED <<up, ticking, openPositions, durable, exch, alerted, bounds, revived>>

\* SaveOrderAttempt(intent): a failure alerts and the exit goes on.
RecordExit(t) ==
    /\ At(t, "record", "exit")
    /\ \/ /\ attempts' = [attempts EXCEPT ![Id(t)].st = "intent"]
          /\ UNCHANGED <<alerted, bounds>>
       \/ /\ StoreFails
          /\ alerted' = alerted \cup {Sym(t)}
          /\ UNCHANGED attempts
    /\ Goto(t, "send")
    /\ UNCHANGED <<up, ticking, issued, order, memory, positions, exch, history>>

\* ClosePosition drops the whole risk position, whatever quantity filled; a
\* position that is gone already is an alert.
ExitFilled(t) ==
    /\ At(t, "wait", "exit")
    /\ exch[Id(t)].st = "done" /\ exch[Id(t)].filled > 0
    /\ openPositions' = [openPositions EXCEPT ![Sym(t)] = 0]
    /\ alerted' = IF openPositions[Sym(t)] = 0 THEN alerted \cup {Sym(t)} ELSE alerted
    /\ suspect' = IF exch[Id(t)].filled < Qty(t) THEN suspect \cup {Sym(t)} ELSE suspect
    /\ Goto(t, "resolve")
    /\ UNCHANGED <<up, ticking, issued, order, exitInFlight, durable, exch, bounds, revived>>

\* A definite failure leaves the position to be retried.
ExitFailed(t) ==
    /\ At(t, "wait", "exit")
    /\ exch[Id(t)].st # "live" /\ exch[Id(t)].filled = 0
    /\ Goto(t, "reject")
    /\ UNCHANGED <<up, ticking, issued, order, memory, durable, exch, alerted, history, bounds>>

\* Fault: the requested quantity is recorded as filled.
ResolveExitRequested(t) ==
    /\ At(t, "resolve", "exit")
    /\ \/ /\ attempts[Id(t)].st # "none"
          /\ attempts' = [attempts EXCEPT ![Id(t)] = [st |-> "filled", filled |-> Qty(t)]]
          /\ UNCHANGED bounds
       \/ attempts[Id(t)].st = "none" /\ UNCHANGED <<attempts, bounds>>
       \/ StoreFails /\ UNCHANGED attempts
    /\ Goto(t, "row")
    /\ UNCHANGED <<up, ticking, issued, order, memory, positions, exch, alerted, history>>

\* MarkOrderResolved(filled), also after a partial fill.  Without an intent
\* row there is nothing to update.
ResolveExit(t) ==
    /\ At(t, "resolve", "exit")
    /\ \/ /\ attempts[Id(t)].st # "none"
          /\ attempts' = [attempts EXCEPT ![Id(t)] =
                              [st |-> "filled", filled |-> exch[Id(t)].filled]]
          /\ UNCHANGED bounds
       \/ attempts[Id(t)].st = "none" /\ UNCHANGED <<attempts, bounds>>
       \/ StoreFails /\ UNCHANGED attempts
    /\ Goto(t, "row")
    /\ UNCHANGED <<up, ticking, issued, order, memory, positions, exch, alerted, history>>

\* state.ClosePosition of the caller's row.  Without one the row stays open.
CloseExit(t) ==
    /\ At(t, "row", "exit")
    /\ \/ /\ call[t].row # 0
          /\ positions' = [positions EXCEPT ![call[t].row].st = "closed"]
          /\ UNCHANGED <<alerted, suspect, bounds>>
       \/ /\ call[t].row # 0
          /\ StoreFails
          /\ alerted' = alerted \cup {Sym(t)}
          /\ UNCHANGED <<positions, suspect>>
       \/ /\ call[t].row = 0
          /\ suspect' = suspect \cup {Sym(t)}
          /\ UNCHANGED <<positions, alerted, bounds>>
    /\ Release(t)
    /\ Return(t)
    /\ UNCHANGED <<up, ticking, issued, order, openPositions, attempts, exch, revived>>

-----------------------------------------------------------------------------
(***************************************************************************)
(* The broker call, the same for both kinds.                               *)
(***************************************************************************)
\* The request reaches the exchange, or is refused on the way (circuit open,
\* rejected by the broker's risk checks): a definite failure.
Send(t) ==
    /\ up
    /\ call[t].at = "send"
    /\ \/ exch' = [exch EXCEPT ![Id(t)].st = "live"]
       \/ UNCHANGED exch
    /\ Goto(t, "wait")
    /\ UNCHANGED <<up, ticking, issued, order, memory, durable, alerted, history, bounds>>

\* ErrOrderIndeterminate: nothing in memory changes for either kind.
OutcomeUnknown(t) ==
    /\ up
    /\ call[t].at = "wait"
    /\ exch[Id(t)].st # "none"
    /\ suspect' = suspect \cup {Sym(t)}
    /\ Goto(t, "unknown")
    /\ UNCHANGED <<up, ticking, issued, order, memory, durable, exch, alerted, bounds, revived>>

\* Fault: an indeterminate outcome is recorded as a rejection.
MarkUnfilledRejected(t) ==
    /\ up
    /\ call[t].at \in {"reject", "unknown"}
    /\ \/ /\ attempts[Id(t)].st # "none"
          /\ attempts' = [attempts EXCEPT ![Id(t)] = [st |-> "rejected", filled |-> 0]]
          /\ UNCHANGED bounds
       \/ attempts[Id(t)].st = "none" /\ UNCHANGED <<attempts, bounds>>
       \/ StoreFails /\ UNCHANGED attempts
    /\ exitInFlight' = IF order[Id(t)].kind = "exit"
                       THEN exitInFlight \ {Sym(t)} ELSE exitInFlight
    /\ Return(t)
    /\ UNCHANGED <<up, ticking, issued, order, openPositions, positions, exch, alerted, history>>

\* MarkOrderResolved(rejected) or (indeterminate) and return the error.
MarkUnfilled(t) ==
    /\ up
    /\ call[t].at \in {"reject", "unknown"}
    /\ \/ /\ attempts[Id(t)].st # "none"
          /\ attempts' = [attempts EXCEPT ![Id(t)] =
                 [st |-> IF call[t].at = "reject" THEN "rejected" ELSE "indeterminate",
                  filled |-> 0]]
          /\ UNCHANGED bounds
       \/ attempts[Id(t)].st = "none" /\ UNCHANGED <<attempts, bounds>>
       \/ StoreFails /\ UNCHANGED attempts
    /\ exitInFlight' = IF order[Id(t)].kind = "exit"
                       THEN exitInFlight \ {Sym(t)} ELSE exitInFlight
    /\ Return(t)
    /\ UNCHANGED <<up, ticking, issued, order, openPositions, positions, exch, alerted, history>>

\* The exchange fills a live order bit by bit, whether or not anyone waits.
Fill(id) ==
    /\ exch[id].st = "live"
    /\ exch[id].filled < order[id].qty
    /\ exch' = [exch EXCEPT ![id] =
                   [st |-> IF @.filled + 1 = order[id].qty THEN "done" ELSE "live",
                    filled |-> @.filled + 1]]
    /\ UNCHANGED <<up, ticking, issued, order, call, memory, durable, alerted, history, bounds>>

\* It cancels or rejects what is left of one.
Stop(id) ==
    /\ exch[id].st = "live"
    /\ exch' = [exch EXCEPT ![id].st = "done"]
    /\ UNCHANGED <<up, ticking, issued, order, call, memory, durable, alerted, history, bounds>>

-----------------------------------------------------------------------------
(***************************************************************************)
(* Crash and start.                                                        *)
(***************************************************************************)
Crash ==
    /\ up
    /\ crashes < MaxCrashes
    /\ crashes' = crashes + 1
    /\ up' = FALSE
    /\ ticking' = FALSE
    /\ call' = [t \in Threads |-> Idle]
    /\ openPositions' = [s \in Symbols |-> 0]
    /\ exitInFlight' = {}
    /\ UNCHANGED <<issued, order, durable, exch, alerted, history, faults>>

\* state.Reconcile over the open rows and the broker's net book, and the
\* check for attempts left unresolved.
Agrees(s) == RowQty(s) = Held(s) /\ ~UnresolvedOn(s)

\* RestorePosition, row by row in entry order: the last row of a symbol stays,
\* and a symbol without one keeps what it had.
Recovers(s, q) ==
    \/ OpenRows(s) = {} /\ q = openPositions[s]
    \/ \E id \in OpenRows(s) :
          /\ \A other \in OpenRows(s) : other <= id
          /\ q = positions[id].qty

Restored ==
    openPositions' \in {book \in [Symbols -> 0..MaxQty] :
                           \A s \in Symbols : Recovers(s, book[s])}

\* main.go refuses to start while the books disagree or an attempt is
\* unresolved, unless the operator passes -accept-reconcile.  When the
\* attempts cannot be listed it only logs and goes on; RestoreState does the
\* same, with nothing restored, when the open rows cannot be listed.
Start(acceptReconcile) ==
    /\ ~up
    /\ acceptReconcile \/ \A s \in Symbols : RowQty(s) = Held(s)
    /\ up' = TRUE
    /\ ticking' = FALSE
    /\ LET apart == {s \in Symbols : ~Agrees(s)}
           checked == acceptReconcile \/ \A s \in Symbols : ~UnresolvedOn(s)
           lost == {s \in Symbols : OpenRows(s) # {}}
       IN  \/ checked /\ Restored /\ suspect' = suspect \cup apart /\ UNCHANGED bounds
           \/ StoreFails /\ Restored /\ suspect' = suspect \cup apart
           \/ /\ checked /\ StoreFails
              /\ suspect' = suspect \cup apart \cup lost
              /\ UNCHANGED openPositions
    /\ UNCHANGED <<issued, order, call, exitInFlight, durable, exch, alerted, revived>>

\* Runner.Run restores a second time before its first tick, while the control
\* API, and with it /api/kill, is already served.
RestoreAgain ==
    /\ up
    /\ ~ticking
    /\ ticking' = TRUE
    /\ \/ Restored /\ UNCHANGED bounds
       \/ StoreFails /\ UNCHANGED openPositions
    /\ revived' = revived \cup {s \in Symbols : openPositions'[s] # openPositions[s]}
    /\ UNCHANGED <<up, issued, order, call, exitInFlight, durable, exch, alerted, suspect>>

-----------------------------------------------------------------------------
EntryStep(t) ==
    \/ OpenRisk(t) \/ MarginLockFails(t)
    \/ EntryFilled(t) \/ EntryFailed(t)
    \/ ResolveEntry(t) \/ SaveEntry(t)

ExitStep(t) ==
    \/ RecordExit(t)
    \/ ExitFilled(t) \/ ExitFailed(t)
    \/ ResolveExit(t) \/ CloseExit(t)

\* A call in progress moves on.
CallStep(t) == EntryStep(t) \/ ExitStep(t) \/ Send(t) \/ OutcomeUnknown(t) \/ MarkUnfilled(t)

Next ==
    \/ \E t \in Threads, s \in Symbols :
          \/ \E q \in 1..MaxQty : BeginEntry(t, s, q)
          \/ \E row \in Rows(s) \cup {0} : BeginExit(t, s, row)
    \/ \E t \in Threads : CallStep(t)
    \/ \E id \in Orders : Fill(id) \/ Stop(id)
    \/ Crash
    \/ \E acceptReconcile \in BOOLEAN : Start(acceptReconcile)
    \/ RestoreAgain

Spec == Init /\ [][Next]_vars

-----------------------------------------------------------------------------
\* Every call, row and order has the shape the code gives it.
TypeOK ==
    /\ up \in BOOLEAN
    /\ ticking \in BOOLEAN
    /\ issued \in 0..MaxOrders
    /\ order \in [Orders -> Ask]
    /\ call \in [Threads -> Call]
    /\ openPositions \in [Symbols -> 0..MaxQty]
    /\ exitInFlight \subseteq Symbols
    /\ attempts \in [Orders -> Attempt]
    /\ positions \in [Orders -> Row]
    /\ exch \in [Orders -> ExchangeOrder]
    /\ alerted \subseteq Symbols
    /\ suspect \subseteq Symbols
    /\ revived \subseteq Symbols
    /\ crashes \in 0..MaxCrashes
    /\ faults \in 0..MaxFaults

(***************************************************************************)
(* A resolved attempt never lies: the exchange is done with the order (or  *)
(* never had it) and the recorded quantity is what filled.                 *)
(***************************************************************************)
JournalTruthful ==
    \A id \in Orders :
        attempts[id].st \in Final =>
            /\ exch[id].st # "live"
            /\ attempts[id].filled = exch[id].filled

(***************************************************************************)
(* An entry the exchange may still fill is never lost: a crash leaves its  *)
(* attempt unresolved, for the start gate to find.  An exit may only be    *)
(* lost after an alert.                                                    *)
(***************************************************************************)
NoLostOrder ==
    \A id \in Orders :
        exch[id].st = "live" =>
            \/ attempts[id].st \in Unresolved
            \/ order[id].kind = "exit" /\ order[id].sym \in alerted

(***************************************************************************)
(* Two threads never have exits of one symbol in progress (audit R3: the   *)
(* software stop-loss racing /api/kill), and the mark covers the exit.     *)
(***************************************************************************)
Exiting(t, s) == CallOn(t, s) /\ order[Id(t)].kind = "exit"

OneExitPerSymbol ==
    \A s \in Symbols :
        /\ \A t, u \in Threads : Exiting(t, s) /\ Exiting(u, s) => t = u
        /\ s \in exitInFlight <=> \E t \in Threads : Exiting(t, s)

(***************************************************************************)
(* The risk book, the positions table and the exchange agree on every      *)
(* symbol at rest, through partial entry fills, rejections, failed marks,  *)
(* crashes and clean starts.  The exceptions are the ones recorded in      *)
(* suspect: an indeterminate outcome, an exit that filled in part or had   *)
(* no open row to close, overlapping calls, an entry over an open          *)
(* position, a start the operator forced or whose reads failed; the ones   *)
(* in revived; and a durable-write alert.                                  *)
(***************************************************************************)
ThreeBooksAgree ==
    \A s \in Symbols \ (suspect \cup revived \cup alerted) :
        up /\ ~Busy(s) =>
            /\ openPositions[s] = Held(s)
            /\ RowQty(s) = Held(s)

(***************************************************************************)
(* What the risk manager watches at rest would survive a crash: it has an  *)
(* open row, or an unresolved attempt that stops the next start, or the    *)
(* operator was alerted.  Suspect symbols are no exception, revived ones   *)
(* are: SecondRestoreChangesNothing tells their story.                     *)
(***************************************************************************)
RiskIsDurable ==
    \A s \in Symbols \ revived :
        up /\ ~Busy(s) /\ openPositions[s] > 0 =>
            OpenRows(s) # {} \/ UnresolvedOn(s) \/ s \in alerted

(***************************************************************************)
(* broker.go:61-65 asks callers to account for the quantity that filled,   *)
(* never the requested one.  Then what the exchange holds at rest, with    *)
(* every order of the symbol resolved and no alert, would have an open     *)
(* row.  It does not: PlaceExitOrder closes the whole position, in memory  *)
(* and in the table, on a partial exit, and the remainder is unmonitored.  *)
(***************************************************************************)
HeldIsRecorded ==
    \A s \in Symbols \ alerted :
        up /\ ~Busy(s) /\ ~UnresolvedOn(s) /\ Held(s) # 0 => OpenRows(s) # {}

(***************************************************************************)
(* broker.go:37-38 says that a reduce-only order closes or reduces an      *)
(* existing position.  Every exit is one, so with no order working at the  *)
(* exchange the account would never be on the other side of the market.    *)
(* It can be: an order with an indeterminate outcome leaves its risk       *)
(* position as it was, and a later exit sells it, whether the entry never  *)
(* filled or an earlier exit already closed it.                            *)
(***************************************************************************)
ExitNeverReverses ==
    \A s \in Symbols :
        (\A id \in Orders : order[id].sym = s => exch[id].st # "live") => Held(s) >= 0

(***************************************************************************)
(* main.go:452-459 restores before it serves the control API, and calls    *)
(* the second restore in Run "harmless/idempotent if it runs again".  It   *)
(* would change nothing.  It does: a kill served in between may have       *)
(* closed a position whose row is not closed yet, and restoring the row    *)
(* gives the risk manager back a position the exchange no longer holds.    *)
(***************************************************************************)
SecondRestoreChangesNothing == [][RestoreAgain => openPositions' = openPositions]_vars

(***************************************************************************)
(* The durable journal is the one OrderJournal describes.                  *)
(***************************************************************************)
Journal == INSTANCE OrderJournal WITH kind <- [id \in Orders |-> order[id].kind]
JournalSpec == Journal!Spec
=============================================================================
