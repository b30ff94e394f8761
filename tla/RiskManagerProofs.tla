------------------------- MODULE RiskManagerProofs -------------------------
(***************************************************************************)
(* Proofs about RiskManager, for every value of its constants.             *)
(*                                                                         *)
(* BalanceIdentity is not inductive: what a snapshot is worth rests on     *)
(* what the call that writes it has read and on nobody having closed a     *)
(* position since.  The stops rest on the tick loop checking them only     *)
(* between its own entries, and EntriesStopAtKill on there being one tick  *)
(* loop.  IInv says so.                                                    *)
(*                                                                         *)
(* Three more inductive invariants rest on IInv: CapitalOK (the total is   *)
(* the sum of the locks, by the lemmas of Sums), ThrottleOK (each entry of *)
(* the window has its own timestamp) and CurrentOK (a call that moved the  *)
(* balances is on its way to save them).                                   *)
(***************************************************************************)
EXTENDS RiskManager, Sums

\* A price and quantity a position can have.
Lot(x) == x.price \in Prices /\ x.qty \in Fills

\* Calls: entries belong to the tick loop, and a dead process has none.
CallOK(t) ==
    /\ call[t].at = "idle" <=> call[t].kind = "none"
    /\ call[t].at # "idle" => up /\ Sym(t) \in Symbols
    /\ call[t].at = "open" => call[t].kind = "entry"
    /\ call[t].kind = "entry" =>
          /\ t \in Enterers
          /\ ticking
          /\ Lot(call[t].ask)
          /\ call[t].ask.id <= entries
    /\ call[t].kind = "entry" /\ call[t].at # "open" => call[t].ask.id # 0

CallsOK == \A t \in Threads : CallOK(t)

\* Positions and rows are lots of entries already made.
BookOK(s) ==
    /\ Held(s) =>
          /\ Lot(OpenPositions[s])
          /\ OpenPositions[s].peak \in Prices
          /\ OpenPositions[s].id <= entries
    /\ rows[s].id # 0 => Lot(rows[s]) /\ rows[s].id <= entries

BooksOK ==
    /\ ticking => up
    /\ ~up => \A s \in Symbols : ~Held(s)
    /\ \A s \in Symbols : BookOK(s)

\* A stop follows a peak no worse than the entry price; while an entry's
\* outcome is awaited, and before the first tick, nothing has trailed.
StopOK(s) ==
    Held(s) =>
        /\ OpenPositions[s].stop = StopOf(OpenPositions[s])
        /\ \/ OpenPositions[s].peak = OpenPositions[s].price
           \/ Better(OpenPositions[s].side, OpenPositions[s].peak, OpenPositions[s].price)

Restored(s) ==
    /\ OpenPositions[s].peak = OpenPositions[s].price
    /\ rows[s].id # 0 =>
          OpenPositions[s] = PositionOf(rows[s].id, rows[s].price, rows[s].qty, rows[s].side, 0)

StopsOK ==
    /\ \A s \in Symbols : StopOK(s)
    /\ \A t \in Threads : call[t].kind = "entry" /\ call[t].at = "sent" /\ Held(Sym(t)) =>
          OpenPositions[Sym(t)].peak = OpenPositions[Sym(t)].price
    /\ ~ticking => \A s \in Symbols : Held(s) => Restored(s)

\* After the kill at most one entry opened, and then none is validated.
KillOK ==
    /\ ~killSwitch => late = 0
    /\ late <= 1
    /\ late = 1 => Enterers # {} /\ \A t \in Threads : call[t].at # "open"

\* What was read still holds, unless the snapshot is known to be mixed.
SeenOK(t) ==
    ~call[t].seen.mixed =>
        /\ call[t].at \in Saving => call[t].seen.balance = CurrentBalance
        /\ call[t].at \in Saving \ {"realized"} => call[t].seen.realized = RealizedPnL

SnapshotOK ==
    snapshot.saved =>
        /\ snapshot.initial > 0
        /\ ~torn /\ ~snapshot.mixed => snapshot.balance = snapshot.initial + snapshot.realized

MoneyOK ==
    /\ InitialBalance > 0
    /\ BalanceIdentity
    /\ SnapshotOK
    /\ \A t \in Threads : SeenOK(t)

\* The part of TypeOK the rest needs.
Types ==
    /\ up \in BOOLEAN /\ ticking \in BOOLEAN /\ killSwitch \in BOOLEAN /\ torn \in BOOLEAN
    /\ call \in [Threads -> Call]
    /\ InitialBalance \in Int /\ CurrentBalance \in Int /\ RealizedPnL \in Int
    /\ SessionBalanceUsed \in Int
    /\ OpenPositions \in [Symbols -> Position]
    /\ rows \in [Symbols -> Row]
    /\ snapshot \in Snapshot
    /\ entries \in 0..MaxEntries
    /\ late \in Nat

IInv == Types /\ CallsOK /\ BooksOK /\ StopsOK /\ KillOK /\ MoneyOK

-----------------------------------------------------------------------------
(***************************************************************************)
(* Values.                                                                 *)
(***************************************************************************)
\* What fills is a positive number.
LEMMA FillsAreNat == Fills \subseteq Nat \ {0} /\ Quantities \subseteq Fills
  BY RiskManagerAssumption DEF Fills

\* A position made from a lot is well typed.
LEMMA PositionTyped ==
    ASSUME NEW id \in 0..MaxEntries, NEW p \in Prices, NEW q \in Fills,
           NEW side \in Sides, NEW margin \in Margins \cup {0}
    PROVE  PositionOf(id, p, q, side, margin) \in Position
  <1>1. p \in Int /\ q \in Int /\ margin \in Int
    BY RiskManagerAssumption, FillsAreNat
  <1>2. Charges(p, q, side) \in Int /\ StopAt(p, side) \in Int
    BY RiskManagerAssumption
  <1>3. p * q \in Int
    BY <1>1
  <1>4. Cost(p, q, side, margin) \in Int
    BY <1>1, <1>2, <1>3 DEF Cost
  <1>5. id \in 0..MaxEntries /\ p \in Prices \cup {0} /\ q \in Fills \cup {0}
    OBVIOUS
  <1>6. StopAt(p, side) \in Int
    BY <1>2
  <1> HIDE DEF Cost
  <1> QED
    BY <1>4, <1>5, <1>6 DEF PositionOf, Position

\* The net result of closing a position is an amount.
LEMMA NetTyped ==
    ASSUME NEW position \in Position, Lot(position), NEW p \in Prices
    PROVE  NetPnL(position, p) \in Int
  <1> DEFINE price == position.price
             qty == position.qty
             side == position.side
  <1>1. price \in Prices /\ qty \in Fills /\ side \in Sides /\ Opposite(side) \in Sides
    BY DEF Lot, Position, Sides, Opposite
  <1> HIDE DEF price, qty, side
  <1>2. price \in Int /\ qty \in Int /\ p \in Int
    BY <1>1, RiskManagerAssumption, FillsAreNat
  <1>3. Charges(price, qty, side) \in Int /\ Charges(p, qty, Opposite(side)) \in Int
    BY <1>1, RiskManagerAssumption
  <1>4. Gain(side, price, p, qty) \in Int
    BY <1>2 DEF Gain
  <1> QED
    BY <1>3, <1>4 DEF NetPnL, price, qty, side

\* Marking a call's snapshot as mixed keeps its type.
LEMMA MixedTyped == ASSUME NEW c \in Call PROVE Mixed(c) \in Call
  <1>1. c.seen \in Snapshot
    BY DEF Call
  <1>2. [c.seen EXCEPT !.mixed = TRUE] \in Snapshot
    BY <1>1 DEF Snapshot
  <1> QED
    BY <1>2 DEF Mixed, Call

-----------------------------------------------------------------------------
(***************************************************************************)
(* Initially.                                                              *)
(***************************************************************************)
LEMMA InitIInv == Init => IInv
  <1> SUFFICES ASSUME Init PROVE IInv
    OBVIOUS
  <1> USE RiskManagerAssumption
  <1>1. NoPosition \in Position /\ Idle \in Call /\ NoRow \in Row /\ NoSnapshot \in Snapshot
    BY DEF NoPosition, Position, Idle, Call, Stages, NoRow, Row, NoSnapshot, Snapshot, Sides
  <1>2. Types
    <2>1. InitialBalance \in Int /\ CurrentBalance \in Int /\ entries \in 0..MaxEntries
      BY DEF Init
    <2>2. /\ call \in [Threads -> Call] /\ OpenPositions \in [Symbols -> Position]
          /\ rows \in [Symbols -> Row] /\ snapshot \in Snapshot
      BY <1>1 DEF Init
    <2>3. /\ up \in BOOLEAN /\ ticking \in BOOLEAN /\ killSwitch \in BOOLEAN /\ torn \in BOOLEAN
      BY DEF Init
    <2>4. RealizedPnL \in Int /\ SessionBalanceUsed \in Int /\ late \in Nat
      BY DEF Init
    <2> QED
      BY <2>1, <2>2, <2>3, <2>4 DEF Types
  <1>3. CallsOK
    BY DEF Init, CallsOK, CallOK, Idle
  <1>4. BooksOK
    BY DEF Init, BooksOK, BookOK, Held, NoPosition, NoRow
  <1>5. StopsOK
    BY DEF Init, StopsOK, StopOK, Held, NoPosition, Idle
  <1>6. KillOK
    BY DEF Init, KillOK
  <1>7. MoneyOK
    <2>1. InitialBalance > 0 /\ CurrentBalance = InitialBalance + RealizedPnL
      BY DEF Init
    <2>2. SnapshotOK /\ \A t \in Threads : SeenOK(t)
      BY DEF Init, SnapshotOK, SeenOK, NoSnapshot, Idle, Saving
    <2> QED
      BY <2>1, <2>2 DEF MoneyOK, BalanceIdentity
  <1> QED
    BY <1>2, <1>3, <1>4, <1>5, <1>6, <1>7 DEF IInv

-----------------------------------------------------------------------------
(***************************************************************************)
(* Types.                                                                  *)
(***************************************************************************)
LEMMA TypeStep == IInv /\ [Next]_vars => Types'
  <1> SUFFICES ASSUME IInv, [Next]_vars PROVE Types'
    OBVIOUS
  <1> USE RiskManagerAssumption
  <1>1. Types /\ CallsOK /\ BooksOK
    BY DEF IInv
  <1>n. NoPosition \in Position /\ Idle \in Call /\ NoRow \in Row
    BY DEF NoPosition, Position, Idle, Call, Stages, NoRow, Row, NoSnapshot, Snapshot, Sides
  <1>i. ASSUME NEW t \in Threads, call' = [call EXCEPT ![t] = Idle]
        PROVE  call' \in [Threads -> Call]
    BY <1>1, <1>n, <1>i DEF Types
  <1>g. ASSUME NEW t \in Threads, NEW stage \in Stages, call' = [call EXCEPT ![t].at = stage]
        PROVE  call' \in [Threads -> Call]
    BY <1>1, <1>g DEF Types, Call
  <1>2. ASSUME NEW t \in Threads, NEW s \in Symbols, NEW p \in Prices, NEW q \in Quantities,
               NEW side \in Sides, NEW margin \in Margins \cup {0},
               ValidateOrder(t, s, p, q, side, margin)
        PROVE  Types'
    <2>1. [id |-> 0, price |-> p, qty |-> q, side |-> side] \in Row
      BY FillsAreNat DEF Row
    <2>2. [Idle EXCEPT !.at = "open", !.kind = "entry", !.sym = s, !.margin = margin,
                       !.ask = [id |-> 0, price |-> p, qty |-> q, side |-> side]] \in Call
      BY <1>n, <2>1 DEF Idle, Call, Stages
    <2>3. call' \in [Threads -> Call]
      BY <1>1, <1>2, <2>2 DEF ValidateOrder, Types
    <2> QED
      BY <1>1, <1>2, <2>3 DEF ValidateOrder, Types, money, capital, throttle, durable, history, bounds
  <1>3. ASSUME NEW t \in Threads, OpenPosition(t)
        PROVE  Types'
    <2> DEFINE ask == call[t].ask
               position == PositionOf(entries + 1, ask.price, ask.qty, ask.side, call[t].margin)
    <2>1. call[t] \in Call /\ ask \in Row /\ entries + 1 \in 0..MaxEntries
      BY <1>1, <1>3 DEF Types, Call, OpenPosition
    <2>2. Lot(ask) /\ ask.side \in Sides /\ call[t].margin \in Margins \cup {0}
      BY <1>1, <1>3, <2>1 DEF Row, Call, CallsOK, CallOK, OpenPosition, At
    <2>3. position \in Position
      BY <2>1, <2>2, PositionTyped DEF Lot
    <2>4. OpenPositions' \in [Symbols -> Position]
      BY <1>1, <1>3, <2>3 DEF OpenPosition, Types
    <2>5. SessionBalanceUsed' \in Int
      <3>1. position.locked \in Int
        BY <2>3 DEF Position
      <3>2. SessionBalanceUsed' = SessionBalanceUsed + position.locked
        BY <1>3 DEF OpenPosition
      <3> HIDE DEF position
      <3> QED
        BY <1>1, <3>1, <3>2 DEF Types
    <2>6. call' \in [Threads -> Call]
      <3>1. [ask EXCEPT !.id = entries + 1] \in Row
        BY <2>1 DEF Row
      <3>2. [call[t] EXCEPT !.at = "sent", !.ask = [ask EXCEPT !.id = entries + 1]] \in Call
        BY <2>1, <3>1 DEF Call, Stages
      <3>3. call' = [call EXCEPT ![t] =
                        [call[t] EXCEPT !.at = "sent", !.ask = [ask EXCEPT !.id = entries + 1]]]
        BY <1>1, <1>3 DEF OpenPosition, Types, Call
      <3> QED
        BY <1>1, <3>2, <3>3 DEF Types
    <2>7. entries' \in 0..MaxEntries /\ late' \in Nat
      BY <1>1, <1>3 DEF OpenPosition, Types
    <2> QED
      BY <1>1, <1>3, <2>4, <2>5, <2>6, <2>7 DEF OpenPosition, Types, money, durable, history
  <1>4. ASSUME NEW t \in Threads, RollbackPosition(t)
        PROVE  Types'
    <2>1. /\ SessionBalanceUsed' \in Int
          /\ OpenPositions' \in [Symbols -> Position]
      <3>1. Sym(t) \in Symbols
        BY <1>1, <1>4 DEF CallsOK, CallOK, RollbackPosition, At
      <3>2. OpenPositions[Sym(t)].locked \in Int
        BY <1>1, <3>1 DEF Types, Position
      <3> QED
        BY <1>1, <1>4, <1>n, <3>2 DEF RollbackPosition, Types
    <2>2. call' \in [Threads -> Call]
      BY <1>4, <1>i DEF RollbackPosition, Return
    <2>3. UNCHANGED <<up, ticking, killSwitch, torn, money, rows, snapshot, entries, late>>
      BY <1>4 DEF RollbackPosition, durable, history
    <2> QED
      BY <1>1, <2>1, <2>2, <2>3 DEF Types, money
  <1>5. ASSUME NEW t \in Threads, NEW p \in Prices, NEW q \in 1..call[t].ask.qty,
               UpdatePositionPrice(t, p, q)
        PROVE  Types'
    <2> DEFINE ask == call[t].ask
               old == OpenPositions[Sym(t)]
               new == PositionOf(old.id, p, q, old.side, old.margin)
    <2>1. /\ call[t] \in Call /\ ask \in Row /\ Lot(ask) /\ Sym(t) \in Symbols
          /\ old \in Position
      BY <1>1, <1>5 DEF Types, Call, CallsOK, CallOK, UpdatePositionPrice, At
    <2>2. q \in Fills
      BY <1>5, <2>1 DEF Lot, Fills
    <2>3. /\ old.id \in 0..MaxEntries /\ old.side \in Sides /\ old.margin \in Margins \cup {0}
          /\ old.locked \in Int
      BY <2>1 DEF Position
    <2> HIDE DEF old
    <2>4. new \in Position
      BY <2>2, <2>3, PositionTyped
    <2>5. new.locked \in Int
      BY <2>4 DEF Position
    <2> HIDE DEF new
    <2>6. OpenPositions' \in [Symbols -> Position] /\ SessionBalanceUsed' \in Int
      <3>1. \/ /\ OpenPositions' = [OpenPositions EXCEPT ![Sym(t)] = new]
               /\ SessionBalanceUsed' = SessionBalanceUsed + new.locked - old.locked
            \/ UNCHANGED <<OpenPositions, SessionBalanceUsed>>
        BY <1>5 DEF UpdatePositionPrice, old, new
      <3> QED
        BY <1>1, <2>3, <2>4, <2>5, <3>1 DEF Types
    <2>7. call' \in [Threads -> Call]
      <3>1. [ask EXCEPT !.price = p, !.qty = q] \in Row
        BY <2>1, <2>2 DEF Row
      <3>2. [call[t] EXCEPT !.at = "row", !.ask = [ask EXCEPT !.price = p, !.qty = q]] \in Call
        BY <2>1, <3>1 DEF Call, Stages
      <3>3. call' = [call EXCEPT ![t] =
                [call[t] EXCEPT !.at = "row", !.ask = [ask EXCEPT !.price = p, !.qty = q]]]
        BY <1>1, <1>5 DEF UpdatePositionPrice, Types, Call
      <3> QED
        BY <1>1, <3>2, <3>3 DEF Types
    <2>8. UNCHANGED <<up, ticking, killSwitch, torn, money, rows, snapshot, entries, late>>
      BY <1>5 DEF UpdatePositionPrice, durable, history, throttle
    <2> QED
      BY <1>1, <2>6, <2>7, <2>8 DEF Types, money
  <1>6. ASSUME NEW t \in Threads, NEW s \in Symbols, BeginExit(t, s)
        PROVE  Types'
    <2>1. [Idle EXCEPT !.at = "sent", !.kind = "exit", !.sym = s] \in Call
      BY <1>n DEF Idle, Call, Stages
    <2>2. call' \in [Threads -> Call]
      BY <1>1, <1>6, <2>1 DEF BeginExit, Types
    <2>3. UNCHANGED <<up, ticking, killSwitch, torn, money, SessionBalanceUsed, OpenPositions,
                      rows, snapshot, entries, late>>
      BY <1>6 DEF BeginExit, durable, history, throttle, capital
    <2> QED
      BY <1>1, <2>2, <2>3 DEF Types, money
  <1>7. ASSUME NEW t \in Threads, OrderFails(t)
        PROVE  Types'
    <2>1. call' \in [Threads -> Call]
      BY <1>7, <1>i DEF OrderFails, Return
    <2>2. UNCHANGED <<up, ticking, killSwitch, torn, money, SessionBalanceUsed, OpenPositions,
                      rows, snapshot, entries, late>>
      BY <1>7 DEF OrderFails, durable, history, throttle, capital
    <2> QED
      BY <1>1, <2>1, <2>2 DEF Types, money
  <1>8. ASSUME NEW t \in Threads, NEW p \in Prices, ClosePosition(t, p)
        PROVE  Types'
    <2>1. Sym(t) \in Symbols
      BY <1>1, <1>8 DEF CallsOK, CallOK, ClosePosition, At
    <2>2. UNCHANGED <<up, ticking, killSwitch, torn, rows, snapshot, entries, late>>
      BY <1>8 DEF ClosePosition, durable, history, throttle
    <2>3. CASE ~Held(Sym(t))
      <3>1. call' \in [Threads -> Call]
        BY <1>8, <2>3, <1>g DEF ClosePosition, Goto, Stages
      <3>2. UNCHANGED <<money, SessionBalanceUsed, OpenPositions>>
        BY <1>8, <2>3 DEF ClosePosition, capital
      <3> QED
        BY <1>1, <2>2, <3>1, <3>2 DEF Types, money
    <2>4. CASE Held(Sym(t))
      <3> DEFINE net == NetPnL(OpenPositions[Sym(t)], p)
      <3>1. net \in Int /\ OpenPositions[Sym(t)].locked \in Int
        BY <1>1, <2>1, <2>4, NetTyped DEF Types, Position, BooksOK, BookOK
      <3>2. /\ CurrentBalance' = CurrentBalance + net
            /\ RealizedPnL' = RealizedPnL + net
            /\ SessionBalanceUsed' = SessionBalanceUsed - OpenPositions[Sym(t)].locked
            /\ OpenPositions' = [OpenPositions EXCEPT ![Sym(t)] = NoPosition]
            /\ MixSnapshots(t, "row")
            /\ InitialBalance' = InitialBalance
        BY <1>8, <2>4 DEF ClosePosition
      <3> HIDE DEF net
      <3>3. /\ CurrentBalance' \in Int /\ RealizedPnL' \in Int /\ InitialBalance' \in Int
            /\ SessionBalanceUsed' \in Int
        BY <1>1, <3>1, <3>2 DEF Types
      <3>4. OpenPositions' \in [Symbols -> Position]
        BY <1>1, <1>n, <3>2 DEF Types
      <3>5. call' \in [Threads -> Call]
        <4>1. ASSUME NEW u \in Threads
              PROVE  /\ [call[u] EXCEPT !.at = "row"] \in Call
                     /\ Mixed(call[u]) \in Call
          BY <1>1, MixedTyped DEF Types, Call, Stages
        <4> QED
          BY <1>1, <3>2, <4>1 DEF MixSnapshots, Types
      <3> QED
        BY <1>1, <2>2, <3>3, <3>5, <3>4 DEF Types
    <2> QED
      BY <2>3, <2>4
  <1>9. ASSUME NEW t \in Threads, SaveRow(t)
        PROVE  Types'
    <2>1. call' \in [Threads -> Call]
      BY <1>9, <1>g DEF SaveRow, Goto, Stages
    <2>2. call[t].ask \in Row
      BY <1>1 DEF Types, Call
    <2>3. rows' \in [Symbols -> Row]
      BY <1>1, <1>n, <1>9, <2>2 DEF SaveRow, Types
    <2>4. UNCHANGED <<up, ticking, killSwitch, torn, money, SessionBalanceUsed, OpenPositions,
                      snapshot, entries, late>>
      BY <1>9 DEF SaveRow, history, throttle, capital
    <2> QED
      BY <1>1, <2>1, <2>3, <2>4 DEF Types, money
  <1>10. ASSUME NEW t \in Threads, NEW stage, NEW next \in Stages, NEW seen \in Snapshot,
               Read(t, stage, next, seen)
        PROVE  Types'
    <2>1. call' \in [Threads -> Call]
      <3>1. [call[t] EXCEPT !.at = next, !.seen = seen] \in Call
        <4>1. PICK c \in Call : c = call[t]
          BY <1>1 DEF Types
        <4>2. [c EXCEPT !.at = next, !.seen = seen] \in Call
          BY DEF Call
        <4> QED
          BY <4>1, <4>2
      <3>2. call' = [call EXCEPT ![t] = [call[t] EXCEPT !.at = next, !.seen = seen]]
        BY <1>1, <1>10 DEF Read, Types
      <3> QED
        BY <1>1, <3>1, <3>2 DEF Types
    <2>2. UNCHANGED <<up, ticking, killSwitch, torn, money, SessionBalanceUsed, OpenPositions,
                      rows, snapshot, entries, late>>
      BY <1>10 DEF Read, durable, history, throttle, capital
    <2> QED
      BY <1>1, <2>1, <2>2 DEF Types, money
  <1>11. ASSUME NEW t \in Threads,
                \/ ReadBalance(t) \/ ReadRealized(t) \/ ReadGross(t) \/ ReadFree(t)
         PROVE  Types'
    <2>1. /\ Seen(t) \in Snapshot /\ Seen(t).used \in Int
          /\ CurrentBalance \in Int /\ RealizedPnL \in Int /\ SessionBalanceUsed \in Int
      BY <1>1 DEF Types, Call, Seen, Snapshot
    <2>2. [Seen(t) EXCEPT !.balance = CurrentBalance] \in Snapshot
      BY <2>1 DEF Snapshot
    <2>3. [Seen(t) EXCEPT !.realized = RealizedPnL] \in Snapshot
      BY <2>1 DEF Snapshot
    <2>4. [Seen(t) EXCEPT !.used = CurrentBalance] \in Snapshot
      BY <2>1 DEF Snapshot
    <2>5. [Seen(t) EXCEPT !.used = @ - (CurrentBalance - SessionBalanceUsed)] \in Snapshot
      <3>1. Seen(t).used - (CurrentBalance - SessionBalanceUsed) \in Int
        BY <2>1
      <3> QED
        BY <2>1, <3>1 DEF Snapshot
    <2>6. {"realized", "gross", "free", "write"} \subseteq Stages
      BY DEF Stages
    <2>7. CASE ReadBalance(t)
      BY <1>10, <2>2, <2>6, <2>7 DEF ReadBalance
    <2>8. CASE ReadRealized(t)
      BY <1>10, <2>3, <2>6, <2>8 DEF ReadRealized
    <2>9. CASE ReadGross(t)
      BY <1>10, <2>4, <2>6, <2>9 DEF ReadGross
    <2>10. CASE ReadFree(t)
      BY <1>10, <2>5, <2>6, <2>10 DEF ReadFree
    <2> QED
      BY <1>11, <2>7, <2>8, <2>9, <2>10
  <1>12. ASSUME NEW t \in Threads, SaveRiskSnapshot(t)
         PROVE  Types'
    <2>1. call' \in [Threads -> Call]
      BY <1>12, <1>i DEF SaveRiskSnapshot, Return
    <2>2. snapshot' \in Snapshot
      <3>1. call[t].seen \in Snapshot /\ InitialBalance \in Int
        BY <1>1 DEF Types, Call
      <3>2. [call[t].seen EXCEPT !.initial = InitialBalance] \in Snapshot
        BY <3>1 DEF Snapshot
      <3>3. [call[t].seen EXCEPT !.saved = TRUE, !.initial = InitialBalance] \in Snapshot
        BY <3>1, <3>2 DEF Snapshot
      <3> QED
        BY <1>1, <1>12, <3>3 DEF SaveRiskSnapshot, Types
    <2>3. UNCHANGED <<up, ticking, killSwitch, torn, money, SessionBalanceUsed, OpenPositions,
                      rows, entries, late>>
      BY <1>12 DEF SaveRiskSnapshot, throttle, capital
    <2> QED
      BY <1>1, <2>1, <2>2, <2>3 DEF Types, money
  <1>13. ASSUME NEW s \in Symbols, NEW p \in Prices, CheckStop(s, p)
         PROVE  Types'
    <2> DEFINE stop == Tighter(OpenPositions[s].side, OpenPositions[s].stop,
                               TrailAt(p, OpenPositions[s].side))
    <2>1. OpenPositions[s] \in Position /\ OpenPositions[s].side \in Sides
      BY <1>1 DEF Types, Position
    <2>2. stop \in Int
      BY <2>1 DEF Tighter, Position
    <2>3. [OpenPositions[s] EXCEPT !.peak = p, !.stop = stop] \in Position
      BY <2>1, <2>2 DEF Position
    <2>4. OpenPositions' = [OpenPositions EXCEPT ![s] =
                               [OpenPositions[s] EXCEPT !.peak = p, !.stop = stop]]
      BY <1>1, <1>13 DEF CheckStop, Types
    <2>5. OpenPositions' \in [Symbols -> Position]
      BY <1>1, <2>3, <2>4 DEF Types
    <2>6. UNCHANGED <<up, ticking, killSwitch, torn, call, money, SessionBalanceUsed,
                      rows, snapshot, entries, late>>
      BY <1>13 DEF CheckStop, durable, history, throttle
    <2> QED
      BY <1>1, <2>5, <2>6 DEF Types, money
  <1>14. CASE TriggerKillSwitch
    BY <1>1, <1>14 DEF TriggerKillSwitch, Types, money, capital, throttle, durable, history
  <1>15. CASE Advance
    BY <1>1, <1>15 DEF Advance, Types, money, capital, throttle, durable, history
  <1>16. CASE Crash
    <2>1. InitialBalance' \in Int /\ CurrentBalance' \in Int /\ RealizedPnL' \in Int
          /\ SessionBalanceUsed' \in Int /\ late' \in Nat
      BY <1>16 DEF Crash
    <2>2. call' \in [Threads -> Call] /\ OpenPositions' \in [Symbols -> Position]
      BY <1>n, <1>16 DEF Crash
    <2>3. up' \in BOOLEAN /\ ticking' \in BOOLEAN /\ killSwitch' \in BOOLEAN
      BY <1>16 DEF Crash
    <2>4. UNCHANGED <<torn, rows, snapshot, entries>>
      BY <1>16 DEF Crash, durable, history
    <2> QED
      BY <1>1, <2>1, <2>2, <2>3, <2>4 DEF Types
  <1>17. ASSUME RestoreState
         PROVE  /\ InitialBalance' \in Int /\ CurrentBalance' \in Int /\ RealizedPnL' \in Int
                /\ SessionBalanceUsed' \in Int
                /\ OpenPositions' \in [Symbols -> Position]
                /\ torn' \in BOOLEAN
    <2>1. ASSUME RestorePositions
          PROVE  OpenPositions' \in [Symbols -> Position]
      <3>1. ASSUME NEW s \in Symbols, rows[s].id # 0
            PROVE  PositionOf(rows[s].id, rows[s].price, rows[s].qty, rows[s].side, 0) \in Position
        <4>1. Lot(rows[s]) /\ rows[s].id \in 0..MaxEntries /\ rows[s].side \in Sides
          BY <1>1, <3>1 DEF BooksOK, BookOK, Types, Row
        <4> QED
          BY <4>1, PositionTyped DEF Lot
      <3> QED
        BY <1>1, <2>1, <3>1 DEF RestorePositions, Types
    <2>2. ASSUME RestoreSnapshot
          PROVE  /\ InitialBalance' \in Int /\ CurrentBalance' \in Int /\ RealizedPnL' \in Int
                 /\ SessionBalanceUsed' \in Int
      BY <1>1, <2>2 DEF RestoreSnapshot, Types, Snapshot, money
    <2>3. ASSUME RestoreSnapshot
          PROVE  torn' \in BOOLEAN
      BY <1>1, <2>3 DEF RestoreSnapshot, Types, history
    <2>4. CASE RestorePositions /\ RestoreSnapshot
      BY <2>1, <2>2, <2>3, <2>4
    <2>5. CASE RestoreSnapshot /\ UNCHANGED OpenPositions
      BY <1>1, <2>2, <2>3, <2>5 DEF Types
    <2>6. CASE RestorePositions /\ UNCHANGED <<money, SessionBalanceUsed, torn>>
      BY <1>1, <2>1, <2>6 DEF Types, money
    <2> QED
      BY <1>17, <2>4, <2>5, <2>6 DEF RestoreState
  <1>18. CASE Start
    <2>1. RestoreState
      BY <1>18 DEF Start
    <2>2. up' \in BOOLEAN
      BY <1>18 DEF Start
    <2>3. UNCHANGED <<ticking, killSwitch, call, rows, snapshot, entries, late>>
      BY <1>18 DEF Start, throttle, durable
    <2> QED
      BY <1>1, <1>17, <2>1, <2>2, <2>3 DEF Types
  <1>19. CASE RestoreAgain
    <2>1. RestoreState
      BY <1>19 DEF RestoreAgain
    <2>2. ticking' \in BOOLEAN
      BY <1>19 DEF RestoreAgain
    <2>3. call' \in [Threads -> Call]
      BY <1>1, <1>19, MixedTyped DEF RestoreAgain, Types
    <2>4. UNCHANGED <<up, killSwitch, rows, snapshot, entries, late>>
      BY <1>19 DEF RestoreAgain, throttle, durable
    <2> QED
      BY <1>1, <1>17, <2>1, <2>2, <2>3, <2>4 DEF Types
  <1>20. CASE UNCHANGED vars
    BY <1>1, <1>20 DEF vars, Types, money, capital, throttle, durable, history
  <1> QED
    BY <1>2, <1>3, <1>4, <1>5, <1>6, <1>7, <1>8, <1>9, <1>11, <1>12, <1>13, <1>14, <1>15,
       <1>16, <1>18, <1>19, <1>20
    DEF Next, Begin, CallStep, EntryStep, ExitStep, SaveStep

-----------------------------------------------------------------------------
(***************************************************************************)
(* Calls.                                                                  *)
(***************************************************************************)
\* The calls stay well formed when one returns or moves on unharmed.
LEMMA CallsReturn ==
    ASSUME IInv, UNCHANGED <<up, ticking, entries>>,
           NEW t \in Threads, call' = [call EXCEPT ![t] = Idle]
    PROVE  CallsOK'
  BY DEF IInv, Types, CallsOK, CallOK, Idle, Sym

\* A call that goes on keeps what is said of calls while it names the same order.
LEMMA CallsMove ==
    ASSUME IInv, UNCHANGED <<up, ticking, entries>>,
           NEW t \in Threads, NEW c, call' = [call EXCEPT ![t] = c],
           call[t].at \notin {"idle", "open"}, c.at \notin {"idle", "open"},
           c.kind = call[t].kind, c.sym = call[t].sym, c.ask.id = call[t].ask.id,
           Lot(call[t].ask) => Lot(c.ask)
    PROVE  CallsOK'
  <1>1. ASSUME NEW u \in Threads PROVE CallOK(u)'
    <2>1. CallOK(u)
      BY DEF IInv, CallsOK
    <2>2. CASE u = t
      BY <2>1, <2>2 DEF IInv, Types, CallOK, Sym, Lot
    <2>3. CASE u # t
      BY <2>1, <2>3 DEF IInv, Types, CallOK, Sym, Lot
    <2> QED
      BY <2>2, <2>3
  <1> QED
    BY <1>1 DEF CallsOK

\* Every step keeps what is said of the calls under way.
LEMMA CallsStep == IInv /\ [Next]_vars => CallsOK'
  <1> SUFFICES ASSUME IInv, [Next]_vars PROVE CallsOK'
    OBVIOUS
  <1> USE RiskManagerAssumption
  <1>1. Types /\ CallsOK
    BY DEF IInv
  <1>2. ASSUME NEW t \in Threads, NEW s \in Symbols, NEW p \in Prices, NEW q \in Quantities,
               NEW side \in Sides, NEW margin \in Margins \cup {0},
               ValidateOrder(t, s, p, q, side, margin)
        PROVE  CallsOK'
    <2> DEFINE c == [Idle EXCEPT !.at = "open", !.kind = "entry", !.sym = s, !.margin = margin,
                                 !.ask = [id |-> 0, price |-> p, qty |-> q, side |-> side]]
    <2>1. /\ c.at = "open" /\ c.kind = "entry" /\ c.sym = s
          /\ c.ask.price = p /\ c.ask.qty = q /\ c.ask.id = 0
      BY DEF Idle
    <2>2. call' = [call EXCEPT ![t] = c] /\ up /\ ticking /\ t \in Enterers
      BY <1>2 DEF ValidateOrder, Free
    <2>3. UNCHANGED <<up, ticking, entries>>
      BY <1>2 DEF ValidateOrder, throttle
    <2> HIDE DEF c
    <2>4. /\ Lot(c.ask)
          /\ c.ask.id <= entries
      <3>1. c.ask.price \in Prices /\ c.ask.qty \in Fills
        BY <2>1, FillsAreNat
      <3>2. c.ask.id <= entries
        BY <1>1, <2>1 DEF Types
      <3> QED
        BY <3>1, <3>2 DEF Lot
    <2>5. ASSUME NEW u \in Threads PROVE CallOK(u)'
      <3>1. CASE u = t
        <4>1. call'[u] = c
          BY <1>1, <2>2, <3>1 DEF Types
        <4> QED
          BY <2>1, <2>2, <2>3, <2>4, <3>1, <4>1 DEF CallOK, Sym, Lot
      <3>2. CASE u # t
        BY <1>1, <2>2, <2>3, <3>2 DEF CallsOK, CallOK, Sym, Types, Lot
      <3> QED
        BY <3>1, <3>2
    <2> QED
      BY <2>5 DEF CallsOK
  <1>3. ASSUME NEW t \in Threads, OpenPosition(t)
        PROVE  CallsOK'
    <2> DEFINE c == [call[t] EXCEPT !.at = "sent", !.ask = [@ EXCEPT !.id = entries + 1]]
    <2>1. call' = [call EXCEPT ![t] = c] /\ UNCHANGED <<up, ticking>> /\ entries' = entries + 1
      BY <1>1, <1>3 DEF OpenPosition, Types
    <2>2. /\ c.at = "sent" /\ c.kind = "entry" /\ c.sym = call[t].sym
          /\ c.ask.price = call[t].ask.price /\ c.ask.qty = call[t].ask.qty
          /\ c.ask.id = entries + 1
      <3>1. call[t] \in Call /\ call[t].ask \in Row /\ call[t].kind = "entry"
        BY <1>1, <1>3 DEF OpenPosition, At, Types, Call
      <3>2. c.at = "sent" /\ c.kind = call[t].kind /\ c.sym = call[t].sym
        BY <3>1 DEF Call
      <3>3. c.ask = [call[t].ask EXCEPT !.id = entries + 1]
        BY <3>1 DEF Call
      <3> HIDE DEF c
      <3> QED
        BY <3>1, <3>2, <3>3 DEF Row
    <2> HIDE DEF c
    <2>3. CallOK(t) /\ call[t].at = "open" /\ entries \in Nat
      BY <1>1, <1>3 DEF CallsOK, OpenPosition, At, Types
    <2>4. ASSUME NEW u \in Threads PROVE CallOK(u)'
      <3>1. CASE u = t
        <4>1. call'[u] = c
          BY <1>1, <2>1, <3>1 DEF Types
        <4> QED
          BY <2>1, <2>2, <2>3, <3>1, <4>1 DEF CallOK, Sym, Lot
      <3>2. CASE u # t
        <4>1. call'[u] = call[u] /\ CallOK(u) /\ call[u].ask.id \in Int
          BY <1>1, <2>1, <3>2 DEF CallsOK, Types, Call, Row
        <4> QED
          BY <2>1, <2>3, <4>1 DEF CallOK, Sym, Lot
      <3> QED
        BY <3>1, <3>2
    <2> QED
      BY <2>4 DEF CallsOK
  <1>4. ASSUME NEW t \in Threads,
               RollbackPosition(t) \/ OrderFails(t) \/ SaveRiskSnapshot(t)
        PROVE  CallsOK'
    <2>1. call' = [call EXCEPT ![t] = Idle]
      BY <1>4 DEF RollbackPosition, OrderFails, SaveRiskSnapshot, Return
    <2>2. UNCHANGED <<up, ticking, entries>>
      BY <1>4 DEF RollbackPosition, OrderFails, SaveRiskSnapshot, throttle
    <2> QED
      BY <2>1, <2>2, CallsReturn
  <1>5. ASSUME NEW t \in Threads, NEW p \in Prices, NEW q \in 1..call[t].ask.qty,
               UpdatePositionPrice(t, p, q)
        PROVE  CallsOK'
    <2> DEFINE c == [call[t] EXCEPT !.at = "row", !.ask = [@ EXCEPT !.price = p, !.qty = q]]
    <2>1. call' = [call EXCEPT ![t] = c] /\ UNCHANGED <<up, ticking, entries>>
      BY <1>1, <1>5 DEF UpdatePositionPrice, Types, throttle
    <2>2. /\ c.at = "row" /\ c.kind = call[t].kind /\ c.sym = call[t].sym
          /\ c.ask.price = p /\ c.ask.qty = q /\ c.ask.id = call[t].ask.id
      <3>1. call[t] \in Call /\ call[t].ask \in Row
        BY <1>1 DEF Types, Call
      <3>2. c.at = "row" /\ c.kind = call[t].kind /\ c.sym = call[t].sym
        BY <3>1 DEF Call
      <3>3. c.ask = [call[t].ask EXCEPT !.price = p, !.qty = q]
        BY <3>1 DEF Call
      <3> HIDE DEF c
      <3> QED
        BY <3>1, <3>2, <3>3 DEF Row
    <2>3. call[t].at = "sent"
      BY <1>5 DEF UpdatePositionPrice, At
    <2> HIDE DEF c
    <2>4. Lot(call[t].ask) => Lot(c.ask)
      BY <1>5, <2>2 DEF Lot, Fills
    <2> QED
      BY <2>1, <2>2, <2>3, <2>4, CallsMove
  <1>6. ASSUME NEW t \in Threads, NEW s \in Symbols, BeginExit(t, s)
        PROVE  CallsOK'
    <2> DEFINE c == [Idle EXCEPT !.at = "sent", !.kind = "exit", !.sym = s]
    <2>1. c.at = "sent" /\ c.kind = "exit" /\ c.sym = s
      BY DEF Idle
    <2>2. call' = [call EXCEPT ![t] = c] /\ up /\ UNCHANGED <<up, ticking, entries>>
      BY <1>6 DEF BeginExit, Free, throttle
    <2> HIDE DEF c
    <2>3. ASSUME NEW u \in Threads PROVE CallOK(u)'
      <3>1. CASE u = t
        BY <1>1, <2>1, <2>2, <3>1 DEF CallOK, Sym, Types
      <3>2. CASE u # t
        BY <1>1, <2>2, <3>2 DEF CallsOK, CallOK, Sym, Types, Lot
      <3> QED
        BY <3>1, <3>2
    <2> QED
      BY <2>3 DEF CallsOK
  <1>7. ASSUME NEW t \in Threads, NEW p \in Prices, ClosePosition(t, p)
        PROVE  CallsOK'
    <2>1. UNCHANGED <<up, ticking, entries>> /\ call[t].at = "sent"
      BY <1>7 DEF ClosePosition, At, throttle
    <2>2. CASE Goto(t, "row")
      <3> DEFINE c == [call[t] EXCEPT !.at = "row"]
      <3>1. call' = [call EXCEPT ![t] = c]
        BY <1>1, <2>2 DEF Goto, Types
      <3>2. c.at = "row" /\ c.kind = call[t].kind /\ c.sym = call[t].sym /\ c.ask = call[t].ask
        BY <1>1 DEF Types, Call
      <3> HIDE DEF c
      <3> QED
        BY <2>1, <3>1, <3>2, CallsMove
    <2>3. CASE MixSnapshots(t, "row")
      <3>1. ASSUME NEW u \in Threads
            PROVE  /\ call'[u].at = IF u = t THEN "row" ELSE call[u].at
                   /\ call'[u].kind = call[u].kind /\ call'[u].sym = call[u].sym
                   /\ call'[u].ask = call[u].ask
        BY <1>1, <2>3 DEF MixSnapshots, Mixed, Types, Call
      <3> QED
        BY <1>1, <2>1, <3>1 DEF CallsOK, CallOK, Sym, Lot
    <2> QED
      BY <1>7, <2>2, <2>3 DEF ClosePosition
  <1>8. ASSUME NEW t \in Threads, SaveRow(t)
        PROVE  CallsOK'
    <2>1. UNCHANGED <<up, ticking, entries>> /\ call[t].at = "row"
      BY <1>8 DEF SaveRow, throttle
    <2> DEFINE c == [call[t] EXCEPT !.at = "balance"]
    <2>2. call' = [call EXCEPT ![t] = c]
      BY <1>1, <1>8 DEF SaveRow, Goto, Types
    <2>3. c.at = "balance" /\ c.kind = call[t].kind /\ c.sym = call[t].sym /\ c.ask = call[t].ask
      BY <1>1 DEF Types, Call
    <2> HIDE DEF c
    <2> QED
      BY <2>1, <2>2, <2>3, CallsMove
  <1>9. ASSUME NEW t \in Threads, NEW stage, NEW next, NEW seen, Read(t, stage, next, seen),
               stage \notin {"idle", "open"}, next \notin {"idle", "open"}
        PROVE  CallsOK'
    <2>1. UNCHANGED <<up, ticking, entries>> /\ call[t].at = stage
      BY <1>9 DEF Read, throttle
    <2> DEFINE c == [call[t] EXCEPT !.at = next, !.seen = seen]
    <2>2. call' = [call EXCEPT ![t] = c]
      BY <1>1, <1>9 DEF Read, Types
    <2>3. c.at = next /\ c.kind = call[t].kind /\ c.sym = call[t].sym /\ c.ask = call[t].ask
      BY <1>1 DEF Types, Call
    <2> HIDE DEF c
    <2> QED
      BY <1>9, <2>1, <2>2, <2>3, CallsMove
  <1>10. ASSUME NEW t \in Threads,
               \/ ReadBalance(t) \/ ReadRealized(t) \/ ReadGross(t) \/ ReadFree(t)
        PROVE  CallsOK'
    BY <1>9, <1>10 DEF ReadBalance, ReadRealized, ReadGross, ReadFree
  <1>11. CASE \/ \E s \in Symbols, p \in Prices : CheckStop(s, p)
              \/ TriggerKillSwitch \/ Advance \/ UNCHANGED vars
    <2>1. UNCHANGED <<up, ticking, entries, call>>
      BY <1>11 DEF CheckStop, TriggerKillSwitch, Advance, vars, throttle
    <2> QED
      BY <1>1, <2>1 DEF CallsOK, CallOK, Sym, Lot
  <1>12. CASE Crash
    BY <1>12 DEF Crash, CallsOK, CallOK, Idle, Sym
  <1>13. CASE Start
    <2>1. UNCHANGED <<ticking, entries, call>> /\ up'
      BY <1>13 DEF Start, throttle
    <2> QED
      BY <1>1, <2>1 DEF CallsOK, CallOK, Sym, Lot
  <1>14. CASE RestoreAgain
    <2>1. UNCHANGED <<up, entries>> /\ ticking'
      BY <1>14 DEF RestoreAgain, throttle
    <2>2. ASSUME NEW u \in Threads
          PROVE  /\ call'[u].at = call[u].at
                 /\ call'[u].kind = call[u].kind /\ call'[u].sym = call[u].sym
                 /\ call'[u].ask = call[u].ask
      BY <1>1, <1>14 DEF RestoreAgain, Mixed, Types, Call
    <2> QED
      BY <1>1, <2>1, <2>2 DEF CallsOK, CallOK, Sym, Lot
  <1> QED
    BY <1>2, <1>3, <1>4, <1>5, <1>6, <1>7, <1>8, <1>10, <1>11, <1>12, <1>13, <1>14
    DEF Next, Begin, CallStep, EntryStep, ExitStep, SaveStep

-----------------------------------------------------------------------------
(***************************************************************************)
(* Positions and rows.                                                     *)
(***************************************************************************)
\* A position as it is made: its stop follows its own price.
LEMMA FreshPosition ==
    ASSUME NEW id, NEW p, NEW q, NEW side, NEW margin
    PROVE  LET x == PositionOf(id, p, q, side, margin)
           IN  /\ x.id = id /\ x.price = p /\ x.qty = q /\ x.side = side
               /\ x.peak = p
               /\ x.stop = StopAt(p, side)
               /\ x.stop = StopOf(x)
  BY DEF PositionOf, StopOf

\* Every step keeps the three books in line.
LEMMA BooksStep == IInv /\ [Next]_vars => BooksOK'
  <1> SUFFICES ASSUME IInv, [Next]_vars PROVE BooksOK'
    OBVIOUS
  <1> USE RiskManagerAssumption
  <1>1. Types /\ CallsOK /\ BooksOK
    BY DEF IInv
  <1>a. ASSUME NEW s \in Symbols, UNCHANGED <<OpenPositions, rows, entries>>
        PROVE  BookOK(s)'
    BY <1>1, <1>a DEF BooksOK, BookOK, Held, Lot
  <1>2. ASSUME NEW t \in Threads, OpenPosition(t)
        PROVE  BooksOK'
    <2> DEFINE ask == call[t].ask
               position == PositionOf(entries + 1, ask.price, ask.qty, ask.side, call[t].margin)
    <2>1. /\ OpenPositions' = [OpenPositions EXCEPT ![Sym(t)] = position]
          /\ entries' = entries + 1
          /\ UNCHANGED <<up, ticking, rows>>
          /\ up
      BY <1>2 DEF OpenPosition, At, durable
    <2>2. Lot(position) /\ position.peak \in Prices /\ position.id = entries + 1
      BY <1>1, <1>2, FreshPosition DEF CallsOK, CallOK, Lot, OpenPosition, At
    <2> HIDE DEF position
    <2>3. ASSUME NEW s \in Symbols PROVE BookOK(s)'
      <3>1. BookOK(s) /\ entries \in Nat /\ OpenPositions[s].id \in Int /\ rows[s].id \in Int
        BY <1>1 DEF BooksOK, Types, Position, Row
      <3>2. OpenPositions'[s] = IF s = Sym(t) THEN position ELSE OpenPositions[s]
        BY <1>1, <2>1 DEF Types
      <3> QED
        BY <2>1, <2>2, <3>1, <3>2 DEF BookOK, Held, Lot
    <2> QED
      BY <1>1, <2>1, <2>3 DEF BooksOK
  <1>3. ASSUME NEW t \in Threads, NEW q \in 1..call[t].ask.qty, NEW p \in Prices,
               UpdatePositionPrice(t, p, q)
        PROVE  BooksOK'
    <2> DEFINE old == OpenPositions[Sym(t)]
               new == PositionOf(old.id, p, q, old.side, old.margin)
    <2>1. /\ OpenPositions' = [OpenPositions EXCEPT ![Sym(t)] = new] \/ UNCHANGED OpenPositions
          /\ UNCHANGED <<up, ticking, rows, entries>>
          /\ up
      BY <1>3 DEF UpdatePositionPrice, At, durable, throttle
    <2>2. Lot(call[t].ask) /\ q \in Fills
      BY <1>1, <1>3 DEF CallsOK, CallOK, UpdatePositionPrice, At, Lot, Fills
    <2>3. Lot(new) /\ new.peak \in Prices /\ new.id = old.id
      BY <2>2, FreshPosition DEF Lot
    <2> HIDE DEF new
    <2>4. ASSUME NEW s \in Symbols PROVE BookOK(s)'
      <3>1. BookOK(s)
        BY <1>1 DEF BooksOK
      <3>2. OpenPositions'[s] = OpenPositions[s] \/ (s = Sym(t) /\ OpenPositions'[s] = new)
        BY <1>1, <2>1 DEF Types
      <3> QED
        BY <2>1, <2>3, <3>1, <3>2 DEF BookOK, Held, Lot
    <2> QED
      BY <1>1, <2>1, <2>4 DEF BooksOK
  <1>4. ASSUME NEW t \in Threads,
               RollbackPosition(t) \/ \E p \in Prices : ClosePosition(t, p)
        PROVE  BooksOK'
    <2>1. /\ \/ OpenPositions' = [OpenPositions EXCEPT ![Sym(t)] = NoPosition]
             \/ UNCHANGED OpenPositions
          /\ UNCHANGED <<up, ticking, rows, entries>>
          /\ up
      BY <1>4 DEF RollbackPosition, ClosePosition, At, durable, throttle, capital
    <2>2. ASSUME NEW s \in Symbols PROVE BookOK(s)'
      <3>1. BookOK(s)
        BY <1>1 DEF BooksOK
      <3>2. OpenPositions'[s] = OpenPositions[s] \/ OpenPositions'[s].id = 0
        BY <1>1, <2>1 DEF Types, NoPosition
      <3> QED
        BY <2>1, <3>1, <3>2 DEF BookOK, Held, Lot
    <2> QED
      BY <1>1, <2>1, <2>2 DEF BooksOK
  <1>5. ASSUME NEW t \in Threads, SaveRow(t)
        PROVE  BooksOK'
    <2>1. /\ rows' = [rows EXCEPT ![Sym(t)] = IF call[t].kind = "entry" THEN call[t].ask ELSE NoRow]
          /\ UNCHANGED <<up, ticking, OpenPositions, entries>>
          /\ up
      BY <1>5 DEF SaveRow, throttle, capital
    <2>2. call[t].kind = "entry" => Lot(call[t].ask) /\ call[t].ask.id <= entries
      BY <1>1 DEF CallsOK, CallOK
    <2>3. ASSUME NEW s \in Symbols PROVE BookOK(s)'
      <3>1. BookOK(s)
        BY <1>1 DEF BooksOK
      <3>2. \/ rows'[s] = rows[s]
            \/ rows'[s].id = 0
            \/ Lot(rows'[s]) /\ rows'[s].id <= entries
        BY <1>1, <2>1, <2>2 DEF Types, NoRow
      <3> QED
        BY <2>1, <3>1, <3>2 DEF BookOK, Held, Lot
    <2> QED
      BY <1>1, <2>1, <2>3 DEF BooksOK, Held
  <1>6. ASSUME NEW s \in Symbols, NEW p \in Prices, CheckStop(s, p)
        PROVE  BooksOK'
    <2>1. /\ UNCHANGED <<up, ticking, rows, entries>>
          /\ up
      BY <1>6 DEF CheckStop, Free, durable, throttle
    <2>2. ASSUME NEW r \in Symbols
          PROVE  /\ OpenPositions'[r].price = OpenPositions[r].price
                 /\ OpenPositions'[r].qty = OpenPositions[r].qty
                 /\ OpenPositions'[r].id = OpenPositions[r].id
                 /\ OpenPositions'[r].peak = OpenPositions[r].peak \/ OpenPositions'[r].peak = p
      BY <1>1, <1>6 DEF CheckStop, Types, Position
    <2>3. ASSUME NEW r \in Symbols PROVE BookOK(r)'
      BY <1>1, <2>1, <2>2 DEF BooksOK, BookOK, Held, Lot
    <2> QED
      BY <1>1, <2>1, <2>3 DEF BooksOK
  <1>7. CASE Crash
    <2>1. /\ \A s \in Symbols : OpenPositions'[s].id = 0
          /\ UNCHANGED <<rows, entries>>
          /\ ~ticking'
      BY <1>7 DEF Crash, NoPosition, durable
    <2> QED
      BY <1>1, <2>1 DEF BooksOK, BookOK, Held, Lot
  <1>8. ASSUME RestoreState, UNCHANGED <<rows, entries>>, NEW s \in Symbols
        PROVE  BookOK(s)'
    <2> DEFINE new == PositionOf(rows[s].id, rows[s].price, rows[s].qty, rows[s].side, 0)
    <2>1. \/ OpenPositions'[s] = OpenPositions[s]
          \/ rows[s].id # 0 /\ OpenPositions'[s] = new
      BY <1>8 DEF RestoreState, RestorePositions
    <2>2. rows[s].id # 0 => Lot(new) /\ new.peak \in Prices /\ new.id <= entries
      BY <1>1, FreshPosition DEF BooksOK, BookOK, Lot
    <2> HIDE DEF new
    <2> QED
      BY <1>1, <1>8, <2>1, <2>2 DEF BooksOK, BookOK, Held, Lot
  <1>9. CASE Start \/ RestoreAgain
    <2>1. RestoreState /\ UNCHANGED <<rows, entries>> /\ up'
      BY <1>9 DEF Start, RestoreAgain, durable, throttle
    <2> QED
      BY <1>8, <2>1 DEF BooksOK
  <1>10. ASSUME UNCHANGED <<up, ticking, OpenPositions, rows, entries>>
        PROVE  BooksOK'
    BY <1>1, <1>a, <1>10 DEF BooksOK, Held
  <1>11. ASSUME NEW t \in Threads,
                \/ Begin(t) \/ OrderFails(t) \/ SaveRiskSnapshot(t)
                \/ ReadBalance(t) \/ ReadRealized(t) \/ ReadGross(t) \/ ReadFree(t)
         PROVE  UNCHANGED <<up, ticking, OpenPositions, rows, entries>>
    BY <1>11 DEF Begin, ValidateOrder, BeginExit, OrderFails, SaveRiskSnapshot, ReadBalance,
       ReadRealized, ReadGross, ReadFree, Read, capital, durable, throttle
  <1>12. CASE TriggerKillSwitch \/ Advance \/ UNCHANGED vars
    BY <1>10, <1>12 DEF TriggerKillSwitch, Advance, vars, capital, durable, throttle
  <1> QED
    BY <1>2, <1>3, <1>4, <1>5, <1>6, <1>7, <1>9, <1>10, <1>11, <1>12
    DEF Next, CallStep, EntryStep, ExitStep, SaveStep

-----------------------------------------------------------------------------
(***************************************************************************)
(* The kill switch.                                                        *)
(***************************************************************************)
LEMMA KillStep == IInv /\ [Next]_vars => KillOK'
  <1> SUFFICES ASSUME IInv, [Next]_vars PROVE KillOK'
    OBVIOUS
  <1> USE RiskManagerAssumption
  <1>1. Types /\ CallsOK /\ KillOK
    BY DEF IInv
  <1>2. ASSUME NEW t \in Threads, OpenPosition(t)
        PROVE  KillOK'
    <2>1. /\ t \in Enterers
          /\ late # 1
      BY <1>1, <1>2 DEF OpenPosition, At, CallsOK, CallOK, KillOK
    <2>2. late = 0 /\ UNCHANGED killSwitch
      BY <1>1, <1>2, <2>1 DEF OpenPosition, KillOK, Types
    <2>3. late' = IF killSwitch THEN 1 ELSE 0
      BY <1>2, <2>2 DEF OpenPosition
    <2>4. ASSUME NEW u \in Threads PROVE call'[u].at # "open"
      <3>1. CASE u = t
        BY <1>1, <1>2, <3>1 DEF OpenPosition, Types, Call
      <3>2. CASE u # t
        <4>1. call'[u] = call[u]
          BY <1>1, <1>2, <3>2 DEF OpenPosition, Types
        <4>2. call[u].at = "open" => u \in Enterers
          BY <1>1 DEF CallsOK, CallOK
        <4> QED
          BY <2>1, <3>2, <4>1, <4>2
      <3> QED
        BY <3>1, <3>2
    <2> QED
      BY <2>1, <2>2, <2>3, <2>4 DEF KillOK
  <1>3. ASSUME NEW t \in Threads, NEW s \in Symbols, NEW p \in Prices, NEW q \in Quantities,
               NEW side \in Sides, NEW margin \in Margins \cup {0},
               ValidateOrder(t, s, p, q, side, margin)
        PROVE  KillOK'
    BY <1>1, <1>3 DEF ValidateOrder, KillOK, throttle
  <1>4. ASSUME UNCHANGED <<killSwitch, late>>,
               \A u \in Threads : call'[u].at = "open" => call[u].at = "open"
        PROVE  KillOK'
    BY <1>1, <1>4 DEF KillOK
  <1>5. ASSUME NEW t \in Threads,
               \/ \E s \in Symbols : BeginExit(t, s)
               \/ RollbackPosition(t) \/ OrderFails(t) \/ SaveRiskSnapshot(t)
               \/ \E p \in Prices, q \in 1..call[t].ask.qty : UpdatePositionPrice(t, p, q)
               \/ \E p \in Prices : ClosePosition(t, p)
               \/ SaveRow(t)
               \/ ReadBalance(t) \/ ReadRealized(t) \/ ReadGross(t) \/ ReadFree(t)
        PROVE  KillOK'
    <2>1. UNCHANGED <<killSwitch, late>>
      BY <1>5 DEF BeginExit, RollbackPosition, OrderFails, SaveRiskSnapshot, UpdatePositionPrice,
         ClosePosition, SaveRow, ReadBalance, ReadRealized, ReadGross, ReadFree, Read, throttle
    <2>2. ASSUME NEW u \in Threads, call'[u].at = "open"
          PROVE  call[u].at = "open"
      <3>1. CASE \E p \in Prices : ClosePosition(t, p)
        <4>1. CASE Goto(t, "row")
          BY <1>1, <2>2, <4>1 DEF Goto, Types, Call
        <4>2. CASE MixSnapshots(t, "row")
          BY <1>1, <2>2, <4>2 DEF MixSnapshots, Mixed, Types, Call
        <4> QED
          BY <3>1, <4>1, <4>2 DEF ClosePosition
      <3>2. CASE \E p \in Prices, q \in 1..call[t].ask.qty : UpdatePositionPrice(t, p, q)
        BY <1>1, <2>2, <3>2 DEF UpdatePositionPrice, Types, Call
      <3>3. CASE ReadBalance(t) \/ ReadRealized(t) \/ ReadGross(t) \/ ReadFree(t)
        BY <1>1, <2>2, <3>3 DEF ReadBalance, ReadRealized, ReadGross, ReadFree, Read, Types, Call
      <3>4. CASE RollbackPosition(t) \/ OrderFails(t) \/ SaveRiskSnapshot(t)
        BY <1>1, <2>2, <3>4 DEF RollbackPosition, OrderFails, SaveRiskSnapshot, Return, Idle, Types
      <3>5. CASE SaveRow(t)
        BY <1>1, <2>2, <3>5 DEF SaveRow, Goto, Types, Call
      <3>6. CASE \E s \in Symbols : BeginExit(t, s)
        <4>1. PICK s \in Symbols : BeginExit(t, s)
          BY <3>6
        <4> DEFINE c == [Idle EXCEPT !.at = "sent", !.kind = "exit", !.sym = s]
        <4>2. call' = [call EXCEPT ![t] = c]
          BY <4>1 DEF BeginExit
        <4>3. c.at = "sent"
          BY DEF Idle
        <4> HIDE DEF c
        <4> QED
          BY <1>1, <2>2, <4>2, <4>3 DEF Types
      <3> QED
        BY <1>5, <3>1, <3>2, <3>3, <3>4, <3>5, <3>6
    <2> QED
      BY <1>4, <2>1, <2>2
  <1>6. CASE \/ \E s \in Symbols, p \in Prices : CheckStop(s, p)
             \/ Advance \/ Start \/ UNCHANGED vars
    BY <1>1, <1>6 DEF CheckStop, Advance, Start, vars, throttle, KillOK
  <1>7. CASE TriggerKillSwitch
    BY <1>1, <1>7 DEF TriggerKillSwitch, throttle, KillOK
  <1>8. CASE Crash
    BY <1>8 DEF Crash, KillOK
  <1>9. CASE RestoreAgain
    <2>1. UNCHANGED <<killSwitch, late>>
      BY <1>9 DEF RestoreAgain, throttle
    <2>2. ASSUME NEW u \in Threads PROVE call'[u].at = call[u].at
      BY <1>1, <1>9 DEF RestoreAgain, Mixed, Types, Call
    <2> QED
      BY <1>4, <2>1, <2>2
  <1> QED
    BY <1>2, <1>3, <1>5, <1>6, <1>7, <1>8, <1>9
    DEF Next, Begin, CallStep, EntryStep, ExitStep, SaveStep

-----------------------------------------------------------------------------
(***************************************************************************)
(* Stops.  Kept(s) is what StopNeverLoosens says of a step.                *)
(***************************************************************************)
Kept(s) ==
    LET old == OpenPositions[s]
        new == OpenPositions'[s]
    IN  old.id # 0 /\ new.id = old.id /\ new.price = old.price
        => new.stop = Tighter(old.side, old.stop, new.stop)

\* A stop is no looser than itself.
LEMMA TighterSame ==
    ASSUME NEW side, NEW a \in Int
    PROVE  Tighter(side, a, a) = a
  BY DEF Tighter

\* A stop that has been tightened to a price is not moved by it again.
LEMMA TighterTwice ==
    ASSUME NEW side, NEW a \in Int, NEW b \in Int
    PROVE  Tighter(side, a, Tighter(side, a, b)) = Tighter(side, a, b)
  BY DEF Tighter

\* Following a better price moves the stop to where the new peak puts it.
LEMMA StopTrails ==
    ASSUME NEW price \in Prices, NEW peak \in Prices, NEW p \in Prices, NEW side \in Sides,
           peak = price \/ Better(side, peak, price), Better(side, p, peak)
    PROVE  /\ Better(side, p, price)
           /\ p # price
           /\ Tighter(side, IF peak = price THEN StopAt(price, side)
                            ELSE Tighter(side, StopAt(price, side), TrailAt(peak, side)),
                      TrailAt(p, side))
              = Tighter(side, StopAt(price, side), TrailAt(p, side))
  <1>1. price \in Nat /\ peak \in Nat /\ p \in Nat
    BY RiskManagerAssumption
  <1>2. Better(side, p, price) /\ p # price
    BY <1>1 DEF Better
  <1>3. /\ StopAt(price, side) \in Int
        /\ TrailAt(p, side) \in Int /\ TrailAt(peak, side) \in Int
    BY RiskManagerAssumption
  <1>4. CASE peak = price
    BY <1>2, <1>4
  <1>5. CASE peak # price /\ side = "buy"
    <2>1. TrailAt(peak, side) <= TrailAt(p, side)
      BY <1>1, <1>5, TrailAssumption DEF Better
    <2> QED
      BY <1>2, <1>3, <1>5, <2>1 DEF Tighter
  <1>6. CASE peak # price /\ side = "sell"
    <2>1. TrailAt(p, side) <= TrailAt(peak, side)
      BY <1>1, <1>6, TrailAssumption DEF Better
    <2> QED
      BY <1>2, <1>3, <1>6, <2>1 DEF Tighter
  <1> QED
    BY <1>4, <1>5, <1>6 DEF Sides

\* Every step keeps the stops, and no stop that is kept moves back.
LEMMA StopsStep == IInv /\ [Next]_vars => StopsOK' /\ \A s \in Symbols : Kept(s)
  <1> SUFFICES ASSUME IInv, [Next]_vars PROVE StopsOK' /\ \A s \in Symbols : Kept(s)
    OBVIOUS
  <1> USE RiskManagerAssumption
  <1>1. Types /\ CallsOK /\ BooksOK /\ StopsOK
    BY DEF IInv
  <1> DEFINE Awaiting(u, c) == c[u].kind = "entry" /\ c[u].at = "sent"
  <1>t. ASSUME NEW s \in Symbols
        PROVE  /\ OpenPositions[s] \in Position /\ OpenPositions[s].stop \in Int
               /\ OpenPositions[s].id \in Int /\ entries \in Int
    BY <1>1 DEF Types, Position
  \* A position that stays, goes or is made anew has the stop it should.
  <1>a. ASSUME NEW s \in Symbols,
               OpenPositions'[s] = OpenPositions[s] \/ OpenPositions'[s].id = 0
        PROVE  StopOK(s)' /\ Kept(s)
    <2>1. StopOK(s)
      BY <1>1 DEF StopsOK
    <2>2. StopOK(s)'
      BY <1>a, <2>1 DEF StopOK, Held
    <2>3. Kept(s)
      BY <1>a, <1>t, TighterSame DEF Kept
    <2> QED
      BY <2>2, <2>3
  <1>b. ASSUME NEW s \in Symbols, NEW id, NEW p, NEW q, NEW side, NEW margin,
               OpenPositions'[s] = PositionOf(id, p, q, side, margin)
        PROVE  StopOK(s)' /\ OpenPositions'[s].peak = OpenPositions'[s].price
    <2>1. /\ OpenPositions'[s].stop = StopOf(OpenPositions'[s])
          /\ OpenPositions'[s].peak = OpenPositions'[s].price
      BY <1>b, FreshPosition
    <2> QED
      BY <2>1 DEF StopOK, Held
  \* Only the tick loop awaits an entry, and only when it ticks.
  <1>c. ASSUME NEW t \in Enterers, NEW u \in Threads, call[u].kind = "entry"
        PROVE  u = t
    BY <1>1, <1>c DEF CallsOK, CallOK
  \* Steps that touch neither positions nor rows.
  <1>d. ASSUME UNCHANGED <<ticking, OpenPositions>>,
               ~ticking => UNCHANGED rows,
               \A u \in Threads : Awaiting(u, call') =>
                   Awaiting(u, call) /\ call'[u].sym = call[u].sym
        PROVE  StopsOK' /\ \A s \in Symbols : Kept(s)
    <2>1. \A s \in Symbols : StopOK(s)' /\ Kept(s)
      BY <1>a, <1>d
    <2> QED
      BY <1>1, <1>d, <2>1 DEF StopsOK, Restored, Held, Sym
  <1>2. ASSUME NEW t \in Threads, OpenPosition(t)
        PROVE  StopsOK' /\ \A s \in Symbols : Kept(s)
    <2> DEFINE ask == call[t].ask
               position == PositionOf(entries + 1, ask.price, ask.qty, ask.side, call[t].margin)
    <2>1. /\ OpenPositions' = [OpenPositions EXCEPT ![Sym(t)] = position]
          /\ ticking /\ ticking' /\ t \in Enterers /\ Sym(t) \in Symbols
          /\ up
      BY <1>1, <1>2 DEF OpenPosition, At, CallsOK, CallOK
    <2>2. \A u \in Threads : u # t => call'[u] = call[u]
      BY <1>1, <1>2 DEF OpenPosition, Types
    <2>3. call'[t].sym = Sym(t)
      BY <1>1, <1>2 DEF OpenPosition, Types, Call, Sym
    <2>4. position.id = entries + 1
      BY FreshPosition
    <2>5. ASSUME NEW s \in Symbols PROVE StopOK(s)' /\ Kept(s)
      <3>1. CASE s = Sym(t)
        <4>1. OpenPositions'[s] = position
          BY <1>1, <2>1, <3>1 DEF Types
        <4>2. StopOK(s)'
          BY <1>b, <4>1
        <4>3. OpenPositions[s].id # 0 => OpenPositions[s].id <= entries
          BY <1>1 DEF BooksOK, BookOK, Held
        <4> HIDE DEF position
        <4>4. Kept(s)
          BY <1>t, <2>4, <4>1, <4>3 DEF Kept
        <4> QED
          BY <4>2, <4>4
      <3>2. CASE s # Sym(t)
        BY <1>1, <1>a, <2>1, <3>2 DEF Types
      <3> QED
        BY <3>1, <3>2
    <2>6. ASSUME NEW u \in Threads, Awaiting(u, call')
          PROVE  OpenPositions'[call'[u].sym].peak = OpenPositions'[call'[u].sym].price
      <3>1. u = t
        BY <1>c, <2>1, <2>2, <2>6
      <3>2. OpenPositions'[call'[u].sym] = position
        BY <1>1, <2>1, <2>3, <3>1 DEF Types
      <3> QED
        BY <1>b, <2>1, <2>3, <3>1, <3>2
    <2> QED
      BY <2>1, <2>5, <2>6 DEF StopsOK, Sym
  <1>3. ASSUME NEW t \in Threads, NEW p \in Prices, NEW q \in 1..call[t].ask.qty,
               UpdatePositionPrice(t, p, q)
        PROVE  StopsOK' /\ \A s \in Symbols : Kept(s)
    <2> DEFINE old == OpenPositions[Sym(t)]
               new == PositionOf(old.id, p, q, old.side, old.margin)
    <2>1. /\ \/ Held(Sym(t)) /\ OpenPositions' = [OpenPositions EXCEPT ![Sym(t)] = new]
             \/ UNCHANGED OpenPositions
          /\ Awaiting(t, call)
      BY <1>3 DEF UpdatePositionPrice, At
    <2>2. ticking /\ ticking' /\ t \in Enterers /\ Sym(t) \in Symbols
      BY <1>1, <1>3 DEF UpdatePositionPrice, At, CallsOK, CallOK
    <2>3. ASSUME NEW u \in Threads PROVE ~Awaiting(u, call')
      <3>1. CASE u = t
        BY <1>1, <1>3, <3>1 DEF UpdatePositionPrice, Types, Call
      <3>2. CASE u # t
        BY <1>1, <1>3, <1>c, <2>2, <3>2 DEF UpdatePositionPrice, Types
      <3> QED
        BY <3>1, <3>2
    <2>4. ASSUME NEW s \in Symbols PROVE StopOK(s)' /\ Kept(s)
      <3>1. CASE OpenPositions'[s] = OpenPositions[s]
        BY <1>a, <3>1
      <3>2. CASE OpenPositions'[s] # OpenPositions[s]
        <4>1. s = Sym(t) /\ Held(s) /\ OpenPositions'[s] = new /\ old = OpenPositions[s]
          BY <1>1, <2>1, <3>2 DEF Types
        <4>2. StopOK(s)'
          BY <1>b, <4>1
        <4>3. /\ OpenPositions[s].peak = OpenPositions[s].price
              /\ OpenPositions[s].stop = StopOf(OpenPositions[s])
          BY <1>1, <2>1, <4>1 DEF StopsOK, StopOK
        <4>4. /\ OpenPositions[s].stop = StopAt(OpenPositions[s].price, OpenPositions[s].side)
              /\ OpenPositions'[s].stop = StopAt(p, OpenPositions[s].side)
              /\ OpenPositions'[s].price = p
          BY <4>1, <4>3, FreshPosition DEF StopOf
        <4>5. Kept(s)
          BY <1>t, <4>4, TighterSame DEF Kept
        <4> QED
          BY <4>2, <4>5
      <3> QED
        BY <3>1, <3>2
    <2> QED
      BY <2>2, <2>3, <2>4 DEF StopsOK
  <1>4. ASSUME NEW t \in Threads, RollbackPosition(t)
        PROVE  StopsOK' /\ \A s \in Symbols : Kept(s)
    <2>1. ticking /\ ticking' /\ t \in Enterers
      BY <1>1, <1>4 DEF RollbackPosition, At, CallsOK, CallOK
    <2>2. ASSUME NEW u \in Threads PROVE ~Awaiting(u, call')
      BY <1>1, <1>4, <1>c, <2>1 DEF RollbackPosition, Return, Idle, Types
    <2>3. ASSUME NEW s \in Symbols
          PROVE  OpenPositions'[s] = OpenPositions[s] \/ OpenPositions'[s].id = 0
      BY <1>1, <1>4 DEF RollbackPosition, Types, NoPosition
    <2> QED
      BY <1>a, <2>1, <2>2, <2>3 DEF StopsOK
  <1>5. ASSUME NEW t \in Threads, NEW p \in Prices, ClosePosition(t, p)
        PROVE  StopsOK' /\ \A s \in Symbols : Kept(s)
    <2>1. UNCHANGED <<ticking, rows>> /\ call[t].kind = "exit"
      BY <1>5 DEF ClosePosition, At, durable
    <2>2. ASSUME NEW u \in Threads, Awaiting(u, call')
          PROVE  Awaiting(u, call) /\ call'[u].sym = call[u].sym
      <3>1. CASE Goto(t, "row")
        BY <1>1, <2>2, <3>1 DEF Goto, Types, Call
      <3>2. CASE MixSnapshots(t, "row")
        BY <1>1, <2>2, <3>2 DEF MixSnapshots, Mixed, Types, Call
      <3> QED
        BY <1>5, <3>1, <3>2 DEF ClosePosition
    <2>3. ASSUME NEW s \in Symbols
          PROVE  OpenPositions'[s] = OpenPositions[s] \/ OpenPositions'[s].id = 0
      BY <1>1, <1>5 DEF ClosePosition, Types, NoPosition, capital
    <2>4. ASSUME NEW u \in Threads, Awaiting(u, call')
          PROVE  call'[u].sym \in Symbols
      BY <1>1, <2>2, <2>4 DEF CallsOK, CallOK, Sym
    <2> QED
      BY <1>1, <1>a, <2>1, <2>2, <2>3, <2>4 DEF StopsOK, Restored, Held, Sym
  <1>6. ASSUME NEW s \in Symbols, NEW p \in Prices, CheckStop(s, p)
        PROVE  StopsOK' /\ \A r \in Symbols : Kept(r)
    <2> DEFINE old == OpenPositions[s]
               stop == Tighter(old.side, old.stop, TrailAt(p, old.side))
               new == [old EXCEPT !.peak = p, !.stop = stop]
    <2>1. /\ OpenPositions' = [OpenPositions EXCEPT ![s] = new]
          /\ Better(old.side, p, old.peak) /\ Held(s)
          /\ UNCHANGED <<call, ticking>>
      BY <1>1, <1>6 DEF CheckStop, Types
    <2>2. PICK t \in Enterers : Free(t)
      BY <1>6 DEF CheckStop
    <2>3. ticking /\ call[t].kind = "none"
      BY <1>1, <2>2 DEF Free, CallsOK, CallOK
    <2>4. ASSUME NEW u \in Threads PROVE ~Awaiting(u, call')
      BY <1>c, <2>1, <2>3
    <2>5. /\ old \in Position /\ old.price \in Prices /\ old.peak \in Prices /\ old.side \in Sides
          /\ old.stop \in Int /\ TrailAt(p, old.side) \in Int
      BY <1>1, <1>t, <2>1 DEF BooksOK, BookOK, Lot, Position
    <2>6. /\ old.stop = StopOf(old)
          /\ old.peak = old.price \/ Better(old.side, old.peak, old.price)
      BY <1>1, <2>1 DEF StopsOK, StopOK
    <2>7. /\ new.id = old.id /\ new.price = old.price /\ new.side = old.side
          /\ new.peak = p /\ new.stop = stop
      BY <2>5 DEF Position
    <2>8. OpenPositions'[s] = new
      BY <1>1, <2>1 DEF Types
    <2> HIDE DEF new
    <2>9. stop = Tighter(old.side, StopAt(old.price, old.side), TrailAt(p, old.side))
          /\ Better(old.side, p, old.price) /\ p # old.price
      <3> DEFINE price == old.price
                 peak == old.peak
                 side == old.side
      <3>1. old.stop = IF peak = price THEN StopAt(price, side)
                       ELSE Tighter(side, StopAt(price, side), TrailAt(peak, side))
        BY <2>6 DEF StopOf
      <3>2. /\ price \in Prices /\ peak \in Prices /\ side \in Sides
            /\ peak = price \/ Better(side, peak, price)
            /\ Better(side, p, peak)
            /\ stop = Tighter(side, old.stop, TrailAt(p, side))
        BY <2>1, <2>5, <2>6
      <3> HIDE DEF price, peak, side, stop, old
      <3>3. /\ stop = Tighter(side, StopAt(price, side), TrailAt(p, side))
            /\ Better(side, p, price) /\ p # price
        BY <3>1, <3>2, StopTrails
      <3> QED
        BY <3>3 DEF price, side
    <2>10. Tighter(old.side, old.stop, stop) = stop
      BY <2>5, TighterTwice
    <2> HIDE DEF stop, old
    <2>11. new.stop = StopOf(new)
      BY <2>7, <2>9 DEF StopOf
    <2>12. StopOK(s)'
      BY <2>7, <2>8, <2>9, <2>11 DEF StopOK
    <2>13. Kept(s)
      BY <2>7, <2>8, <2>10 DEF Kept, old
    <2>14. ASSUME NEW r \in Symbols, r # s PROVE StopOK(r)' /\ Kept(r)
      BY <1>1, <1>a, <2>1, <2>14 DEF Types
    <2> QED
      BY <2>1, <2>3, <2>4, <2>12, <2>13, <2>14 DEF StopsOK
  <1>7. ASSUME RestoreState, NEW s \in Symbols, rows[s].id # 0 => OpenPositions[s].id = 0 \/ Restored(s)
        PROVE  StopOK(s)' /\ Kept(s)
    <2> DEFINE new == PositionOf(rows[s].id, rows[s].price, rows[s].qty, rows[s].side, 0)
    <2>1. \/ OpenPositions'[s] = OpenPositions[s]
          \/ rows[s].id # 0 /\ OpenPositions'[s] = new
      BY <1>7 DEF RestoreState, RestorePositions
    <2>2. CASE OpenPositions'[s] = OpenPositions[s]
      BY <1>a, <2>2
    <2>3. CASE rows[s].id # 0 /\ OpenPositions'[s] = new /\ OpenPositions'[s] # OpenPositions[s]
      <3>1. StopOK(s)'
        BY <1>b, <2>3
      <3>2. OpenPositions[s].id = 0
        BY <1>7, <2>3 DEF Restored
      <3> QED
        BY <3>1, <3>2 DEF Kept
    <2> QED
      BY <2>1, <2>2, <2>3
  <1>8. CASE Start
    <2>1. RestoreState /\ ~up /\ UNCHANGED <<call, ticking, rows>>
      BY <1>8 DEF Start, durable
    <2>2. ~ticking /\ \A s \in Symbols : OpenPositions[s].id = 0
      BY <1>1, <2>1 DEF BooksOK, Held
    <2>3. \A s \in Symbols : StopOK(s)' /\ Kept(s)
      BY <1>7, <2>1, <2>2
    <2>4. ASSUME NEW u \in Threads PROVE ~Awaiting(u, call')
      BY <1>1, <2>1 DEF CallsOK, CallOK
    <2>5. ASSUME NEW s \in Symbols, OpenPositions'[s].id # 0
          PROVE  Restored(s)'
      <3> DEFINE new == PositionOf(rows[s].id, rows[s].price, rows[s].qty, rows[s].side, 0)
      <3>1. OpenPositions'[s] = new
        BY <2>1, <2>2, <2>5 DEF RestoreState, RestorePositions
      <3>2. new.peak = new.price
        BY FreshPosition
      <3> HIDE DEF new
      <3> QED
        BY <2>1, <3>1, <3>2 DEF Restored, new
    <2> QED
      BY <2>3, <2>4, <2>5 DEF StopsOK, Held
  <1>9. CASE RestoreAgain
    <2>1. RestoreState /\ ~ticking /\ ticking' /\ UNCHANGED rows
      BY <1>9 DEF RestoreAgain, durable
    <2>2. \A s \in Symbols : OpenPositions[s].id = 0 \/ Restored(s)
      BY <1>1, <2>1 DEF StopsOK, Held
    <2>3. \A s \in Symbols : StopOK(s)' /\ Kept(s)
      BY <1>7, <2>1, <2>2
    <2>4. ASSUME NEW u \in Threads PROVE ~Awaiting(u, call')
      <3>1. call'[u].kind = call[u].kind
        BY <1>1, <1>9 DEF RestoreAgain, Mixed, Types, Call
      <3> QED
        BY <1>1, <2>1, <3>1 DEF CallsOK, CallOK
    <2> QED
      BY <2>1, <2>3, <2>4 DEF StopsOK
  <1>10. CASE Crash
    <2>1. \A s \in Symbols : OpenPositions'[s].id = 0
      BY <1>10 DEF Crash, NoPosition
    <2>2. \A u \in Threads : ~Awaiting(u, call')
      BY <1>10 DEF Crash, Idle
    <2> QED
      BY <1>a, <2>1, <2>2 DEF StopsOK, Held
  <1>11. ASSUME NEW t \in Threads, SaveRow(t)
         PROVE  StopsOK' /\ \A s \in Symbols : Kept(s)
    <2>1. UNCHANGED <<ticking, OpenPositions>>
      BY <1>11 DEF SaveRow, capital
    <2>2. ASSUME NEW u \in Threads, Awaiting(u, call')
          PROVE  Awaiting(u, call) /\ call'[u].sym = call[u].sym
      BY <1>1, <1>11, <2>2 DEF SaveRow, Goto, Types, Call
    <2>3. \A s \in Symbols : StopOK(s)' /\ Kept(s)
      BY <1>a, <2>1
    <2>4. ASSUME ~ticking, NEW s \in Symbols, Held(s)
          PROVE  Restored(s)'
      <3>1. Restored(s) /\ call[t].kind # "entry"
        BY <1>1, <2>4 DEF StopsOK, CallsOK, CallOK
      <3>2. rows'[s] = rows[s] \/ rows'[s].id = 0
        BY <1>1, <1>11, <3>1 DEF SaveRow, Types, NoRow
      <3> QED
        BY <2>1, <3>1, <3>2 DEF Restored
    <2>5. ASSUME NEW u \in Threads, Awaiting(u, call'), OpenPositions'[call'[u].sym].id # 0
          PROVE  OpenPositions'[call'[u].sym].peak = OpenPositions'[call'[u].sym].price
      BY <1>1, <2>1, <2>2, <2>5 DEF StopsOK, Held, Sym
    <2> QED
      BY <2>1, <2>3, <2>4, <2>5 DEF StopsOK, Held, Sym
  <1>12. ASSUME NEW t \in Threads,
                \/ Begin(t) \/ OrderFails(t) \/ SaveRiskSnapshot(t)
                \/ ReadBalance(t) \/ ReadRealized(t) \/ ReadGross(t) \/ ReadFree(t)
         PROVE  StopsOK' /\ \A s \in Symbols : Kept(s)
    <2>1. UNCHANGED <<ticking, OpenPositions, rows>>
      BY <1>12 DEF Begin, ValidateOrder, BeginExit, OrderFails, SaveRiskSnapshot, ReadBalance,
         ReadRealized, ReadGross, ReadFree, Read, capital, durable
    <2>2. ASSUME NEW u \in Threads, Awaiting(u, call')
          PROVE  Awaiting(u, call) /\ call'[u].sym = call[u].sym
      <3>1. CASE Begin(t)
        <4>1. /\ \A v \in Threads : v # t => call'[v] = call[v]
              /\ call'[t].kind = "exit" \/ call'[t].at = "open"
          <5>1. ASSUME NEW s \in Symbols, NEW p \in Prices, NEW q \in Quantities,
                       NEW side \in Sides, NEW margin \in Margins \cup {0},
                       ValidateOrder(t, s, p, q, side, margin)
                PROVE  /\ \A v \in Threads : v # t => call'[v] = call[v]
                       /\ call'[t].at = "open"
            BY <1>1, <5>1 DEF ValidateOrder, Types, Idle
          <5>2. ASSUME NEW s \in Symbols, BeginExit(t, s)
                PROVE  /\ \A v \in Threads : v # t => call'[v] = call[v]
                       /\ call'[t].kind = "exit"
            BY <1>1, <5>2 DEF BeginExit, Types, Idle
          <5> QED
            BY <3>1, <5>1, <5>2 DEF Begin
        <4> QED
          BY <2>2, <4>1
      <3>2. CASE OrderFails(t) \/ SaveRiskSnapshot(t)
        BY <1>1, <2>2, <3>2 DEF OrderFails, SaveRiskSnapshot, Return, Idle, Types
      <3>3. CASE ReadBalance(t) \/ ReadRealized(t) \/ ReadGross(t) \/ ReadFree(t)
        BY <1>1, <2>2, <3>3 DEF ReadBalance, ReadRealized, ReadGross, ReadFree, Read, Types, Call
      <3> QED
        BY <1>12, <3>1, <3>2, <3>3
    <2> QED
      BY <1>d, <2>1, <2>2
  <1>13. CASE TriggerKillSwitch \/ Advance \/ UNCHANGED vars
    <2>1. UNCHANGED <<ticking, OpenPositions, rows, call>>
      BY <1>13 DEF TriggerKillSwitch, Advance, vars, capital, durable
    <2> QED
      BY <1>d, <2>1
  <1> QED
    BY <1>2, <1>3, <1>4, <1>5, <1>6, <1>8, <1>9, <1>10, <1>11, <1>12, <1>13
    DEF Next, CallStep, EntryStep, ExitStep, SaveStep

-----------------------------------------------------------------------------
(***************************************************************************)
(* Balances.                                                               *)
(***************************************************************************)
LEMMA MoneyStep == IInv /\ [Next]_vars => MoneyOK'
  <1> SUFFICES ASSUME IInv, [Next]_vars PROVE MoneyOK'
    OBVIOUS
  <1> USE RiskManagerAssumption
  <1>1. Types /\ CallsOK /\ BooksOK /\ MoneyOK
    BY DEF IInv
  <1>t. /\ InitialBalance \in Int /\ CurrentBalance \in Int /\ RealizedPnL \in Int
        /\ snapshot.balance \in Int /\ snapshot.realized \in Int /\ snapshot.initial \in Int
    BY <1>1 DEF Types, Snapshot
  \* Steps that leave the money and the snapshot alone.
  <1>a. ASSUME UNCHANGED <<money, snapshot, torn>>, \A t \in Threads : SeenOK(t)'
        PROVE  MoneyOK'
    BY <1>1, <1>a DEF MoneyOK, BalanceIdentity, SnapshotOK, money
  \* Calls that have not started reading, or read the same.
  <1>b. ASSUME NEW t \in Threads, UNCHANGED money,
               \/ call'[t].at \notin Saving
               \/ call'[t].at = call[t].at /\ call'[t].seen = call[t].seen
        PROVE  SeenOK(t)'
    BY <1>1, <1>b DEF MoneyOK, SeenOK, money
  <1>2. ASSUME NEW t \in Threads, NEW p \in Prices, ClosePosition(t, p)
        PROVE  MoneyOK'
    <2>1. UNCHANGED <<InitialBalance, snapshot, torn>>
      BY <1>2 DEF ClosePosition, durable, history
    <2>2. CASE ~Held(Sym(t))
      <3>1. UNCHANGED money /\ Goto(t, "row")
        BY <1>2, <2>2 DEF ClosePosition
      <3>2. ASSUME NEW u \in Threads PROVE SeenOK(u)'
        <4>1. \/ call'[u].at = "row"
              \/ call'[u] = call[u]
          BY <1>1, <3>1 DEF Goto, Types, Call
        <4> QED
          BY <1>b, <3>1, <4>1 DEF Saving
      <3> QED
        BY <1>a, <2>1, <3>1, <3>2
    <2>3. CASE Held(Sym(t))
      <3> DEFINE net == NetPnL(OpenPositions[Sym(t)], p)
      <3>1. net \in Int
        <4>1. Sym(t) \in Symbols
          BY <1>1, <1>2 DEF CallsOK, CallOK, ClosePosition, At
        <4> QED
          BY <1>1, <2>3, <4>1, NetTyped DEF Types, BooksOK, BookOK
      <3>2. /\ CurrentBalance' = CurrentBalance + net /\ RealizedPnL' = RealizedPnL + net
            /\ MixSnapshots(t, "row")
        BY <1>2, <2>3 DEF ClosePosition
      <3> HIDE DEF net
      <3>3. BalanceIdentity' /\ InitialBalance' > 0
        BY <1>1, <1>t, <2>1, <3>1, <3>2 DEF MoneyOK, BalanceIdentity
      <3>4. ASSUME NEW u \in Threads PROVE SeenOK(u)'
        <4>1. call[u] \in Call /\ call[u].seen \in Snapshot
          BY <1>1 DEF Types, Call
        <4>2. CASE u = t
          <5>1. call'[u].at = "row"
            BY <3>2, <4>1, <4>2 DEF MixSnapshots, Call
          <5> QED
            BY <5>1 DEF SeenOK, Saving
        <4>3. CASE u # t /\ call[u].at \in Saving
          <5>1. call'[u] = Mixed(call[u])
            BY <3>2, <4>3 DEF MixSnapshots
          <5>2. call'[u].seen.mixed
            BY <4>1, <5>1 DEF Mixed, Call, Snapshot
          <5> QED
            BY <5>2 DEF SeenOK
        <4>4. CASE u # t /\ call[u].at \notin Saving
          <5>1. call'[u] = call[u]
            BY <3>2, <4>4 DEF MixSnapshots
          <5> QED
            BY <4>4, <5>1 DEF SeenOK
        <4> QED
          BY <4>2, <4>3, <4>4
      <3>5. SnapshotOK'
        BY <1>1, <2>1 DEF MoneyOK, SnapshotOK
      <3> QED
        BY <3>3, <3>4, <3>5 DEF MoneyOK
    <2> QED
      BY <2>2, <2>3
  <1>3. ASSUME NEW t \in Threads, SaveRiskSnapshot(t)
        PROVE  MoneyOK'
    <2>1. UNCHANGED money /\ UNCHANGED torn
      BY <1>3 DEF SaveRiskSnapshot
    <2>2. \A u \in Threads : SeenOK(u)'
      <3>1. \A u \in Threads : call'[u].at = "idle" \/ call'[u] = call[u]
        BY <1>1, <1>3 DEF SaveRiskSnapshot, Return, Types, Idle
      <3> QED
        BY <1>b, <2>1, <3>1 DEF Saving
    <2>3. SnapshotOK'
      <3> DEFINE seen == call[t].seen
                 new == [seen EXCEPT !.saved = TRUE, !.initial = InitialBalance]
      <3>1. snapshot' = new \/ UNCHANGED snapshot
        BY <1>3 DEF SaveRiskSnapshot
      <3>2. seen \in Snapshot
        BY <1>1 DEF Types, Call
      <3>3. /\ new.initial = InitialBalance /\ new.balance = seen.balance
            /\ new.realized = seen.realized /\ new.mixed = seen.mixed
        BY <3>2 DEF Snapshot
      <3>4. ~seen.mixed => seen.balance = CurrentBalance /\ seen.realized = RealizedPnL
        BY <1>1, <1>3 DEF MoneyOK, SeenOK, SaveRiskSnapshot, Saving
      <3> HIDE DEF seen, new
      <3> QED
        BY <1>1, <2>1, <3>1, <3>3, <3>4 DEF MoneyOK, BalanceIdentity, SnapshotOK
    <2> QED
      BY <1>1, <2>1, <2>2, <2>3 DEF MoneyOK, BalanceIdentity, money
  <1>4. ASSUME NEW t \in Threads, NEW stage, NEW next, NEW seen \in Snapshot,
               Read(t, stage, next, seen),
               ~seen.mixed => /\ next \in Saving => seen.balance = CurrentBalance
                              /\ next \in Saving \ {"realized"} => seen.realized = RealizedPnL
        PROVE  MoneyOK'
    <2>1. UNCHANGED <<money, snapshot, torn>>
      BY <1>4 DEF Read, durable, history
    <2> DEFINE c == [call[t] EXCEPT !.at = next, !.seen = seen]
    <2>2. call' = [call EXCEPT ![t] = c]
      BY <1>1, <1>4 DEF Read, Types
    <2>3. c.at = next /\ c.seen = seen
      BY <1>1 DEF Types, Call
    <2> HIDE DEF c
    <2>4. ASSUME NEW u \in Threads PROVE SeenOK(u)'
      <3>1. CASE u = t
        BY <1>1, <1>4, <2>1, <2>2, <2>3, <3>1 DEF SeenOK, Types, money
      <3>2. CASE u # t
        BY <1>1, <1>b, <2>1, <2>2, <3>2 DEF Types
      <3> QED
        BY <3>1, <3>2
    <2> QED
      BY <1>a, <2>1, <2>4
  <1>5. ASSUME NEW t \in Threads,
               \/ ReadBalance(t) \/ ReadRealized(t) \/ ReadGross(t) \/ ReadFree(t)
        PROVE  MoneyOK'
    <2> DEFINE seen == Seen(t)
    <2>1. /\ seen \in Snapshot /\ seen.used \in Int
          /\ CurrentBalance \in Int /\ RealizedPnL \in Int /\ SessionBalanceUsed \in Int
      BY <1>1 DEF Types, Call, Seen, Snapshot
    <2>2. SeenOK(t)
      BY <1>1 DEF MoneyOK
    <2> HIDE DEF seen
    <2>3. CASE ReadBalance(t)
      <3> DEFINE new == [seen EXCEPT !.balance = CurrentBalance]
      <3>1. new \in Snapshot /\ new.balance = CurrentBalance
        BY <2>1 DEF Snapshot
      <3>2. Read(t, "balance", "realized", new)
        BY <2>3 DEF ReadBalance, seen
      <3> HIDE DEF new
      <3> QED
        BY <1>4, <3>1, <3>2
    <2>4. CASE ReadRealized(t)
      <3> DEFINE new == [seen EXCEPT !.realized = RealizedPnL]
      <3>1. new \in Snapshot /\ new.realized = RealizedPnL /\ new.balance = seen.balance
            /\ new.mixed = seen.mixed
        BY <2>1 DEF Snapshot
      <3>2. Read(t, "realized", "gross", new)
        BY <2>4 DEF ReadRealized, seen
      <3>3. ~seen.mixed => seen.balance = CurrentBalance
        BY <2>2, <3>2 DEF SeenOK, Read, Saving, Seen, seen
      <3> HIDE DEF new
      <3> QED
        BY <1>4, <3>1, <3>2, <3>3
    <2>5. CASE ReadGross(t)
      <3> DEFINE new == [seen EXCEPT !.used = CurrentBalance]
      <3>1. new \in Snapshot /\ new.realized = seen.realized /\ new.balance = seen.balance
            /\ new.mixed = seen.mixed
        BY <2>1 DEF Snapshot
      <3>2. Read(t, "gross", "free", new)
        BY <2>5 DEF ReadGross, seen
      <3>3. ~seen.mixed => seen.balance = CurrentBalance /\ seen.realized = RealizedPnL
        BY <2>2, <3>2 DEF SeenOK, Read, Saving, Seen, seen
      <3> HIDE DEF new
      <3> QED
        BY <1>4, <3>1, <3>2, <3>3
    <2>6. CASE ReadFree(t)
      <3> DEFINE new == [seen EXCEPT !.used = @ - (CurrentBalance - SessionBalanceUsed)]
      <3>1. seen.used - (CurrentBalance - SessionBalanceUsed) \in Int
        BY <2>1
      <3>2. new \in Snapshot /\ new.realized = seen.realized /\ new.balance = seen.balance
            /\ new.mixed = seen.mixed
        BY <2>1, <3>1 DEF Snapshot
      <3>3. Read(t, "free", "write", new)
        BY <2>6 DEF ReadFree, seen
      <3>4. ~seen.mixed => seen.balance = CurrentBalance /\ seen.realized = RealizedPnL
        BY <2>2, <3>3 DEF SeenOK, Read, Saving, Seen, seen
      <3> HIDE DEF new
      <3> QED
        BY <1>4, <3>2, <3>3, <3>4
    <2> QED
      BY <1>5, <2>3, <2>4, <2>5, <2>6
  <1>6. ASSUME RestoreState, UNCHANGED snapshot
        PROVE  InitialBalance' > 0 /\ BalanceIdentity' /\ SnapshotOK'
    <2>1. CASE RestoreSnapshot /\ snapshot.saved
      <3>1. /\ CurrentBalance' = snapshot.balance /\ RealizedPnL' = snapshot.realized
            /\ InitialBalance' = snapshot.initial
            /\ torn' = (torn \/ snapshot.mixed)
        BY <1>1, <2>1 DEF RestoreSnapshot, MoneyOK, SnapshotOK
      <3> QED
        BY <1>1, <1>6, <2>1, <3>1 DEF MoneyOK, SnapshotOK, BalanceIdentity
    <2>2. CASE UNCHANGED <<money, torn>>
      BY <1>1, <1>6, <2>2 DEF MoneyOK, SnapshotOK, BalanceIdentity, money
    <2>3. CASE RestoreSnapshot /\ ~snapshot.saved
      BY <2>2, <2>3 DEF RestoreSnapshot, history
    <2> QED
      BY <1>6, <2>1, <2>2, <2>3 DEF RestoreState
  <1>7. CASE Start
    <2>1. RestoreState /\ ~up /\ UNCHANGED <<call, snapshot>>
      BY <1>7 DEF Start, durable
    <2>2. ASSUME NEW u \in Threads PROVE SeenOK(u)'
      <3>1. call'[u].at = "idle"
        BY <1>1, <2>1 DEF CallsOK, CallOK
      <3> QED
        BY <3>1 DEF SeenOK, Saving
    <2> QED
      BY <1>6, <2>1, <2>2 DEF MoneyOK
  <1>8. CASE RestoreAgain
    <2>1. RestoreState /\ UNCHANGED snapshot
      BY <1>8 DEF RestoreAgain, durable
    <2>2. ASSUME NEW u \in Threads PROVE SeenOK(u)'
      <3>1. call[u] \in Call /\ call[u].seen \in Snapshot
        BY <1>1 DEF Types, Call
      <3>2. CASE call[u].at \in Saving
        <4>1. call'[u] = Mixed(call[u])
          BY <1>8, <3>2 DEF RestoreAgain
        <4>2. call'[u].seen.mixed
          BY <3>1, <4>1 DEF Mixed, Call, Snapshot
        <4> QED
          BY <4>2 DEF SeenOK
      <3>3. CASE call[u].at \notin Saving
        <4>1. call'[u] = call[u]
          BY <1>8, <3>3 DEF RestoreAgain
        <4> QED
          BY <3>3, <4>1 DEF SeenOK
      <3> QED
        BY <3>2, <3>3
    <2> QED
      BY <1>6, <2>1, <2>2 DEF MoneyOK
  <1>9. CASE Crash
    <2>1. /\ InitialBalance' \in Nat \ {0} /\ CurrentBalance' = InitialBalance'
          /\ RealizedPnL' = 0
          /\ UNCHANGED <<snapshot, torn>>
          /\ \A u \in Threads : call'[u].at = "idle"
      BY <1>9 DEF Crash, durable, history, Idle
    <2>2. BalanceIdentity' /\ InitialBalance' > 0
      <3>1. PICK b \in Nat \ {0} : b = InitialBalance'
        BY <2>1
      <3>2. b = b + 0 /\ b > 0
        OBVIOUS
      <3>3. CurrentBalance' = InitialBalance' + RealizedPnL'
        BY <2>1, <3>1, <3>2
      <3> QED
        BY <3>1, <3>2, <3>3 DEF BalanceIdentity
    <2>3. SnapshotOK' /\ \A u \in Threads : SeenOK(u)'
      BY <1>1, <2>1 DEF MoneyOK, SnapshotOK, SeenOK, Saving
    <2> QED
      BY <2>2, <2>3 DEF MoneyOK
  <1>10. ASSUME NEW t \in Threads,
               \/ Begin(t) \/ EntryStep(t) \/ OrderFails(t) \/ SaveRow(t)
        PROVE  MoneyOK'
    <2>1. UNCHANGED <<money, snapshot, torn>>
      BY <1>10 DEF Begin, ValidateOrder, BeginExit, EntryStep, OpenPosition, RollbackPosition,
         UpdatePositionPrice, OrderFails, SaveRow, durable, history
    <2>2. call'[t].at \notin Saving /\ \A u \in Threads : u # t => call'[u] = call[u]
      <3>1. ASSUME NEW c, c.at \notin Saving, call' = [call EXCEPT ![t] = c]
            PROVE  call'[t].at \notin Saving /\ \A u \in Threads : u # t => call'[u] = call[u]
        BY <1>1, <3>1 DEF Types
      <3>2. CASE OrderFails(t) \/ RollbackPosition(t)
        BY <3>1, <3>2 DEF OrderFails, RollbackPosition, Return, Idle, Saving
      <3>3. ASSUME NEW s \in Symbols, NEW p \in Prices, NEW q \in Quantities,
                   NEW side \in Sides, NEW margin \in Margins \cup {0},
                   ValidateOrder(t, s, p, q, side, margin)
            PROVE  call'[t].at \notin Saving /\ \A u \in Threads : u # t => call'[u] = call[u]
        <4> DEFINE c == [Idle EXCEPT !.at = "open", !.kind = "entry", !.sym = s, !.margin = margin,
                                     !.ask = [id |-> 0, price |-> p, qty |-> q, side |-> side]]
        <4>1. c.at \notin Saving
          BY DEF Idle, Saving
        <4>2. call' = [call EXCEPT ![t] = c]
          BY <3>3 DEF ValidateOrder
        <4> HIDE DEF c
        <4> QED
          BY <3>1, <4>1, <4>2
      <3>4. ASSUME NEW s \in Symbols, BeginExit(t, s)
            PROVE  call'[t].at \notin Saving /\ \A u \in Threads : u # t => call'[u] = call[u]
        BY <1>1, <3>4 DEF BeginExit, Types, Idle, Saving
      <3>5. CASE SaveRow(t)
        BY <1>1, <3>5 DEF SaveRow, Goto, Types, Call, Saving
      <3>6. CASE OpenPosition(t)
        BY <1>1, <3>6 DEF OpenPosition, Types, Call, Saving
      <3>7. ASSUME NEW p \in Prices, NEW q \in 1..call[t].ask.qty, UpdatePositionPrice(t, p, q)
            PROVE  call'[t].at \notin Saving /\ \A u \in Threads : u # t => call'[u] = call[u]
        BY <1>1, <3>7 DEF UpdatePositionPrice, Types, Call, Saving
      <3> QED
        BY <1>10, <3>2, <3>3, <3>4, <3>5, <3>6, <3>7 DEF Begin, EntryStep
    <2>3. ASSUME NEW u \in Threads PROVE SeenOK(u)'
      BY <1>b, <2>1, <2>2
    <2> QED
      BY <1>a, <2>1, <2>3
  <1>11. CASE \/ \E s \in Symbols, p \in Prices : CheckStop(s, p)
              \/ TriggerKillSwitch \/ Advance \/ UNCHANGED vars
    <2>1. UNCHANGED <<money, snapshot, torn, call>>
      BY <1>11 DEF CheckStop, TriggerKillSwitch, Advance, vars, durable, history
    <2>2. ASSUME NEW u \in Threads PROVE SeenOK(u)'
      BY <1>b, <2>1
    <2> QED
      BY <1>a, <2>1, <2>2
  <1> QED
    BY <1>2, <1>3, <1>5, <1>7, <1>8, <1>9, <1>10, <1>11
    DEF Next, CallStep, ExitStep, SaveStep


-----------------------------------------------------------------------------
(***************************************************************************)
(* The types of the clock, the throttle and what else IInv leaves out.     *)
(***************************************************************************)
FiguresOK ==
    /\ now \in Nat
    /\ orderTimes \in Seq(Nat)
    /\ counted \in [1..MaxEntries -> Nat]
    /\ stale \in BOOLEAN
    /\ crashes \in 0..MaxCrashes
    /\ faults \in 0..MaxFaults

\* What the steps leave alone that only move a call along, or save a row.
LEMMA CallsOnly ==
    ASSUME NEW t \in Threads,
           \/ Begin(t) \/ OrderFails(t) \/ SaveRow(t)
           \/ ReadBalance(t) \/ ReadRealized(t) \/ ReadGross(t) \/ ReadFree(t)
    PROVE  UNCHANGED <<up, ticking, now, money, capital, throttle, killSwitch, snapshot,
                       history, bounds>>
  <1>1. CASE Begin(t)
    <2>1. ASSUME NEW s \in Symbols, BeginExit(t, s)
          PROVE  UNCHANGED <<up, ticking, now, money, capital, throttle, killSwitch, snapshot,
                             history, bounds>>
      BY <2>1 DEF BeginExit, durable
    <2>2. ASSUME NEW s, NEW p, NEW q, NEW side, NEW margin,
                 ValidateOrder(t, s, p, q, side, margin)
          PROVE  UNCHANGED <<up, ticking, now, money, capital, throttle, killSwitch, snapshot,
                             history, bounds>>
      BY <2>2 DEF ValidateOrder, durable
    <2> QED
      BY <1>1, <2>1, <2>2 DEF Begin
  <1>2. CASE OrderFails(t) \/ SaveRow(t)
    BY <1>2 DEF OrderFails, SaveRow, durable
  <1>3. CASE ReadBalance(t) \/ ReadRealized(t) \/ ReadGross(t) \/ ReadFree(t)
    BY <1>3 DEF ReadBalance, ReadRealized, ReadGross, ReadFree, Read, durable
  <1> QED
    BY <1>1, <1>2, <1>3

\* Stamps are added at one end and dropped at the other.
LEMMA OrderTimesTyped ==
    ASSUME orderTimes \in Seq(Nat), now \in Nat
    PROVE  /\ AppendOrderTime => orderTimes' \in Seq(Nat)
           /\ SubSeq(orderTimes, 1, Len(orderTimes) - 1) \in Seq(Nat)
  <1>1. ASSUME NEW n \in 0..Len(orderTimes)
        PROVE  SubSeq(orderTimes, n + 1, Len(orderTimes)) \in Seq(Nat)
    OBVIOUS
  <1>2. AppendOrderTime => orderTimes' \in Seq(Nat)
    BY <1>1 DEF AppendOrderTime
  <1>3. SubSeq(orderTimes, 1, Len(orderTimes) - 1) \in Seq(Nat)
    OBVIOUS
  <1> QED
    BY <1>2, <1>3

\* The figures have their types at the start.
LEMMA InitFigures == Init => FiguresOK
  <1> SUFFICES ASSUME Init PROVE FiguresOK
    OBVIOUS
  <1>1. now \in Nat /\ stale \in BOOLEAN
    BY RiskManagerAssumption DEF Init
  <1>2. orderTimes \in Seq(Nat)
    BY DEF Init
  <1>3. counted \in [1..MaxEntries -> Nat]
    BY DEF Init
  <1>4. crashes \in 0..MaxCrashes /\ faults \in 0..MaxFaults
    BY RiskManagerAssumption DEF Init
  <1> QED
    BY <1>1, <1>2, <1>3, <1>4 DEF FiguresOK

\* Every step keeps the figures' types.
LEMMA FiguresStep == IInv /\ FiguresOK /\ [Next]_vars => FiguresOK'
  <1> SUFFICES ASSUME IInv, FiguresOK, [Next]_vars PROVE FiguresOK'
    OBVIOUS
  <1> USE RiskManagerAssumption
  <1>1. ASSUME NEW t \in Threads, OpenPosition(t)
        PROVE  FiguresOK'
    <2>1. orderTimes' \in Seq(Nat)
      BY <1>1, OrderTimesTyped DEF OpenPosition, FiguresOK
    <2>2. counted' \in [1..MaxEntries -> Nat]
      BY <1>1 DEF OpenPosition, FiguresOK
    <2>3. UNCHANGED <<now, stale, crashes, faults>>
      BY <1>1 DEF OpenPosition, history, bounds
    <2> QED
      BY <2>1, <2>2, <2>3 DEF FiguresOK
  <1>2. ASSUME NEW t \in Threads, RollbackPosition(t)
        PROVE  FiguresOK'
    <2>1. orderTimes' \in Seq(Nat)
      BY <1>2, OrderTimesTyped DEF RollbackPosition, FiguresOK
    <2>2. counted' \in [1..MaxEntries -> Nat]
      BY <1>2 DEF RollbackPosition, FiguresOK
    <2>3. UNCHANGED <<now, stale, crashes, faults>>
      BY <1>2 DEF RollbackPosition, history, bounds
    <2> QED
      BY <2>1, <2>2, <2>3 DEF FiguresOK
  <1>3. ASSUME NEW t \in Threads, SaveRiskSnapshot(t)
        PROVE  FiguresOK'
    <2>1. stale' \in BOOLEAN
      BY <1>3 DEF IInv, Types, Call, Snapshot, SaveRiskSnapshot
    <2>2. crashes' \in 0..MaxCrashes /\ faults' \in 0..MaxFaults
      BY <1>3 DEF SaveRiskSnapshot, StoreFails, bounds, FiguresOK
    <2>3. UNCHANGED <<now, orderTimes, counted>>
      BY <1>3 DEF SaveRiskSnapshot, throttle
    <2> QED
      BY <2>1, <2>2, <2>3 DEF FiguresOK
  <1>4. CASE Start \/ RestoreAgain
    <2>1. RestoreState /\ UNCHANGED <<now, orderTimes, counted>>
      BY <1>4 DEF Start, RestoreAgain, throttle
    <2>2. stale' \in BOOLEAN
      BY <2>1 DEF RestoreState, RestoreSnapshot, FiguresOK, IInv, Types, Snapshot, history
    <2>3. crashes' \in 0..MaxCrashes /\ faults' \in 0..MaxFaults
      BY <2>1 DEF RestoreState, StoreFails, bounds, FiguresOK
    <2> QED
      BY <2>1, <2>2, <2>3 DEF FiguresOK
  <1>5. CASE Crash
    <2>1. orderTimes' = <<>> /\ counted' = [id \in 1..MaxEntries |-> 0]
      BY <1>5 DEF Crash
    <2>2. crashes' \in 0..MaxCrashes /\ UNCHANGED <<now, stale, faults>>
      BY <1>5 DEF Crash, history, FiguresOK
    <2> QED
      BY <2>1, <2>2 DEF FiguresOK
  <1>6. CASE Advance
    BY <1>6 DEF Advance, FiguresOK, throttle, history, bounds
  <1>7. ASSUME UNCHANGED <<now, throttle, history, bounds>>
        PROVE  FiguresOK'
    BY <1>7 DEF FiguresOK, throttle, history, bounds
  <1>8. ASSUME NEW t \in Threads, NEW p \in Prices,
               \/ \E q \in 1..call[t].ask.qty : UpdatePositionPrice(t, p, q)
               \/ ClosePosition(t, p)
        PROVE  UNCHANGED <<now, throttle, history, bounds>>
    <2>1. CASE ClosePosition(t, p)
      BY <2>1 DEF ClosePosition
    <2>2. CASE \E q \in 1..call[t].ask.qty : UpdatePositionPrice(t, p, q)
      BY <2>2 DEF UpdatePositionPrice
    <2> QED
      BY <1>8, <2>1, <2>2
  <1>9. CASE TriggerKillSwitch \/ UNCHANGED vars
    BY <1>7, <1>9 DEF TriggerKillSwitch, vars
  <1>10. ASSUME NEW s \in Symbols, NEW p \in Prices, CheckStop(s, p)
         PROVE  UNCHANGED <<now, throttle, history, bounds>>
    BY <1>10 DEF CheckStop
  <1> QED
    BY <1>1, <1>2, <1>3, <1>4, <1>5, <1>6, <1>7, <1>8, <1>9, <1>10, CallsOnly
    DEF Next, CallStep, EntryStep, ExitStep, SaveStep

-----------------------------------------------------------------------------
(***************************************************************************)
(* The capital that the positions lock.                                    *)
(***************************************************************************)
CapitalOK == drift \in Int /\ CapitalAccounted

\* What positions lock is an amount.
LEMMA LocksTyped ==
    ASSUME NEW book \in [Symbols -> Position]
    PROVE  SumFunctionOnSet([s \in Symbols |-> book[s].locked], Symbols) \in Int
  <1> DEFINE locks == [s \in Symbols |-> book[s].locked]
  <1>1. \A s \in Symbols : locks[s] \in Int
    BY DEF Position
  <1> HIDE DEF locks
  <1>2. SumFunctionOnSet(locks, Symbols) \in Int
    BY <1>1, SumInt, RiskManagerAssumption
  <1> QED
    BY <1>2 DEF locks

\* A position that changes its lock moves it by the difference.
LEMMA LocksMove ==
    ASSUME NEW old \in [Symbols -> Position], NEW new \in [Symbols -> Position],
           NEW s \in Symbols, \A r \in Symbols \ {s} : old[r].locked = new[r].locked
    PROVE  SumFunctionOnSet([r \in Symbols |-> new[r].locked], Symbols)
             = SumFunctionOnSet([r \in Symbols |-> old[r].locked], Symbols)
                 + new[s].locked - old[s].locked
  <1> DEFINE f == [r \in Symbols |-> old[r].locked]
             g == [r \in Symbols |-> new[r].locked]
  <1>1. \A r \in Symbols : f[r] \in Int /\ g[r] \in Int
    BY DEF Position
  <1>2. \A r \in Symbols \ {s} : f[r] = g[r]
    OBVIOUS
  <1>3. f[s] = old[s].locked /\ g[s] = new[s].locked
    OBVIOUS
  <1> HIDE DEF f, g
  <1>4. SumFunctionOnSet(g, Symbols) = SumFunctionOnSet(f, Symbols) + g[s] - f[s]
    BY <1>1, <1>2, SumMoves, RiskManagerAssumption
  <1>5. SumFunctionOnSet(g, Symbols) = SumFunctionOnSet(f, Symbols) + new[s].locked - old[s].locked
    BY <1>3, <1>4
  <1> QED
    BY <1>5 DEF f, g

\* Positions that keep their locks leave it as it is.
LEMMA LockedStays ==
    ASSUME \A s \in Symbols : OpenPositions'[s].locked = OpenPositions[s].locked
    PROVE  Locked' = Locked
  BY DEF Locked

\* No position locks nothing.
LEMMA LocksNothing ==
    SumFunctionOnSet([s \in Symbols |-> [r \in Symbols |-> NoPosition][s].locked], Symbols) = 0
  <1> DEFINE locks == [s \in Symbols |-> [r \in Symbols |-> NoPosition][s].locked]
  <1>1. \A s \in Symbols : locks[s] = 0
    BY DEF NoPosition
  <1> HIDE DEF locks
  <1>2. SumFunctionOnSet(locks, Symbols) = 0
    BY <1>1, SumZero, RiskManagerAssumption
  <1> QED
    BY <1>2 DEF locks

\* Every step keeps the capital in use equal to what is locked, but for the drift.
LEMMA CapitalStep == IInv /\ CapitalOK /\ [Next]_vars => CapitalOK'
  <1> SUFFICES ASSUME IInv, CapitalOK, [Next]_vars PROVE CapitalOK'
    OBVIOUS
  <1> USE RiskManagerAssumption
  <1>1. /\ Types /\ CallsOK /\ BooksOK /\ Types'
        /\ SessionBalanceUsed \in Int /\ drift \in Int /\ Locked \in Int
        /\ SessionBalanceUsed = Locked + drift
    <2>1. Types /\ CallsOK /\ BooksOK /\ Types'
      BY TypeStep DEF IInv
    <2> QED
      BY <2>1, LocksTyped DEF CapitalOK, CapitalAccounted, Types, Locked
  <1>n. NoPosition \in Position /\ NoPosition.locked = 0
    BY DEF NoPosition, Position, Sides
  \* What an action that changes one position's lock does to the total.
  <1>a. ASSUME NEW s \in Symbols, NEW released \in Int, NEW locked \in Int, NEW lost \in Int,
               OpenPositions[s].locked = released,
               OpenPositions'[s].locked = locked,
               \A r \in Symbols \ {s} : OpenPositions'[r].locked = OpenPositions[r].locked,
               SessionBalanceUsed' = SessionBalanceUsed + locked - released + lost,
               drift' = drift + lost
        PROVE  CapitalOK'
    <2>1. Locked' = Locked + OpenPositions'[s].locked - OpenPositions[s].locked
      BY <1>1, <1>a, LocksMove DEF Types, Locked
    <2>2. PICK l : l = Locked'
      OBVIOUS
    <2>3. l = Locked + locked - released
      BY <1>a, <2>1, <2>2
    <2>4. drift' \in Int /\ SessionBalanceUsed' = l + drift'
      BY <1>1, <1>a, <2>3
    <2> QED
      BY <2>2, <2>4 DEF CapitalOK, CapitalAccounted
  <1>b. ASSUME \A s \in Symbols : OpenPositions'[s].locked = OpenPositions[s].locked,
               UNCHANGED <<SessionBalanceUsed, drift>>
        PROVE  CapitalOK'
    BY <1>1, <1>b, LockedStays DEF CapitalOK, CapitalAccounted
  <1>2. ASSUME NEW t \in Threads, OpenPosition(t)
        PROVE  CapitalOK'
    <2>1. PICK s \in Symbols : s = Sym(t)
      BY <1>1, <1>2 DEF CallsOK, CallOK, OpenPosition, At
    <2>2. PICK x : /\ OpenPositions' = [OpenPositions EXCEPT ![s] = x]
                   /\ SessionBalanceUsed' = SessionBalanceUsed + x.locked
                   /\ drift' = drift + OpenPositions[s].locked
      BY <1>2, <2>1 DEF OpenPosition
    <2>3. /\ OpenPositions'[s] = x
          /\ \A r \in Symbols \ {s} : OpenPositions'[r].locked = OpenPositions[r].locked
      BY <1>1, <2>2 DEF Types
    <2>4. x.locked \in Int /\ OpenPositions[s].locked \in Int
      BY <1>1, <2>3 DEF Types, Position
    <2>5. PICK locked \in Int, released \in Int :
             locked = x.locked /\ released = OpenPositions[s].locked
      BY <2>4
    <2>6. SessionBalanceUsed' = SessionBalanceUsed + locked - released + released
      BY <1>1, <2>2, <2>5
    <2> QED
      BY <1>a, <2>2, <2>3, <2>5, <2>6
  <1>3. ASSUME NEW t \in Threads, NEW s \in Symbols,
               OpenPositions' = [OpenPositions EXCEPT ![s] = NoPosition],
               SessionBalanceUsed' = SessionBalanceUsed - OpenPositions[s].locked,
               UNCHANGED drift
        PROVE  CapitalOK'
    <2>1. /\ OpenPositions'[s].locked = 0
          /\ \A r \in Symbols \ {s} : OpenPositions'[r].locked = OpenPositions[r].locked
      BY <1>1, <1>3, <1>n DEF Types
    <2>2. PICK released \in Int : released = OpenPositions[s].locked
      BY <1>1 DEF Types, Position
    <2>3. SessionBalanceUsed' = SessionBalanceUsed + 0 - released + 0 /\ drift' = drift + 0
      BY <1>1, <1>3, <2>2
    <2> QED
      BY <1>a, <2>1, <2>2, <2>3
  <1>4. ASSUME NEW t \in Threads,
               RollbackPosition(t) \/ \E p \in Prices : ClosePosition(t, p)
        PROVE  CapitalOK'
    <2>1. Sym(t) \in Symbols
      BY <1>1, <1>4 DEF CallsOK, CallOK, RollbackPosition, ClosePosition, At
    <2>2. /\ UNCHANGED drift
          /\ \/ /\ OpenPositions' = [OpenPositions EXCEPT ![Sym(t)] = NoPosition]
                /\ SessionBalanceUsed' = SessionBalanceUsed - OpenPositions[Sym(t)].locked
             \/ UNCHANGED <<OpenPositions, SessionBalanceUsed>>
      BY <1>4 DEF RollbackPosition, ClosePosition, capital
    <2> QED
      BY <1>3, <1>b, <2>1, <2>2
  <1>5. ASSUME NEW t \in Threads, NEW p \in Prices, NEW q \in 1..call[t].ask.qty,
               UpdatePositionPrice(t, p, q)
        PROVE  CapitalOK'
    <2>1. PICK s \in Symbols : s = Sym(t)
      BY <1>1, <1>5 DEF CallsOK, CallOK, UpdatePositionPrice, At
    <2>2. PICK x :
             /\ UNCHANGED drift
             /\ \/ /\ OpenPositions' = [OpenPositions EXCEPT ![s] = x]
                   /\ SessionBalanceUsed' = SessionBalanceUsed + x.locked - OpenPositions[s].locked
                \/ UNCHANGED <<OpenPositions, SessionBalanceUsed>>
      BY <1>5, <2>1 DEF UpdatePositionPrice
    <2>3. CASE UNCHANGED <<OpenPositions, SessionBalanceUsed>>
      BY <1>b, <2>2, <2>3
    <2>4. CASE /\ OpenPositions' = [OpenPositions EXCEPT ![s] = x]
               /\ SessionBalanceUsed' = SessionBalanceUsed + x.locked - OpenPositions[s].locked
      <3>1. /\ OpenPositions'[s] = x
            /\ \A r \in Symbols \ {s} : OpenPositions'[r].locked = OpenPositions[r].locked
        BY <1>1, <2>4 DEF Types
      <3>2. x.locked \in Int /\ OpenPositions[s].locked \in Int
        BY <1>1, <3>1 DEF Types, Position
      <3>3. PICK locked \in Int, released \in Int :
               locked = x.locked /\ released = OpenPositions[s].locked
        BY <3>2
      <3>4. /\ SessionBalanceUsed' = SessionBalanceUsed + locked - released + 0
            /\ drift' = drift + 0
        BY <1>1, <2>2, <2>4, <3>3
      <3> QED
        BY <1>a, <3>1, <3>3, <3>4
    <2> QED
      BY <2>2, <2>3, <2>4
  <1>6. ASSUME NEW s \in Symbols, NEW p \in Prices, CheckStop(s, p)
        PROVE  CapitalOK'
    <2>1. \A r \in Symbols : OpenPositions'[r].locked = OpenPositions[r].locked
      BY <1>1, <1>6 DEF CheckStop, Types, Position
    <2> QED
      BY <1>b, <1>6, <2>1 DEF CheckStop
  <1>7. CASE Crash
    <2>1. Locked' = 0
      BY <1>7, LocksNothing DEF Crash, Locked
    <2> QED
      BY <1>7, <2>1 DEF Crash, CapitalOK, CapitalAccounted
  <1>8. CASE Start \/ RestoreAgain
    <2>1. drift' = SessionBalanceUsed' - Locked'
      BY <1>8 DEF Start, RestoreAgain, RestoreState
    <2>2. SessionBalanceUsed' \in Int /\ Locked' \in Int
      BY <1>1, LocksTyped DEF Types, Locked
    <2>3. PICK used \in Int, locked \in Int : used = SessionBalanceUsed' /\ locked = Locked'
      BY <2>2
    <2>4. drift' = used - locked
      BY <2>1, <2>3
    <2>5. drift' \in Int /\ used = locked + drift'
      BY <2>4
    <2> QED
      BY <2>3, <2>5 DEF CapitalOK, CapitalAccounted
  <1>9. ASSUME UNCHANGED capital
        PROVE  CapitalOK'
    BY <1>b, <1>9 DEF capital
  <1>10. ASSUME NEW t \in Threads, SaveRiskSnapshot(t)
        PROVE  UNCHANGED capital
    BY <1>10 DEF SaveRiskSnapshot
  <1>11. CASE TriggerKillSwitch \/ Advance \/ UNCHANGED vars
    BY <1>9, <1>11 DEF TriggerKillSwitch, Advance, vars
  <1> QED
    BY <1>2, <1>4, <1>5, <1>6, <1>7, <1>8, <1>9, <1>10, <1>11, CallsOnly
    DEF Next, CallStep, EntryStep, ExitStep, SaveStep

-----------------------------------------------------------------------------
(***************************************************************************)
(* The throttle.  Every entry of the window still has a timestamp of its   *)
(* own, in the order of the entries: what is in the window cannot be fewer *)
(* than they are, and the timestamp a rollback drops can only be that of   *)
(* the entry that failed.                                                  *)
(***************************************************************************)
LiveAt(counts, time) == {id \in 1..MaxEntries : counts[id] > time - Window}

Carries(f, live, counts, times) ==
    /\ f \in [live -> 1..Len(times)]
    /\ \A i, j \in live : i < j => f[i] < f[j]
    /\ \A i \in live : times[f[i]] = counts[i]

ThrottleOK ==
    /\ now >= Window
    /\ \A id \in 1..MaxEntries : counted[id] <= now /\ (counted[id] # 0 => id <= entries)
    /\ \E f : Carries(f, LiveAt(counted, now), counted, orderTimes)
    /\ ThrottleHolds
    /\ \A t \in Threads : call[t].at = "open" => InWindow < MaxOrdersPerMin
    /\ \A t \in Threads : call[t].kind = "entry" /\ call[t].at = "sent" =>
          /\ call[t].ask.id = entries
          /\ \A id \in 1..MaxEntries : counted[id] <= counted[entries]

\* The window holds a timestamp for every entry in it.
LEMMA EachHasItsTime ==
    ASSUME NEW counts \in [1..MaxEntries -> Nat], NEW times \in Seq(Nat), NEW time \in Nat,
           NEW f, Carries(f, LiveAt(counts, time), counts, times)
    PROVE  Cardinality(LiveAt(counts, time))
             <= Cardinality({i \in DOMAIN times : times[i] > time - Window})
  <1> DEFINE live == LiveAt(counts, time)
             window == {i \in DOMAIN times : times[i] > time - Window}
  <1>1. DOMAIN times = 1..Len(times) /\ Len(times) \in Nat
    OBVIOUS
  <1>2. IsFiniteSet(window)
    <2>1. window \in SUBSET (1..Len(times)) /\ IsFiniteSet(1..Len(times))
      BY <1>1, FS_Interval
    <2> HIDE DEF window
    <2> QED
      BY <2>1, FS_Subset
  <1>3. live \subseteq Nat
    BY DEF LiveAt
  <1>4. \A i \in live : f[i] \in window
    BY <1>1 DEF LiveAt, Carries
  <1>5. f \in [live -> window]
    BY <1>4 DEF Carries
  <1>6. \A i, j \in live : f[i] = f[j] => i = j
    <2>1. \A i \in live : f[i] \in Nat
      BY DEF Carries
    <2>2. \A i, j \in live : i < j => f[i] < f[j]
      BY DEF Carries
    <2> HIDE DEF live
    <2> QED
      BY <1>3, <2>1, <2>2
  <1> HIDE DEF live, window
  <1>7. f \in Injection(live, window)
    BY <1>5, <1>6 DEF Injection, IsInjective
  <1>8. Cardinality(live) <= Cardinality(window)
    BY <1>2, <1>7, FS_Injection
  <1> QED
    BY <1>8 DEF live, window

\* Entries that leave the window leave the others their timestamps.
LEMMA CarriesFewer ==
    ASSUME NEW counts, NEW times \in Seq(Nat), NEW live, NEW f,
           Carries(f, live, counts, times),
           NEW fewer \in SUBSET live, NEW others, \A i \in fewer : others[i] = counts[i]
    PROVE  \E g : Carries(g, fewer, others, times)
  <1> DEFINE g == [i \in fewer |-> f[i]]
  <1>1. Carries(g, fewer, others, times)
    BY DEF Carries
  <1> QED
    BY <1>1

\* What is left of the timestamps once the first n are dropped.
LEMMA Pruned ==
    ASSUME NEW times \in Seq(Nat), NEW n \in 0..Len(times)
    PROVE  /\ SubSeq(times, n + 1, Len(times)) \in Seq(Nat)
           /\ Len(SubSeq(times, n + 1, Len(times))) = Len(times) - n
           /\ \A k \in 1..(Len(times) - n) :
                 SubSeq(times, n + 1, Len(times))[k] = times[n + k]
  <1>1. SubSeq(times, n + 1, Len(times)) \in Seq(Nat)
    OBVIOUS
  <1>2. Len(SubSeq(times, n + 1, Len(times))) = Len(times) - n
    OBVIOUS
  <1>3. \A k \in 1..(Len(times) - n) : SubSeq(times, n + 1, Len(times))[k] = times[n + k]
    OBVIOUS
  <1> QED
    BY <1>1, <1>2, <1>3

\* What is left of them once the last is dropped.
LEMMA Dropped ==
    ASSUME NEW times \in Seq(Nat), Len(times) > 0
    PROVE  /\ Len(SubSeq(times, 1, Len(times) - 1)) = Len(times) - 1
           /\ \A k \in 1..(Len(times) - 1) : SubSeq(times, 1, Len(times) - 1)[k] = times[k]
  <1>1. Len(SubSeq(times, 1, Len(times) - 1)) = Len(times) - 1
    <2>1. PICK m \in Nat : m = Len(times) - 1
      OBVIOUS
    <2>2. Len(SubSeq(times, 1, m)) = m
      BY <2>1
    <2> QED
      BY <2>1, <2>2
  <1>2. \A k \in 1..(Len(times) - 1) : SubSeq(times, 1, Len(times) - 1)[k] = times[k]
    OBVIOUS
  <1> QED
    BY <1>1, <1>2

\* What a new entry appends, the expired timestamps being dropped, is its
\* own; the others keep theirs.
LEMMA CarriesOneMore ==
    ASSUME NEW counts \in [1..MaxEntries -> Nat], NEW times \in Seq(Nat), NEW time \in Nat,
           NEW live \in SUBSET (1..MaxEntries), NEW f, Carries(f, live, counts, times),
           \A i \in live : counts[i] > time - Window,
           NEW n \in 0..Len(times), \A i \in 1..n : ~(times[i] > time - Window),
           NEW new \in Nat, \A i \in live : i < new,
           NEW others, others[new] = time, \A i \in live : others[i] = counts[i],
           NEW after, after = Append(SubSeq(times, n + 1, Len(times)), time)
    PROVE  \E g : Carries(g, live \cup {new}, others, after)
  <1> DEFINE m == Len(times) - n
             g == [i \in live \cup {new} |-> IF i = new THEN m + 1 ELSE f[i] - n]
  <1>1. m \in Nat /\ Len(times) \in Nat
    OBVIOUS
  <1>2. /\ Len(after) = m + 1
        /\ after[m + 1] = time
        /\ \A k \in 1..m : after[k] = times[n + k]
    <2>1. PICK left \in Seq(Nat) :
             /\ left = SubSeq(times, n + 1, Len(times))
             /\ Len(left) = m
             /\ \A k \in 1..m : left[k] = times[n + k]
      BY Pruned
    <2>2. after = Append(left, time)
      BY <2>1
    <2> HIDE DEF m
    <2> QED
      BY <1>1, <2>1, <2>2
  <1>3. ASSUME NEW i \in live
        PROVE  f[i] - n \in 1..m /\ after[f[i] - n] = others[i] /\ i # new
    <2>1. f[i] \in 1..Len(times) /\ times[f[i]] = counts[i]
      BY DEF Carries
    <2>2. f[i] \notin 1..n
      BY <2>1
    <2>3. f[i] - n \in 1..m
      <3>1. PICK k \in Nat : k = f[i]
        BY <2>1
      <3>2. PICK l \in Nat : l = Len(times)
        BY <1>1
      <3>3. k \in 1..l /\ k \notin 1..n
        BY <2>1, <2>2, <3>1, <3>2
      <3>4. k - n \in 1..(l - n)
        BY <3>3
      <3> QED
        BY <3>1, <3>2, <3>4
    <2>4. after[f[i] - n] = times[n + (f[i] - n)]
      BY <1>2, <2>3
    <2>5. n + (f[i] - n) = f[i]
      BY <2>1
    <2>6. i # new
      OBVIOUS
    <2> QED
      BY <2>1, <2>3, <2>4, <2>5, <2>6
  <1>4. \A i \in live : g[i] = f[i] - n
    BY <1>3
  <1>5. g[new] = m + 1
    OBVIOUS
  <1>6. g \in [live \cup {new} -> 1..Len(after)]
    <2>1. \A i \in live \cup {new} : g[i] \in 1..(m + 1)
      <3> HIDE DEF g, m
      <3>1. \A i \in live : g[i] \in 1..m
        BY <1>3, <1>4
      <3>2. 1..m \subseteq 1..(m + 1) /\ m + 1 \in 1..(m + 1)
        BY <1>1
      <3> QED
        BY <1>5, <3>1, <3>2
    <2> QED
      BY <1>2, <2>1
  <1>7. \A i, j \in live \cup {new} : i < j => g[i] < g[j]
    <2>1. \A i, j \in live : i < j => f[i] < f[j] /\ f[i] \in Int /\ f[j] \in Int
      BY DEF Carries
    <2> HIDE DEF g, m
    <2>2. ASSUME NEW i \in live, NEW j \in live, i < j
          PROVE  g[i] < g[j]
      <3>1. n \in Int /\ f[i] \in Int /\ f[j] \in Int /\ f[i] < f[j]
        BY <2>1, <2>2
      <3>2. g[i] = f[i] - n /\ g[j] = f[j] - n
        BY <1>4
      <3> QED
        BY <3>1, <3>2
    <2>3. ASSUME NEW i \in live PROVE g[i] < g[new]
      <3>1. f[i] - n \in 1..m
        BY <1>3
      <3>2. PICK k \in 1..m : k = g[i]
        BY <1>4, <3>1
      <3>3. k < m + 1
        BY <1>1
      <3> QED
        BY <1>5, <3>2, <3>3
    <2>4. \A i \in live : ~(new < i)
      OBVIOUS
    <2> QED
      BY <2>2, <2>3, <2>4
  <1>8. \A i \in live \cup {new} : after[g[i]] = others[i]
    BY <1>2, <1>3, <1>4, <1>5
  <1> HIDE DEF g
  <1> QED
    BY <1>6, <1>7, <1>8 DEF Carries

\* The last timestamp can only be that of the last entry.
LEMMA CarriesOneLess ==
    ASSUME NEW counts, NEW times \in Seq(Nat), NEW live \in SUBSET Nat, NEW f,
           Carries(f, live, counts, times),
           NEW last \in live, \A i \in live : i <= last,
           NEW others, \A i \in live \ {last} : others[i] = counts[i]
    PROVE  \E g : Carries(g, live \ {last}, others, SubSeq(times, 1, Len(times) - 1))
  <1> DEFINE g == [i \in live \ {last} |-> f[i]]
             m == Len(times) - 1
  <1>1. Len(times) \in Nat /\ f[last] \in 1..Len(times)
    BY DEF Carries
  <1>2. m \in Nat /\ Len(SubSeq(times, 1, m)) = m
    BY <1>1, Dropped
  <1>3. \A k \in 1..m : SubSeq(times, 1, m)[k] = times[k]
    BY <1>1, Dropped
  <1>4. ASSUME NEW i \in live \ {last}
        PROVE  f[i] \in 1..m
    <2>1. i < last
      OBVIOUS
    <2>2. f[i] \in 1..Len(times) /\ f[i] < f[last]
      BY <2>1 DEF Carries
    <2>3. PICK a \in Nat, b \in Nat : a = f[i] /\ b = f[last]
      BY <1>1, <2>2
    <2>4. PICK k \in Nat : k = Len(times)
      BY <1>1
    <2>5. a >= 1 /\ a < b /\ b <= k
      BY <1>1, <2>2, <2>3, <2>4
    <2>6. a \in 1..(k - 1)
      BY <2>5
    <2> QED
      BY <2>3, <2>4, <2>6
  <1>5. g \in [live \ {last} -> 1..Len(SubSeq(times, 1, m))]
    BY <1>2, <1>4
  <1>6. \A i, j \in live \ {last} : i < j => g[i] < g[j]
    BY DEF Carries
  <1>7. ASSUME NEW i \in live \ {last} PROVE SubSeq(times, 1, m)[g[i]] = others[i]
    <2>1. times[f[i]] = counts[i]
      BY DEF Carries
    <2> HIDE DEF m
    <2> QED
      BY <1>3, <1>4, <2>1
  <1> HIDE DEF g
  <1>8. Carries(g, live \ {last}, others, SubSeq(times, 1, m))
    BY <1>5, <1>6, <1>7 DEF Carries
  <1> QED
    BY <1>8

\* No entry needs no timestamp.
LEMMA CarriesNothing ==
    ASSUME NEW counts, NEW times \in Seq(Nat)
    PROVE  \E f : Carries(f, {}, counts, times)
  <1> DEFINE f == [i \in {} |-> 0]
  <1>1. Carries(f, {}, counts, times)
    BY DEF Carries
  <1> QED
    BY <1>1

\* What is in a window is a number, and it falls as time passes.
LEMMA WindowCounts ==
    ASSUME NEW times \in Seq(Nat), NEW time \in Int, NEW then \in Int, time <= then
    PROVE  /\ Cardinality({i \in DOMAIN times : times[i] > time}) \in Nat
           /\ Cardinality({i \in DOMAIN times : times[i] > then})
                <= Cardinality({i \in DOMAIN times : times[i] > time})
  <1> DEFINE early == {i \in DOMAIN times : times[i] > time}
             recent == {i \in DOMAIN times : times[i] > then}
  <1>1. early \in SUBSET (1..Len(times)) /\ IsFiniteSet(1..Len(times))
    <2>1. Len(times) \in Nat /\ early \in SUBSET (1..Len(times))
      OBVIOUS
    <2> QED
      BY <2>1, FS_Interval
  <1>2. recent \in SUBSET early
    <2>1. \A i \in DOMAIN times : times[i] \in Int
      OBVIOUS
    <2> QED
      BY <2>1
  <1> HIDE DEF early, recent
  <1>3. IsFiniteSet(early)
    BY <1>1, FS_Subset
  <1>4. Cardinality(early) \in Nat /\ Cardinality(recent) <= Cardinality(early)
    BY <1>2, <1>3, FS_Subset, FS_CardinalityType
  <1> QED
    BY <1>4 DEF early, recent

\* Fewer entries in the window are within the limit too.
LEMMA FewerHold ==
    ASSUME NEW live \in SUBSET (1..MaxEntries), NEW fewer \in SUBSET live,
           Cardinality(live) <= MaxOrdersPerMin
    PROVE  Cardinality(fewer) <= MaxOrdersPerMin
  <1>1. IsFiniteSet(live)
    <2>1. IsFiniteSet(1..MaxEntries)
      BY FS_Interval, RiskManagerAssumption
    <2> QED
      BY <2>1, FS_Subset
  <1>2. /\ Cardinality(live) \in Nat /\ Cardinality(fewer) \in Nat
        /\ Cardinality(fewer) <= Cardinality(live)
    BY <1>1, FS_Subset, FS_CardinalityType
  <1> QED
    BY <1>2, RiskManagerAssumption

\* Only the tick loop's call can be an entry: there is one of them.
LEMMA OneEntry ==
    ASSUME CallsOK, NEW t \in Threads, call[t].kind = "entry", NEW u \in Threads, u # t
    PROVE  call[u].kind # "entry" /\ call[u].at # "open"
  BY RiskManagerAssumption DEF CallsOK, CallOK

\* No entry has been counted at the start.
LEMMA InitThrottle == Init => ThrottleOK
  <1> SUFFICES ASSUME Init PROVE ThrottleOK
    OBVIOUS
  <1> USE RiskManagerAssumption
  <1>1. LiveAt(counted, now) = {}
    BY DEF Init, LiveAt
  <1>2. \E f : Carries(f, LiveAt(counted, now), counted, orderTimes)
    <2>1. orderTimes \in Seq(Nat)
      BY DEF Init
    <2> QED
      BY <1>1, <2>1, CarriesNothing
  <1>3. ThrottleHolds
    BY <1>1, FS_EmptySet DEF ThrottleHolds, LiveAt
  <1>4. now >= Window /\ \A id \in 1..MaxEntries : counted[id] <= now /\ counted[id] = 0
    BY DEF Init
  <1>5. \A t \in Threads : call[t].at = "idle"
    BY DEF Init, Idle
  <1> QED
    BY <1>2, <1>3, <1>4, <1>5 DEF ThrottleOK

\* An entry is validated with the window short of the limit, and no other
\* entry can come between that and its own timestamp.
LEMMA ThrottleOpens ==
    ASSUME IInv, FiguresOK, ThrottleOK, NEW t \in Threads, OpenPosition(t)
    PROVE  ThrottleOK'
  <1> USE RiskManagerAssumption
  <1> DEFINE live == LiveAt(counted, now)
             new == entries + 1
  <1>1. /\ new \in 1..MaxEntries
        /\ now \in Nat /\ now >= Window
        /\ counted \in [1..MaxEntries -> Nat] /\ orderTimes \in Seq(Nat)
        /\ entries' = new /\ now' = now /\ counted' = [counted EXCEPT ![new] = now]
        /\ AppendOrderTime
    <2>1. entries \in 0..MaxEntries /\ entries < MaxEntries
      BY DEF IInv, Types, OpenPosition
    <2>2. now \in Nat /\ counted \in [1..MaxEntries -> Nat] /\ orderTimes \in Seq(Nat)
      BY DEF FiguresOK
    <2>3. now >= Window
      BY DEF ThrottleOK
    <2>4. /\ entries' = new /\ now' = now /\ counted' = [counted EXCEPT ![new] = now]
          /\ AppendOrderTime
      BY DEF OpenPosition
    <2>5. new \in 1..MaxEntries
      BY <2>1
    <2> QED
      BY <2>2, <2>3, <2>4, <2>5
  <1>2. ASSUME NEW i \in live
        PROVE  i \in 1..MaxEntries /\ i < new /\ counted[i] > now - Window
    <2>1. i \in 1..MaxEntries /\ counted[i] > now - Window
      BY DEF LiveAt
    <2>2. counted[i] # 0
      BY <1>1, <2>1
    <2>3. i <= entries /\ entries \in Nat
      BY <2>1, <2>2 DEF ThrottleOK, IInv, Types
    <2> QED
      BY <2>1, <2>3
  <1>3. LiveAt(counted, now)' = live \cup {new}
    <2>1. \A id \in 1..MaxEntries : id \in LiveAt(counted, now)' <=> id \in live \cup {new}
      BY <1>1 DEF LiveAt
    <2>2. LiveAt(counted, now)' \subseteq 1..MaxEntries /\ live \cup {new} \subseteq 1..MaxEntries
      BY <1>1 DEF LiveAt
    <2> HIDE DEF live, new
    <2> QED
      BY <2>1, <2>2
  <1>4. PICK f : Carries(f, live, counted, orderTimes)
    BY DEF ThrottleOK
  <1>5. \E g : Carries(g, LiveAt(counted, now)', counted', orderTimes')
    <2>1. PICK n \in 0..Len(orderTimes) :
             /\ \A i \in 1..n : ~(orderTimes[i] > now - Window)
             /\ orderTimes' = Append(SubSeq(orderTimes, n + 1, Len(orderTimes)), now)
      BY <1>1 DEF AppendOrderTime, Expired, Recent
    <2>2. counted'[new] = now /\ \A i \in live : counted'[i] = counted[i]
      BY <1>1, <1>2
    <2>3. live \in SUBSET (1..MaxEntries) /\ new \in Nat
      BY <1>1, <1>2
    <2>4. \A i \in live : i < new /\ counted[i] > now - Window
      BY <1>2
    <2> HIDE DEF live, new
    <2>5. \E g : Carries(g, live \cup {new}, counted', orderTimes')
      BY <1>1, <1>4, <2>1, <2>2, <2>3, <2>4, CarriesOneMore
    <2> QED
      BY <1>3, <2>5
  <1>6. ThrottleHolds'
    <2>1. IsFiniteSet(live)
      <3>1. live \in SUBSET (1..MaxEntries) /\ IsFiniteSet(1..MaxEntries)
        BY FS_Interval DEF LiveAt
      <3> QED
        BY <3>1, FS_Subset
    <2>2. Cardinality(live) <= InWindow
      BY <1>1, <1>4, EachHasItsTime DEF InWindow, Recent
    <2>3. InWindow \in Nat /\ InWindow < MaxOrdersPerMin
      <3>1. PICK time \in Int : time = now - Window
        BY <1>1
      <3>2. time <= time
        BY <3>1
      <3>3. Cardinality({i \in DOMAIN orderTimes : orderTimes[i] > time}) \in Nat
        BY <1>1, <3>2, WindowCounts
      <3> QED
        BY <3>1, <3>3 DEF InWindow, Recent, ThrottleOK, OpenPosition, At
    <2>4. Cardinality(live) \in Nat /\ Cardinality(live \cup {new}) <= Cardinality(live) + 1
      <3> HIDE DEF live, new
      <3>1. Cardinality(live) \in Nat
        BY <2>1, FS_CardinalityType
      <3>2. Cardinality(live \cup {new})
              = IF new \in live THEN Cardinality(live) ELSE Cardinality(live) + 1
        BY <2>1, FS_AddElement
      <3> QED
        BY <3>1, <3>2
    <2>5. Cardinality(live \cup {new}) \in Nat
      BY <2>1, FS_AddElement, FS_CardinalityType
    <2>6. Cardinality(live \cup {new}) <= MaxOrdersPerMin
      <3> HIDE DEF live, new
      <3> QED
        BY <2>2, <2>3, <2>4, <2>5
    <2>7. Cardinality(LiveAt(counted, now)') <= MaxOrdersPerMin
      BY <1>3, <2>6
    <2> QED
      BY <2>7 DEF ThrottleHolds, LiveAt
  <1>7. \A u \in Threads :
           /\ call'[u].at # "open"
           /\ call'[u].kind = "entry" => call'[u].ask.id = new
    <2>1. call[t].kind = "entry" /\ CallsOK /\ Types
      BY DEF OpenPosition, At, IInv
    <2>2. call'[t].at = "sent" /\ call'[t].ask.id = new
      BY <2>1 DEF OpenPosition, Types, Call, Row
    <2>3. \A u \in Threads : u # t => call'[u] = call[u]
      BY <2>1 DEF OpenPosition, Types
    <2> QED
      BY <2>1, <2>2, <2>3, OneEntry
  <1>8. \A id \in 1..MaxEntries :
           counted'[id] <= counted'[new] /\ counted'[id] <= now' /\ (counted'[id] # 0 => id <= new)
    BY <1>1 DEF ThrottleOK, IInv, Types
  <1> QED
    BY <1>1, <1>5, <1>6, <1>7, <1>8 DEF ThrottleOK

\* A failed entry is the last of the window, and takes the last timestamp.
LEMMA ThrottleRollsBack ==
    ASSUME IInv, FiguresOK, ThrottleOK, NEW t \in Threads, RollbackPosition(t)
    PROVE  ThrottleOK'
  <1> USE RiskManagerAssumption
  <1> DEFINE live == LiveAt(counted, now)
  <1>1. /\ Types /\ CallsOK /\ call[t].kind = "entry" /\ call[t].at = "sent"
        /\ UNCHANGED <<now, entries>>
    BY DEF IInv, RollbackPosition, At
  <1>2. /\ now \in Nat /\ now >= Window /\ entries \in Nat
        /\ counted \in [1..MaxEntries -> Nat] /\ orderTimes \in Seq(Nat)
        /\ call[t].ask.id = entries
        /\ counted' = [counted EXCEPT ![entries] = 0]
        /\ \A id \in 1..MaxEntries : counted[id] <= counted[entries]
    <2>1. now \in Nat /\ counted \in [1..MaxEntries -> Nat] /\ orderTimes \in Seq(Nat)
      BY DEF FiguresOK
    <2>2. now >= Window /\ entries \in Nat
      BY <1>1 DEF Types, ThrottleOK
    <2>3. /\ call[t].ask.id = entries
          /\ \A id \in 1..MaxEntries : counted[id] <= counted[entries]
      BY <1>1 DEF ThrottleOK
    <2>4. counted' = [counted EXCEPT ![call[t].ask.id] = 0]
      BY DEF RollbackPosition
    <2> QED
      BY <2>1, <2>2, <2>3, <2>4
  <1>3. entries \in 1..MaxEntries
    BY <1>1 DEF CallsOK, CallOK, Types, ThrottleOK
  <1>4. LiveAt(counted, now)' = live \ {entries}
    <2>1. \A id \in 1..MaxEntries : id \in LiveAt(counted, now)' <=> id \in live \ {entries}
      BY <1>1, <1>2, <1>3 DEF LiveAt
    <2>2. LiveAt(counted, now)' \subseteq 1..MaxEntries /\ live \subseteq 1..MaxEntries
      BY DEF LiveAt
    <2> HIDE DEF live
    <2> QED
      BY <2>1, <2>2
  <1>5. PICK f : Carries(f, live, counted, orderTimes)
    BY DEF ThrottleOK
  <1>6. \A i \in live \ {entries} : counted'[i] = counted[i]
    BY <1>2 DEF LiveAt
  <1>7. \E g : Carries(g, live \ {entries}, counted', orderTimes')
    <2>1. CASE UNCHANGED orderTimes
      <3>1. live \ {entries} \in SUBSET live
        OBVIOUS
      <3> HIDE DEF live
      <3> QED
        BY <1>2, <1>5, <1>6, <2>1, <3>1, CarriesFewer
    <2>2. CASE orderTimes' = SubSeq(orderTimes, 1, Len(orderTimes) - 1) /\ entries \in live
      <3>1. live \in SUBSET Nat /\ \A i \in live : i <= entries
        BY <1>2 DEF LiveAt, ThrottleOK
      <3> HIDE DEF live
      <3>2. \E g : Carries(g, live \ {entries}, counted', SubSeq(orderTimes, 1, Len(orderTimes) - 1))
        BY <1>2, <1>5, <1>6, <2>2, <3>1, CarriesOneLess
      <3> QED
        BY <2>2, <3>2
    <2>3. CASE orderTimes' = SubSeq(orderTimes, 1, Len(orderTimes) - 1) /\ entries \notin live
      <3>1. live \ {entries} = {}
        BY <1>2, <1>3, <2>3 DEF LiveAt
      <3>2. orderTimes' \in Seq(Nat)
        BY <1>2, <2>3, OrderTimesTyped
      <3> QED
        BY <3>1, <3>2, CarriesNothing
    <2> QED
      BY <2>1, <2>2, <2>3 DEF RollbackPosition
  <1>8. ThrottleHolds'
    <2>1. live \in SUBSET (1..MaxEntries) /\ live \ {entries} \in SUBSET live
      BY DEF LiveAt
    <2>2. Cardinality(live) <= MaxOrdersPerMin
      BY DEF ThrottleOK, ThrottleHolds, LiveAt
    <2>3. Cardinality(LiveAt(counted, now)') <= MaxOrdersPerMin
      <3> HIDE DEF live
      <3> QED
        BY <1>4, <2>1, <2>2, FewerHold
    <2> QED
      BY <2>3 DEF ThrottleHolds, LiveAt
  <1>9. \A u \in Threads : call'[u].at # "open" /\ call'[u].kind # "entry"
    <2>1. call'[t].at = "idle" /\ call'[t].kind = "none"
      BY <1>1 DEF RollbackPosition, Return, Idle, Types
    <2>2. \A u \in Threads : u # t => call'[u] = call[u]
      BY <1>1 DEF RollbackPosition, Return, Types
    <2> QED
      BY <1>1, <2>1, <2>2, OneEntry
  <1>10. \A id \in 1..MaxEntries : counted'[id] <= now' /\ (counted'[id] # 0 => id <= entries')
    BY <1>1, <1>2 DEF ThrottleOK
  <1> QED
    BY <1>1, <1>2, <1>4, <1>7, <1>8, <1>9, <1>10 DEF ThrottleOK

\* Time takes entries and timestamps out of the window.
LEMMA ThrottleAges ==
    ASSUME FiguresOK, ThrottleOK, Advance
    PROVE  ThrottleOK'
  <1> USE RiskManagerAssumption
  <1> DEFINE live == LiveAt(counted, now)
  <1>1. /\ now \in Nat /\ now' = now + 1 /\ now >= Window
        /\ counted \in [1..MaxEntries -> Nat] /\ orderTimes \in Seq(Nat)
        /\ UNCHANGED <<counted, orderTimes, entries, call>>
    BY DEF FiguresOK, ThrottleOK, Advance, throttle
  <1>2. LiveAt(counted, now)' \in SUBSET live
    BY <1>1 DEF LiveAt
  <1>3. \E g : Carries(g, LiveAt(counted, now)', counted', orderTimes')
    <2>1. PICK f : Carries(f, live, counted, orderTimes)
      BY DEF ThrottleOK
    <2>2. PICK fewer \in SUBSET live : fewer = LiveAt(counted, now)'
      BY <1>2
    <2> HIDE DEF live
    <2>3. \E g : Carries(g, fewer, counted, orderTimes)
      BY <1>1, <2>1, CarriesFewer
    <2> QED
      BY <1>1, <2>2, <2>3
  <1>4. ThrottleHolds'
    <2>1. live \in SUBSET (1..MaxEntries)
      BY DEF LiveAt
    <2>2. Cardinality(live) <= MaxOrdersPerMin
      BY DEF ThrottleOK, ThrottleHolds, LiveAt
    <2>3. Cardinality(LiveAt(counted, now)') <= MaxOrdersPerMin
      <3> HIDE DEF live
      <3> QED
        BY <1>2, <2>1, <2>2, FewerHold
    <2> QED
      BY <2>3 DEF ThrottleHolds, LiveAt
  <1>5. InWindow < MaxOrdersPerMin => InWindow' < MaxOrdersPerMin
    <2>1. PICK time \in Int, then \in Int :
             time = now - Window /\ then = now' - Window /\ time <= then
      BY <1>1
    <2> DEFINE Count(limit) == Cardinality({i \in DOMAIN orderTimes : orderTimes[i] > limit})
    <2>2. then <= then
      BY <2>1
    <2>3. Count(time) \in Nat /\ Count(then) <= Count(time)
      BY <1>1, <2>1, WindowCounts
    <2>4. Count(then) \in Nat
      BY <1>1, <2>2, WindowCounts
    <2>5. InWindow = Count(time) /\ InWindow' = Count(then)
      BY <1>1, <2>1 DEF InWindow, Recent
    <2> HIDE DEF Count
    <2> QED
      BY <2>3, <2>4, <2>5
  <1>6. now' >= Window /\ \A id \in 1..MaxEntries : counted'[id] <= now'
    BY <1>1 DEF ThrottleOK
  <1> QED
    BY <1>1, <1>3, <1>4, <1>5, <1>6 DEF ThrottleOK

\* A step that leaves the throttle alone can only make a call's entry one
\* that was validated now.
LEMMA ThrottleStays ==
    ASSUME ThrottleOK, UNCHANGED <<now, throttle>>,
           \A u \in Threads :
              /\ call'[u].at = "open" => InWindow < MaxOrdersPerMin
              /\ call'[u].kind = "entry" /\ call'[u].at = "sent" => call'[u] = call[u]
    PROVE  ThrottleOK'
  <1>1. UNCHANGED <<now, orderTimes, counted, entries>>
    BY DEF throttle
  <1>2. /\ LiveAt(counted, now)' = LiveAt(counted, now)
        /\ InWindow' = InWindow
        /\ ThrottleHolds' <=> ThrottleHolds
    BY <1>1 DEF LiveAt, InWindow, Recent, ThrottleHolds
  <1> QED
    BY <1>1, <1>2 DEF ThrottleOK

\* Every step keeps a stamp for every live entry, one each.
LEMMA ThrottleStep == IInv /\ FiguresOK /\ ThrottleOK /\ [Next]_vars => ThrottleOK'
  <1> SUFFICES ASSUME IInv, FiguresOK, ThrottleOK, [Next]_vars PROVE ThrottleOK'
    OBVIOUS
  <1> USE RiskManagerAssumption
  <1>1. Types /\ CallsOK
    BY DEF IInv
  <1>2. ASSUME NEW t \in Threads, NEW c, call' = [call EXCEPT ![t] = c],
               c.at = "open" => InWindow < MaxOrdersPerMin,
               c.kind = "entry" => c.at # "sent",
               UNCHANGED <<now, throttle>>
        PROVE  ThrottleOK'
    <2>1. call'[t] = c /\ \A u \in Threads : u # t => call'[u] = call[u]
      BY <1>1, <1>2 DEF Types
    <2>2. \A u \in Threads :
             /\ call'[u].at = "open" => InWindow < MaxOrdersPerMin
             /\ call'[u].kind = "entry" /\ call'[u].at = "sent" => call'[u] = call[u]
      BY <1>2, <2>1 DEF ThrottleOK
    <2> QED
      BY <1>2, <2>2, ThrottleStays
  <1>3. ASSUME NEW t \in Threads, NEW s, NEW p, NEW q, NEW side, NEW margin,
               ValidateOrder(t, s, p, q, side, margin)
        PROVE  ThrottleOK'
    <2> DEFINE c == [Idle EXCEPT !.at = "open", !.kind = "entry", !.sym = s, !.margin = margin,
                                 !.ask = [id |-> 0, price |-> p, qty |-> q, side |-> side]]
    <2>1. c.at = "open"
      BY DEF Idle
    <2>2. /\ call' = [call EXCEPT ![t] = c] /\ InWindow < MaxOrdersPerMin
          /\ UNCHANGED <<now, throttle>>
      BY <1>3 DEF ValidateOrder
    <2> HIDE DEF c
    <2> QED
      BY <1>2, <2>1, <2>2
  <1>4. ASSUME NEW t \in Threads, NEW s, BeginExit(t, s)
        PROVE  ThrottleOK'
    <2> DEFINE c == [Idle EXCEPT !.at = "sent", !.kind = "exit", !.sym = s]
    <2>1. c.kind = "exit" /\ c.at = "sent"
      BY DEF Idle
    <2>2. call' = [call EXCEPT ![t] = c] /\ UNCHANGED <<now, throttle>>
      BY <1>4 DEF BeginExit
    <2> HIDE DEF c
    <2> QED
      BY <1>2, <2>1, <2>2
  <1>5. ASSUME NEW t \in Threads, OrderFails(t) \/ SaveRiskSnapshot(t)
        PROVE  ThrottleOK'
    <2>1. call' = [call EXCEPT ![t] = Idle] /\ UNCHANGED <<now, throttle>>
      BY <1>5 DEF OrderFails, SaveRiskSnapshot, Return
    <2> QED
      BY <1>2, <2>1 DEF Idle
  <1>6. ASSUME NEW t \in Threads,
               \/ SaveRow(t) \/ (\E p \in Prices, q \in 1..call[t].ask.qty : UpdatePositionPrice(t, p, q))
               \/ ReadBalance(t) \/ ReadRealized(t) \/ ReadGross(t) \/ ReadFree(t)
        PROVE  ThrottleOK'
    <2>1. UNCHANGED <<now, throttle>>
      <3>1. CASE \E p \in Prices, q \in 1..call[t].ask.qty : UpdatePositionPrice(t, p, q)
        BY <3>1 DEF UpdatePositionPrice
      <3>2. CASE \/ SaveRow(t)
                 \/ ReadBalance(t) \/ ReadRealized(t) \/ ReadGross(t) \/ ReadFree(t)
        BY <3>2, CallsOnly
      <3> QED
        BY <1>6, <3>1, <3>2
    <2>2. call'[t].at \notin {"open", "sent"} /\ \A u \in Threads : u # t => call'[u] = call[u]
      <3>1. CASE \E p \in Prices, q \in 1..call[t].ask.qty : UpdatePositionPrice(t, p, q)
        BY <1>1, <3>1 DEF UpdatePositionPrice, Types, Call
      <3>2. CASE SaveRow(t)
        BY <1>1, <3>2 DEF SaveRow, Goto, Types, Call
      <3>3. CASE ReadBalance(t) \/ ReadRealized(t) \/ ReadGross(t) \/ ReadFree(t)
        BY <1>1, <3>3 DEF ReadBalance, ReadRealized, ReadGross, ReadFree, Read, Types, Call
      <3> QED
        BY <1>6, <3>1, <3>2, <3>3
    <2>3. \A u \in Threads :
             /\ call'[u].at = "open" => InWindow < MaxOrdersPerMin
             /\ call'[u].kind = "entry" /\ call'[u].at = "sent" => call'[u] = call[u]
      BY <2>2 DEF ThrottleOK
    <2> QED
      BY <2>1, <2>3, ThrottleStays
  \* The calls keep where they are, what they are marked with aside.
  <1>7. ASSUME UNCHANGED <<now, throttle>>,
               \A u \in Threads :
                  \/ call'[u] = call[u]
                  \/ call'[u].at \notin {"open", "sent"}
        PROVE  ThrottleOK'
    BY <1>7, ThrottleStays DEF ThrottleOK
  <1>8. ASSUME NEW t \in Threads, NEW p \in Prices, ClosePosition(t, p)
        PROVE  ThrottleOK'
    <2>1. UNCHANGED <<now, throttle>>
      BY <1>8 DEF ClosePosition
    <2>2. CASE MixSnapshots(t, "row")
      <3>1. call'[t].at = "row"
        BY <1>1, <2>2 DEF MixSnapshots, Types, Call
      <3>2. \A u \in Threads \ {t} :
               call'[u] = call[u] \/ (call[u].at \in Saving /\ call'[u] = Mixed(call[u]))
        BY <2>2 DEF MixSnapshots
      <3>3. \A u \in Threads : call[u].at \in Saving => Mixed(call[u]).at = call[u].at
        BY <1>1 DEF Mixed, Types, Call
      <3>4. \A u \in Threads : call'[u] = call[u] \/ call'[u].at \notin {"open", "sent"}
        BY <3>1, <3>2, <3>3 DEF Saving
      <3> QED
        BY <1>7, <2>1, <3>4
    <2>3. CASE Goto(t, "row")
      <3>1. call'[t].at = "row" /\ \A u \in Threads : u # t => call'[u] = call[u]
        BY <1>1, <2>3 DEF Goto, Types, Call
      <3> QED
        BY <1>7, <2>1, <3>1
    <2> QED
      BY <1>8, <2>2, <2>3 DEF ClosePosition
  <1>9. CASE RestoreAgain
    <2>1. UNCHANGED <<now, throttle>>
      BY <1>9 DEF RestoreAgain
    <2>2. \A u \in Threads :
             call'[u] = call[u] \/ (call[u].at \in Saving /\ call'[u] = Mixed(call[u]))
      BY <1>9 DEF RestoreAgain
    <2>3. \A u \in Threads : call[u].at \in Saving => Mixed(call[u]).at = call[u].at
      BY <1>1 DEF Mixed, Types, Call
    <2>4. \A u \in Threads : call'[u] = call[u] \/ call'[u].at \notin {"open", "sent"}
      BY <2>2, <2>3 DEF Saving
    <2> QED
      BY <1>7, <2>1, <2>4
  <1>10. CASE Crash
    <2>1. /\ UNCHANGED <<now, entries>> /\ orderTimes' = <<>>
          /\ counted' = [id \in 1..MaxEntries |-> 0]
          /\ \A u \in Threads : call'[u].at = "idle"
      BY <1>10 DEF Crash, Idle
    <2>2. now \in Nat /\ now >= Window
      BY DEF FiguresOK, ThrottleOK
    <2>3. LiveAt(counted, now)' = {}
      BY <2>1, <2>2 DEF LiveAt
    <2>4. \E f : Carries(f, LiveAt(counted, now)', counted', orderTimes')
      <3>1. orderTimes' \in Seq(Nat)
        BY <2>1
      <3> QED
        BY <2>3, <3>1, CarriesNothing
    <2>5. ThrottleHolds'
      <3>1. Cardinality(LiveAt(counted, now)') <= MaxOrdersPerMin
        BY <2>3, FS_EmptySet
      <3> QED
        BY <3>1 DEF ThrottleHolds, LiveAt
    <2>6. \A id \in 1..MaxEntries : counted'[id] <= now' /\ counted'[id] = 0
      BY <2>1, <2>2
    <2> QED
      BY <2>1, <2>2, <2>4, <2>5, <2>6 DEF ThrottleOK
  <1>11. CASE \/ \E s \in Symbols, p \in Prices : CheckStop(s, p)
              \/ TriggerKillSwitch \/ Start \/ UNCHANGED vars
    <2>1. UNCHANGED <<now, throttle, call>>
      BY <1>11 DEF CheckStop, TriggerKillSwitch, Start, vars
    <2> QED
      BY <1>7, <2>1
  <1>12. ASSUME NEW t \in Threads, Begin(t) PROVE ThrottleOK'
    BY <1>3, <1>4, <1>12 DEF Begin
  <1>13. ASSUME NEW t \in Threads, CallStep(t) PROVE ThrottleOK'
    BY <1>5, <1>6, <1>8, <1>13, ThrottleOpens, ThrottleRollsBack
    DEF CallStep, EntryStep, ExitStep, SaveStep
  <1> QED
    BY <1>9, <1>10, <1>11, <1>12, <1>13, ThrottleAges DEF Next

-----------------------------------------------------------------------------
(***************************************************************************)
(* The durable balances: between a close and its snapshot there is a call  *)
(* on its way to write one, unless the snapshot is known to be stale.      *)
(***************************************************************************)
Current ==
    IF snapshot.saved
    THEN <<snapshot.initial, snapshot.balance, snapshot.realized>> = money
    ELSE CurrentBalance = InitialBalance /\ RealizedPnL = 0

Writing(t) == call[t].at \in {"row", "balance"} \cup Saving

CurrentOK ==
    /\ ~up => CurrentBalance = InitialBalance /\ RealizedPnL = 0
    /\ up /\ ~stale => Current \/ \E t \in Threads : Writing(t)

\* A step that leaves the balances and the snapshot alone, and no call that
\* was on its way to write one off it.
LEMMA CurrentStays ==
    ASSUME CurrentOK, UNCHANGED <<up, money, snapshot, stale>>,
           \A t \in Threads : Writing(t) => Writing(t)'
    PROVE  CurrentOK'
  <1>1. Current' <=> Current
    BY DEF Current, money
  <1>2. (\E t \in Threads : Writing(t)) => \E t \in Threads : Writing(t)'
    OBVIOUS
  <1>3. ~up' => CurrentBalance' = InitialBalance' /\ RealizedPnL' = 0
    BY DEF CurrentOK, money
  <1>4. up' /\ ~stale' => Current' \/ \E t \in Threads : Writing(t)'
    BY <1>1, <1>2 DEF CurrentOK
  <1> QED
    BY <1>3, <1>4 DEF CurrentOK

\* A restore makes the balances those of the snapshot, or leaves both as they
\* are, or knows that it missed it.
LEMMA CurrentRestored ==
    ASSUME IInv, FiguresOK, RestoreState, UNCHANGED snapshot
    PROVE  \/ Current' /\ ~stale'
           \/ stale'
           \/ UNCHANGED <<money, stale>>
  <1>1. CASE RestoreSnapshot
    <2>1. CASE snapshot.saved
      <3>1. snapshot \in Snapshot /\ snapshot.initial > 0
        BY <2>1 DEF IInv, Types, MoneyOK, SnapshotOK
      <3>2. /\ CurrentBalance' = snapshot.balance /\ RealizedPnL' = snapshot.realized
            /\ InitialBalance' = snapshot.initial
        BY <1>1, <2>1, <3>1 DEF RestoreSnapshot
      <3>3. ~stale'
        BY <1>1, <2>1 DEF RestoreSnapshot
      <3> QED
        BY <2>1, <3>2, <3>3 DEF Current, money
    <2>2. CASE ~snapshot.saved
      BY <1>1, <2>2 DEF RestoreSnapshot, history
    <2> QED
      BY <2>1, <2>2
  <1>2. CASE UNCHANGED money /\ stale' = (stale \/ snapshot.saved)
    <2>1. stale \in BOOLEAN
      BY DEF FiguresOK
    <2>2. snapshot.saved \in BOOLEAN
      BY DEF IInv, Types, Snapshot
    <2> QED
      BY <1>2, <2>1, <2>2
  <1> QED
    BY <1>1, <1>2 DEF RestoreState

\* Every step keeps the snapshot up with the book, but for the calls that owe one.
LEMMA CurrentStep == IInv /\ FiguresOK /\ CurrentOK /\ [Next]_vars => CurrentOK'
  <1> SUFFICES ASSUME IInv, FiguresOK, CurrentOK, [Next]_vars PROVE CurrentOK'
    OBVIOUS
  <1>1. Types /\ CallsOK /\ MoneyOK
    BY DEF IInv
  \* A call takes a step that leads to a snapshot, or starts or ends before
  \* anything moved.
  <1>2. ASSUME NEW t \in Threads, Writing(t)' \/ ~Writing(t),
               \A u \in Threads : u # t => call'[u].at = call[u].at,
               UNCHANGED <<up, money, snapshot, stale>>
        PROVE  CurrentOK'
    BY <1>2, CurrentStays DEF Writing
  <1>3. ASSUME NEW t \in Threads, NEW p \in Prices, ClosePosition(t, p)
        PROVE  CurrentOK'
    <2>1. Writing(t)' /\ up' = up /\ up
      <3>1. call'[t].at = "row"
        BY <1>1, <1>3 DEF ClosePosition, MixSnapshots, Goto, Types, Call
      <3> QED
        BY <1>3, <3>1 DEF Writing, ClosePosition, At
    <2> QED
      BY <2>1 DEF CurrentOK
  <1>4. ASSUME NEW t \in Threads,
               \/ OpenPosition(t) \/ RollbackPosition(t) \/ OrderFails(t)
               \/ \E p \in Prices, q \in 1..call[t].ask.qty : UpdatePositionPrice(t, p, q)
        PROVE  CurrentOK'
    <2>1. CASE OpenPosition(t)
      <3>1. UNCHANGED <<up, money, snapshot, stale>> /\ call[t].at = "open"
        BY <2>1 DEF OpenPosition, At, durable, history
      <3>2. \A u \in Threads : u # t => call'[u] = call[u]
        BY <1>1, <2>1 DEF OpenPosition, Types
      <3> QED
        BY <1>2, <3>1, <3>2 DEF Writing, Saving
    <2>2. CASE RollbackPosition(t) \/ OrderFails(t)
      <3>1. UNCHANGED <<up, money, snapshot, stale>> /\ call[t].at = "sent"
        BY <2>2 DEF RollbackPosition, OrderFails, At, durable, history
      <3>2. \A u \in Threads : u # t => call'[u] = call[u]
        BY <1>1, <2>2 DEF RollbackPosition, OrderFails, Return, Types
      <3> QED
        BY <1>2, <3>1, <3>2 DEF Writing, Saving
    <2>3. ASSUME NEW p \in Prices, NEW q \in 1..call[t].ask.qty, UpdatePositionPrice(t, p, q)
          PROVE  CurrentOK'
      <3>1. UNCHANGED <<up, money, snapshot, stale>> /\ call[t].at = "sent"
        BY <2>3 DEF UpdatePositionPrice, At, durable, history
      <3>2. \A u \in Threads : u # t => call'[u] = call[u]
        BY <1>1, <2>3 DEF UpdatePositionPrice, Types
      <3> QED
        BY <1>2, <3>1, <3>2 DEF Writing, Saving
    <2> QED
      BY <1>4, <2>1, <2>2, <2>3
  <1>5. ASSUME NEW t \in Threads, Begin(t)
        PROVE  CurrentOK'
    <2>1. UNCHANGED <<up, money, snapshot, stale>>
      BY <1>5, CallsOnly DEF history
    <2>2. PICK c : call[t].at = "idle" /\ call' = [call EXCEPT ![t] = c]
      <3>1. ASSUME NEW s, BeginExit(t, s)
            PROVE  \E c : call[t].at = "idle" /\ call' = [call EXCEPT ![t] = c]
        BY <3>1 DEF BeginExit, Free
      <3>2. ASSUME NEW s, NEW p, NEW q, NEW side, NEW margin,
                   ValidateOrder(t, s, p, q, side, margin)
            PROVE  \E c : call[t].at = "idle" /\ call' = [call EXCEPT ![t] = c]
        BY <3>2 DEF ValidateOrder, Free
      <3> QED
        BY <1>5, <3>1, <3>2 DEF Begin
    <2>3. \A u \in Threads : u # t => call'[u] = call[u]
      BY <1>1, <2>2 DEF Types
    <2> QED
      BY <1>2, <2>1, <2>2, <2>3 DEF Writing, Saving
  <1>6. ASSUME NEW t \in Threads,
               SaveRow(t) \/ ReadBalance(t) \/ ReadRealized(t) \/ ReadGross(t) \/ ReadFree(t)
        PROVE  CurrentOK'
    <2>1. UNCHANGED <<up, money, snapshot, stale>>
      BY <1>6, CallsOnly DEF history
    <2>2. call'[t].at \in {"balance"} \cup Saving /\ \A u \in Threads : u # t => call'[u] = call[u]
      <3>1. CASE SaveRow(t)
        BY <1>1, <3>1 DEF SaveRow, Goto, Types, Call
      <3>2. CASE ReadBalance(t) \/ ReadRealized(t) \/ ReadGross(t) \/ ReadFree(t)
        BY <1>1, <3>2 DEF ReadBalance, ReadRealized, ReadGross, ReadFree, Read, Types, Call, Saving
      <3> QED
        BY <1>6, <3>1, <3>2
    <2> QED
      BY <1>2, <2>1, <2>2 DEF Writing
  <1>7. ASSUME NEW t \in Threads, SaveRiskSnapshot(t)
        PROVE  CurrentOK'
    <2>1. up' = up /\ up /\ UNCHANGED money /\ call[t].at = "write"
      BY <1>7 DEF SaveRiskSnapshot
    <2>2. call[t].seen \in Snapshot
      BY <1>1 DEF Types, Call
    <2>3. CASE stale'
      BY <2>1, <2>3 DEF CurrentOK
    <2>4. CASE ~stale'
      <3>1. /\ snapshot' = [call[t].seen EXCEPT !.saved = TRUE, !.initial = InitialBalance]
            /\ ~call[t].seen.mixed
        BY <1>7, <2>4 DEF SaveRiskSnapshot
      <3>2. call[t].seen.balance = CurrentBalance /\ call[t].seen.realized = RealizedPnL
        BY <1>1, <2>1, <3>1 DEF MoneyOK, SeenOK, Saving
      <3>3. /\ snapshot'.saved
            /\ snapshot'.initial = InitialBalance
            /\ snapshot'.balance = CurrentBalance /\ snapshot'.realized = RealizedPnL
        BY <2>2, <3>1, <3>2 DEF Snapshot
      <3>4. Current'
        BY <2>1, <3>3 DEF Current, money
      <3> QED
        BY <2>1, <3>4 DEF CurrentOK
    <2> QED
      BY <2>3, <2>4
  <1>8. CASE Crash
    BY <1>8 DEF Crash, CurrentOK
  <1>9. CASE Start
    <2>1. RestoreState /\ UNCHANGED <<snapshot, call>> /\ up' /\ ~up
      BY <1>9 DEF Start, durable
    <2>2. CASE UNCHANGED <<money, stale>>
      <3>1. CASE snapshot.saved
        <4>1. stale' \/ Current'
          BY <1>1, <2>1, <2>2, <3>1 DEF RestoreState, RestoreSnapshot, Current, money, MoneyOK,
             SnapshotOK
        <4> QED
          BY <2>1, <4>1 DEF CurrentOK
      <3>2. CASE ~snapshot.saved
        <4>1. Current'
          BY <2>1, <2>2, <3>2 DEF CurrentOK, Current, money
        <4> QED
          BY <2>1, <4>1 DEF CurrentOK
      <3> QED
        BY <3>1, <3>2
    <2> QED
      BY <2>1, <2>2, CurrentRestored DEF CurrentOK
  <1>10. CASE RestoreAgain
    <2>1. RestoreState /\ UNCHANGED <<snapshot, up>> /\ up
      BY <1>10 DEF RestoreAgain, durable
    <2>2. \A u \in Threads : call'[u].at = call[u].at
      BY <1>1, <1>10 DEF RestoreAgain, Mixed, Types, Call
    <2>3. CASE UNCHANGED <<money, stale>>
      BY <2>1, <2>2, <2>3, CurrentStays DEF Writing
    <2> QED
      BY <2>1, <2>3, CurrentRestored DEF CurrentOK
  <1>11. CASE \/ \E s \in Symbols, p \in Prices : CheckStop(s, p)
              \/ TriggerKillSwitch \/ Advance \/ UNCHANGED vars
    <2>1. UNCHANGED <<up, money, snapshot, stale, call>>
      BY <1>11 DEF CheckStop, TriggerKillSwitch, Advance, vars, durable, history
    <2> QED
      BY <2>1, CurrentStays DEF Writing
  <1>12. ASSUME NEW t \in Threads, CallStep(t) PROVE CurrentOK'
    BY <1>3, <1>4, <1>6, <1>7, <1>12 DEF CallStep, EntryStep, ExitStep, SaveStep
  <1> QED
    BY <1>5, <1>8, <1>9, <1>10, <1>11, <1>12 DEF Next
-----------------------------------------------------------------------------
(***************************************************************************)
(* Theorems.                                                               *)
(***************************************************************************)
\* The inductive invariant holds in every reachable state.
THEOREM Invariant == Spec => []IInv
  <1>1. IInv /\ [Next]_vars => IInv'
    BY TypeStep, CallsStep, BooksStep, StopsStep, KillStep, MoneyStep DEF IInv
  <1> QED
    BY InitIInv, <1>1, PTL DEF Spec

\* The current balance is the initial one plus the realized P&L, through any
\* number of fills, exits, crashes and restarts, unless a restart resumed from
\* figures that were read around a close.
THEOREM BalancesAgree == Spec => []BalanceIdentity
  <1>1. IInv => BalanceIdentity
    BY DEF IInv, MoneyOK
  <1> QED
    BY Invariant, <1>1, PTL

\* Every open position's stop is the tighter of what its own fill price and
\* its own best price ask for.
THEOREM StopsAreTheirOwn == Spec => []StopTracksPeak
  <1>1. IInv => StopTracksPeak
    BY DEF IInv, StopsOK, StopOK, StopTracksPeak
  <1> QED
    BY Invariant, <1>1, PTL

\* No step, a restore under a served API included, moves a position's stop
\* away from the market at the same entry price.
THEOREM StopsOnlyTighten == Spec => StopNeverLoosens
  <1>1. IInv /\ [Next]_vars =>
           [\A s \in Symbols :
              LET old == OpenPositions[s]
                  new == OpenPositions'[s]
              IN  old.id # 0 /\ new.id = old.id /\ new.price = old.price
                  => new.stop = Tighter(old.side, old.stop, new.stop)]_vars
    BY StopsStep DEF Kept
  <1> QED
    BY Invariant, <1>1, PTL DEF Spec, StopNeverLoosens

\* After the kill switch only the order the tick loop had already validated
\* still opens a position.
THEOREM KillStopsEntries == Spec => []EntriesStopAtKill
  <1>1. ASSUME IInv PROVE EntriesStopAtKill
    <2>1. late \in Nat /\ late <= 1 /\ (late = 1 => Enterers # {})
      BY <1>1 DEF IInv, Types, KillOK
    <2>2. CASE Enterers = {}
      BY <2>1, <2>2, FS_EmptySet DEF EntriesStopAtKill
    <2>3. CASE Enterers # {}
      <3>1. PICK t \in Enterers : Enterers = {t}
        BY <2>3, RiskManagerAssumption
      <3>2. Cardinality(Enterers) = 1
        BY <3>1, FS_Singleton
      <3> QED
        BY <2>1, <3>2 DEF EntriesStopAtKill
    <2> QED
      BY <2>2, <2>3
  <1> QED
    BY Invariant, <1>1, PTL


\* The rest of the figures keep their types.
LEMMA FiguresTyped == Spec => []FiguresOK
  BY Invariant, InitFigures, FiguresStep, PTL DEF Spec

\* Every variable keeps its type, the queue of timestamps and the figures of
\* the snapshot included, whatever crashes and restores.
THEOREM TypesHold == Spec => []TypeOK
  <1>1. IInv /\ FiguresOK => TypeOK
    BY DEF IInv, Types, FiguresOK, TypeOK
  <1> QED
    BY Invariant, FiguresTyped, <1>1, PTL

\* SessionBalanceUsed is what the open positions lock, and drift: after every
\* fill at another price, rollback, exit and restart, for any number of
\* contracts.
THEOREM CapitalIsAccounted == Spec => []CapitalAccounted
  <1>1. Init => CapitalOK
    <2>1. ASSUME Init PROVE SessionBalanceUsed = 0 /\ drift = 0 /\ Locked = 0
      BY <2>1, LocksNothing DEF Init, Locked
    <2> QED
      BY <2>1 DEF CapitalOK, CapitalAccounted
  <1>2. Spec => []CapitalOK
    BY Invariant, <1>1, CapitalStep, PTL DEF Spec
  <1>3. CapitalOK => CapitalAccounted
    BY DEF CapitalOK
  <1> QED
    BY <1>2, <1>3, PTL

\* With no call running and nothing known to have gone wrong, what a crash
\* would resume from has the balances of the running manager.
THEOREM SnapshotKeepsUp == Spec => []SnapshotCurrent
  <1>1. Init => CurrentOK
    BY DEF Init, CurrentOK, Current, NoSnapshot
  <1>2. Spec => []FiguresOK
    BY Invariant, InitFigures, FiguresStep, PTL DEF Spec
  <1>3. Spec => []CurrentOK
    BY Invariant, <1>1, <1>2, CurrentStep, PTL DEF Spec
  <1>4. CurrentOK => SnapshotCurrent
    BY DEF CurrentOK, Current, Writing, Saving, SnapshotCurrent, Resting
  <1> QED
    BY <1>3, <1>4, PTL

\* No window of a session holds more entries than the limit, for any limit,
\* any window and any number of entries, failures and prunings.
THEOREM ThrottleLimits == Spec => []ThrottleHolds
  <1>1. Spec => []ThrottleOK
    BY Invariant, FiguresTyped, InitThrottle, ThrottleStep, PTL DEF Spec
  <1>2. ThrottleOK => ThrottleHolds
    BY DEF ThrottleOK
  <1> QED
    BY <1>1, <1>2, PTL
=============================================================================
