----------------------------- MODULE PaperBroker -----------------------------
(***************************************************************************)
(* MockBroker, the paper account: orders that fill in whole or in part at  *)
(* a price worse than the market's, virtual cash, positions, and the       *)
(* margin a short derivative locks.  LivePaperBroker sends its orders here *)
(* at the live price and adds no state.                                    *)
(*                                                                         *)
(* PlaceOrder holds the account's lock from start to end, so an order is   *)
(* one step.  Money is in whole units, and an order that would bring an    *)
(* average price between two of them is left out (Exact).                  *)
(***************************************************************************)
EXTENDS Integers, FiniteSetsExt, Functions

CONSTANTS
    Papers,        \* symbols
    Derivatives,   \* the options and futures among them
    Capital,       \* initial virtual balance
    Prices,        \* market prices an order can meet
    HalfSpread,    \* how much worse a fill is
    Fee,           \* brokerageFee
    MarginTimes,   \* 1 + ShortMarginPct
    MaxHeld,       \* bound: quantity of an order and of a position
    MaxPaperOrders \* bound: orders

VARIABLES
    up,         \* MockBroker.connected
    balance,    \* virtualBalance
    held,       \* openPositions; quantity 0 stands for no entry
    reserved,   \* marginReserved by symbol
    counter,    \* orderCounter
    flow,       \* history: what all sales brought less what all purchases cost
    fees,       \* history: fees of all fills
    excused     \* history: symbols an order left out of step (see OutOfStep)

paperVars == <<up, balance, held, reserved, counter, flow, fees, excused>>

-----------------------------------------------------------------------------
Flat == [side |-> "none", qty |-> 0, avg |-> 0]
Short(s) == held[s].side = "SELL"
Long(s) == held[s].side = "BUY"

Init ==
    /\ up = FALSE
    /\ balance = Capital
    /\ held = [s \in Papers |-> Flat]
    /\ reserved = [s \in Papers |-> 0]
    /\ counter = 0
    /\ flow = 0
    /\ fees = 0
    /\ excused = {}

Connect ==
    /\ ~up
    /\ up' = TRUE
    /\ UNCHANGED <<balance, held, reserved, counter, flow, fees, excused>>

Close ==
    /\ up
    /\ up' = FALSE
    /\ UNCHANGED <<balance, held, reserved, counter, flow, fees, excused>>

-----------------------------------------------------------------------------
(***************************************************************************)
(* simulateFillPrice and settleCash: what a fill does to the cash and to   *)
(* the margin locked for the symbol.                                       *)
(***************************************************************************)
FillPrice(side, price) ==
    IF side = "BUY" THEN price + HalfSpread
    ELSE IF price > HalfSpread THEN price - HalfSpread ELSE 0

\* simulateFillQuantity: in whole, or in part and then at least one.
FillQuantities(requested) == 1..requested

\* Fault: the premium of a short is credited as free cash.
OpenShortCredits(s, fill, price) ==
    LET margin == price * fill * MarginTimes
    IN [cash |-> price * fill - margin - Fee, margin |-> reserved[s] + margin]

OpenShort(s, fill, price) ==
    LET margin == price * fill * MarginTimes
    IN [cash |-> - margin - Fee, margin |-> reserved[s] + margin]

\* What covering leaves over is bought.
CoverShort(s, fill, price) ==
    LET covered == Min({fill, held[s].qty})
        released == (reserved[s] * covered) \div held[s].qty
    IN [cash |-> released + (held[s].avg - price) * covered - Fee - price * (fill - covered),
        margin |-> reserved[s] - released]

PayInFull(s, side, fill, price) ==
    [cash |-> (IF side = "BUY" THEN - price * fill ELSE price * fill) - Fee,
     margin |-> reserved[s]]

SettleCash(s, side, fill, price) ==
    CASE s \in Derivatives /\ side = "SELL" /\ ~Long(s) -> OpenShort(s, fill, price)
      [] s \in Derivatives /\ side = "BUY" /\ Short(s) -> CoverShort(s, fill, price)
      [] OTHER -> PayInFull(s, side, fill, price)

\* updatePosition deletes a position that an order closes, or would turn.
UpdatePosition(s, side, fill, price) ==
    IF held[s] = Flat THEN [side |-> side, qty |-> fill, avg |-> price]
    ELSE IF held[s].side = side
        THEN LET qty == held[s].qty + fill
             IN [side |-> side, qty |-> qty,
                 avg |-> (held[s].avg * held[s].qty + price * fill) \div qty]
    ELSE IF held[s].qty > fill THEN [held[s] EXCEPT !.qty = @ - fill]
    ELSE Flat

\* Bound: the average price stays a whole number.
Exact(s, side, fill, price) ==
    held[s].side = side =>
        (held[s].avg * held[s].qty + price * fill) % (held[s].qty + fill) = 0

Opening(s, side) == held[s] = Flat \/ held[s].side = side

(***************************************************************************)
(* Two of a derivative's orders leave cash, margin and position out of     *)
(* step: a short refused for its margin keeps that margin locked, and an   *)
(* order beyond the position is paid for in full and deletes it.           *)
(***************************************************************************)
OutOfStep(s, side, fill, refused) ==
    /\ s \in Derivatives
    /\ IF Opening(s, side) THEN side = "SELL" /\ refused ELSE fill > held[s].qty

-----------------------------------------------------------------------------
(***************************************************************************)
(* PlaceOrder                                                              *)
(***************************************************************************)
Order(s, side, qty) ==
    /\ up
    /\ counter < MaxPaperOrders
    /\ held[s].side = side => held[s].qty + qty <= MaxHeld
    /\ counter' = counter + 1
    /\ \E market \in Prices, fill \in FillQuantities(qty) :
          LET price == FillPrice(side, market)
              settled == SettleCash(s, side, fill, price)
              refused == Opening(s, side) /\ settled.cash < 0 /\ - settled.cash > balance
              after == IF refused THEN held[s] ELSE UpdatePosition(s, side, fill, price)
          IN
          /\ Exact(s, side, fill, price)
          /\ held' = [held EXCEPT ![s] = after]
          /\ reserved' = [reserved EXCEPT ![s] =
                 IF after = Flat /\ ~refused THEN 0 ELSE settled.margin]
          /\ balance' = IF refused THEN balance ELSE balance + settled.cash
          /\ fees' = IF refused THEN fees ELSE fees + Fee
          /\ flow' = IF refused THEN flow
                     ELSE IF side = "BUY" THEN flow - price * fill ELSE flow + price * fill
          /\ excused' = IF OutOfStep(s, side, fill, refused) THEN excused \cup {s} ELSE excused
    /\ UNCHANGED up

Reject ==
    /\ up
    /\ counter < MaxPaperOrders
    /\ counter' = counter + 1
    /\ UNCHANGED <<up, balance, held, reserved, flow, fees, excused>>

Next ==
    \/ Connect \/ Close \/ Reject
    \/ \E s \in Papers, side \in {"BUY", "SELL"}, qty \in 1..MaxHeld : Order(s, side, qty)

Spec == Init /\ [][Next]_paperVars

-----------------------------------------------------------------------------
TypeOK ==
    /\ up \in BOOLEAN
    /\ balance \in Int
    /\ held \in [Papers -> [side : {"none", "BUY", "SELL"}, qty : 0..MaxHeld, avg : Nat]]
    /\ reserved \in [Papers -> Int]
    /\ counter \in 0..MaxPaperOrders
    /\ flow \in Int
    /\ fees \in Nat
    /\ excused \subseteq Papers

Total(f) == SumFunctionOnSet(f, Papers)

\* What the open shorts brought, which is not the account's yet.
Premium == [s \in Papers |->
    IF s \in Derivatives /\ Short(s) THEN held[s].avg * held[s].qty ELSE 0]

(***************************************************************************)
(* No order prints or burns money: free cash and locked margin are the     *)
(* capital with every sale, purchase and fee of the past and without the   *)
(* premium of the shorts still open, and the margin locked for a symbol is *)
(* that of the short it holds now, through partial fills, additions at     *)
(* other prices and partial covers, but for the two orders of OutOfStep.   *)
(***************************************************************************)
MoneyAccounted ==
    /\ excused = {} => balance + Total(reserved) = Capital + flow - fees - Total(Premium)
    /\ \A s \in Papers \ excused : reserved[s] = Premium[s] * MarginTimes
=============================================================================
