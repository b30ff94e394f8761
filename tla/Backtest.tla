------------------------------ MODULE Backtest ------------------------------
(***************************************************************************)
(* The backtest: a strategy is evaluated on one candle after the other,    *)
(* what it signals is filled at the open of the next, the equity is marked *)
(* at each close, and what is still open at the end is closed at the last  *)
(* close.  The strategy and what the market makes of a structure's premium *)
(* are the environment's choice: pricing is no part of this module.        *)
(***************************************************************************)
EXTENDS Integers, Sequences, Functions

CONSTANTS
    Candles,     \* index of the last candle
    MinHistory,  \* Config.MinHistory
    Expiry,      \* candles until a synthetic expiry
    Premiums,    \* what a structure can be worth
    Slip,        \* fillSlippage
    Charge       \* charges and spread of one side of a fill

VARIABLES
    candle,      \* index of the candle being evaluated
    position,    \* openPosition, or Flat
    trades,      \* completed trades
    realized,
    peakEquity,
    maxDD,
    verdict      \* "running", "report" or "refused"

backtestVars == <<candle, position, trades, realized, peakEquity, maxDD, verdict>>

-----------------------------------------------------------------------------
Flat == [kind |-> "none", side |-> "none", opened |-> 0, entry |-> 0]
Kinds == {"directional", "multi-leg"}
Position == {Flat} \cup
    [kind : Kinds, side : {"BUY", "SELL"}, opened : 1..Candles, entry : Int]

\* A multi-leg structure is bought or sold as a whole; a directional position
\* is a call or a put, bought.
Bought(pos) == pos.kind = "directional" \/ pos.side = "BUY"
Worse(price, buying) ==
    IF buying THEN price + Slip ELSE IF price > Slip THEN price - Slip ELSE 0

Init ==
    /\ candle = MinHistory
    /\ position = Flat
    /\ trades = <<>>
    /\ realized = 0
    /\ peakEquity = 0
    /\ maxDD = 0
    /\ verdict = "running"

Gain(pos, price) == IF Bought(pos) THEN price - pos.entry ELSE pos.entry - price

\* The premium is that of all legs, and their slippage is one.  No strategy names
\* an expiry, so they have the same.
Open(kind, side, premium) ==
    LET pos == [kind |-> kind, side |-> side, opened |-> candle + 1, entry |-> 0]
    IN [pos EXCEPT !.entry = Worse(premium, Bought(pos))]

Close(pos, at, premium, forced) ==
    [opened |-> pos.opened, closed |-> at, forced |-> forced,
     net |-> Gain(pos, Worse(premium, ~Bought(pos))) - 2 * Charge]

\* The peak and the drawdown as the loop updates them.
Mark(equity) ==
    /\ peakEquity' = IF equity > peakEquity THEN equity ELSE peakEquity
    /\ maxDD' = IF peakEquity' - equity > maxDD THEN peakEquity' - equity ELSE maxDD

Finish(trade) ==
    /\ trades' = Append(trades, trade)
    /\ realized' = realized + trade.net
    /\ position' = Flat

Keep == UNCHANGED <<position, trades, realized>>

-----------------------------------------------------------------------------
(***************************************************************************)
(* One round of the loop of Run: mark, evaluate, fill at the next open.    *)
(***************************************************************************)
Expired == position # Flat /\ candle >= position.opened + Expiry

Fill(premium) ==
    \* Hold, or a signal that changes nothing.
    \/ Keep
    \* Legs, or a direction, while flat.
    \/ /\ position = Flat
       /\ \E kind \in Kinds, side \in {"BUY", "SELL"} : position' = Open(kind, side, premium)
       /\ UNCHANGED <<trades, realized>>
    \* Exit, or the opposite direction of a directional position.
    \/ /\ position # Flat
       /\ Finish(Close(position, candle + 1, premium, FALSE))

Evaluate ==
    /\ verdict = "running"
    /\ candle < Candles
    /\ \E premium \in Premiums :
          Mark(realized + IF position = Flat THEN 0 ELSE Gain(position, premium))
    /\ IF Expired
           THEN verdict' = "refused" /\ Keep /\ UNCHANGED candle
           ELSE /\ \E premium \in Premiums : Fill(premium)
                /\ candle' = candle + 1
                /\ UNCHANGED verdict

\* Fault: the forced close is not marked.
ForceCloseUnmarked ==
    /\ verdict = "running"
    /\ candle = Candles
    /\ IF position = Flat
           THEN Keep /\ UNCHANGED <<peakEquity, maxDD>>
           ELSE \E premium \in Premiums :
                    /\ Finish(Close(position, Candles, premium, TRUE))
                    /\ UNCHANGED <<peakEquity, maxDD>>
    /\ verdict' = "report"
    /\ UNCHANGED candle

ForceClose ==
    /\ verdict = "running"
    /\ candle = Candles
    /\ IF position = Flat
           THEN Keep /\ UNCHANGED <<peakEquity, maxDD>>
           ELSE \E premium \in Premiums :
                    LET trade == Close(position, Candles, premium, TRUE) IN
                    Finish(trade) /\ Mark(realized + trade.net)
    /\ verdict' = "report"
    /\ UNCHANGED candle

Next == Evaluate \/ ForceClose

Spec == Init /\ [][Next]_backtestVars /\ WF_backtestVars(Next)

-----------------------------------------------------------------------------
TypeOK ==
    /\ candle \in MinHistory..Candles
    /\ position \in Position
    /\ trades \in Seq([opened : 1..Candles, closed : 1..Candles, forced : BOOLEAN, net : Int])
    /\ realized \in Int
    /\ peakEquity \in Int
    /\ maxDD \in Int
    /\ verdict \in {"running", "report", "refused"}

Net == [i \in 1..Len(trades) |-> trades[i].net]
Total(n) == SumFunctionOnSet(Net, 1..n)

(***************************************************************************)
(* The drawdown of the report hides no loss of the account: it is at least *)
(* every fall of the realized P&L from one trade to a later one, but for a *)
(* trade that a signal closed at the open of the very last candle, after   *)
(* which the loop marks no more.                                           *)
(***************************************************************************)
Marked(trade) == trade.closed < Candles \/ trade.forced

DrawdownCovers ==
    verdict = "report" =>
        \A j \in 1..Len(trades) : Marked(trades[j]) =>
            \A i \in 0..j : Total(i) - Total(j) <= maxDD
=============================================================================
