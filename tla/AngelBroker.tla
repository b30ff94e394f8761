----------------------------- MODULE AngelBroker -----------------------------
(***************************************************************************)
(* The orders of AngelBroker: submission and polling by any number of      *)
(* goroutines, the circuit breaker they share, resting stop orders, their  *)
(* cancellation, the cached position book, and a restart that fetches it.  *)
(*                                                                         *)
(* One contract: the book is a map by symbol and every order touches its   *)
(* own symbol only.  A request to Angel One behaves as ApiCall has it: it  *)
(* takes effect at most once, and only an answer says whether it did.      *)
(***************************************************************************)
EXTENDS Integers, FiniteSets, Functions

CONSTANTS
    Clients,      \* goroutines that call the broker
    MaxLots,      \* the largest order
    Polls,        \* fillPollAttempts
    TripAt,       \* consecutive failures that open the breaker
    MaxOrders,    \* bound: orders that reach Angel One
    MaxMishaps,   \* bound: requests that fail and answers that are lost
    MaxRestarts   \* bound: restarts

VARIABLES
    connected,            \* AngelBroker fields of the same names
    positions,
    orderVariety,
    consecutiveFailures,  \* up to TripAt
    circuitOpen,          \* now is before circuitOpenUntil
    call,                 \* each goroutine's call in progress
    orders,               \* Angel One: the order book
    counted,              \* history: how much of each order positions has
    fate,                 \* history: what each order's call answered
    unheard,              \* history: orders whose submission got no answer
    leaked,               \* history: entries submitted since the breaker opened
    mishaps, brokerRestarts  \* spent bounds

brokerVars == <<connected, positions, orderVariety, consecutiveFailures, circuitOpen, call,
                orders, counted, fate, unheard, leaked, mishaps, brokerRestarts>>
breaker == <<consecutiveFailures, circuitOpen, leaked>>
book == <<positions, counted>>
client == <<connected, orderVariety>>

-----------------------------------------------------------------------------
(***************************************************************************)
(* Values.                                                                 *)
(***************************************************************************)
Ids == 1..MaxOrders
Lots == 1..MaxLots
Sides == {"BUY", "SELL"}
Final == {"complete", "rejected", "cancelled"}
Statuses == Final \cup {"none", "open"}

\* Quantity 0 is no position.
Position == [side : Sides, qty : 0..(MaxLots * MaxOrders)]
Flat == [side |-> "BUY", qty |-> 0]

Order == [status : Statuses, side : Sides, qty : 0..MaxLots, filled : 0..MaxLots,
          variety : {"NORMAL", "STOPLOSS"}]
NoOrder == [status |-> "none", side |-> "BUY", qty |-> 0, filled |-> 0, variety |-> "NORMAL"]

\* id is 0 until Angel One has the order; seen is the final row a poll has
\* reported, with a price or not.
Report == [status : Final \cup {"none"}, filled : 0..MaxLots, priced : BOOLEAN]
Call == [at : {"idle", "checked", "submit", "poll", "settle"}, kind : {"market", "stop"},
         id : 0..MaxOrders, polls : 0..Polls, seen : Report]

NoReport == [status |-> "none", filled |-> 0, priced |-> FALSE]
Idle == [at |-> "idle", kind |-> "market", id |-> 0, polls |-> 0, seen |-> NoReport]

Signed(side, n) == IF side = "BUY" THEN n ELSE -n
Value(position) == Signed(position.side, position.qty)
AsPosition(n) == IF n >= 0 THEN [side |-> "BUY", qty |-> n] ELSE [side |-> "SELL", qty |-> -n]

Total(f) == FoldFunction(+, 0, f)
Net == Total([id \in Ids |-> Signed(orders[id].side, orders[id].filled)])

Init ==
    /\ connected = TRUE
    /\ positions = Flat
    /\ orderVariety = [id \in Ids |-> ""]
    /\ consecutiveFailures = 0
    /\ circuitOpen = FALSE
    /\ call = [c \in Clients |-> Idle]
    /\ orders = [id \in Ids |-> NoOrder]
    /\ counted = [id \in Ids |-> 0]
    /\ fate = [id \in Ids |-> "none"]
    /\ unheard = {}
    /\ leaked = 0
    /\ mishaps = 0
    /\ brokerRestarts = 0

Mishap == mishaps < MaxMishaps /\ mishaps' = mishaps + 1

Set(c, record) == call' = [call EXCEPT ![c] = record]
Done(c) == Set(c, Idle)

-----------------------------------------------------------------------------
(***************************************************************************)
(* The breaker.                                                            *)
(***************************************************************************)
RecordOrderFailure ==
    /\ consecutiveFailures' = IF consecutiveFailures < TripAt THEN consecutiveFailures + 1
                              ELSE TripAt
    /\ circuitOpen' = (circuitOpen \/ consecutiveFailures' = TripAt)
    /\ leaked' = IF circuitOpen' /\ ~circuitOpen THEN 0 ELSE leaked

\* The counter is reset, an open pause is not.
RecordOrderSuccess ==
    /\ consecutiveFailures' = 0
    /\ UNCHANGED <<circuitOpen, leaked>>

\* Thirty seconds have passed.
PauseEnds ==
    /\ circuitOpen
    /\ circuitOpen' = FALSE
    /\ UNCHANGED <<client, book, consecutiveFailures, leaked, call, orders, fate, unheard,
                   mishaps, brokerRestarts>>

-----------------------------------------------------------------------------
(***************************************************************************)
(* PlaceOrder and PlaceStopLossOrder, up to the submission's answer.       *)
(***************************************************************************)
\* Fault: the breaker is not looked at.
CheckOrderUngated(c) ==
    /\ call[c].at = "idle"
    /\ connected
    /\ Set(c, [Idle EXCEPT !.at = "checked"])
    /\ UNCHANGED <<client, book, breaker, orders, fate, unheard, mishaps, brokerRestarts>>

\* An entry; a refusal (disconnected, ErrCircuitOpen) changes nothing.
CheckOrder(c) ==
    /\ call[c].at = "idle"
    /\ connected
    /\ ~circuitOpen
    /\ Set(c, [Idle EXCEPT !.at = "checked"])
    /\ UNCHANGED <<client, book, breaker, orders, fate, unheard, mishaps, brokerRestarts>>

Submit(c) ==
    /\ call[c].at = "checked"
    /\ Set(c, [Idle EXCEPT !.at = "submit"])
    /\ leaked' = IF circuitOpen THEN leaked + 1 ELSE leaked
    /\ UNCHANGED <<client, book, consecutiveFailures, circuitOpen, orders, fate, unheard,
                   mishaps, brokerRestarts>>

\* A reduce-only order, or a stop order, passes the breaker.
SubmitUngated(c) ==
    /\ call[c].at = "idle"
    /\ connected
    /\ \E kind \in {"market", "stop"} : Set(c, [Idle EXCEPT !.at = "submit", !.kind = kind])
    /\ UNCHANGED <<client, book, breaker, orders, fate, unheard, mishaps, brokerRestarts>>

\* Angel One takes the order.
Arrive(c) ==
    /\ call[c].at = "submit"
    /\ call[c].id = 0
    /\ \E id \in Ids, side \in Sides, qty \in Lots :
          /\ orders[id].status = "none"
          /\ \A older \in 1..(id - 1) : orders[older].status # "none"
          /\ orders' = [orders EXCEPT ![id] =
                 [status |-> "open", side |-> side, qty |-> qty, filled |-> 0,
                  variety |-> IF call[c].kind = "stop" THEN "STOPLOSS" ELSE "NORMAL"]]
          /\ call' = [call EXCEPT ![c].id = id]
          /\ fate' = [fate EXCEPT ![id] = "pending"]
    /\ UNCHANGED <<client, book, breaker, unheard, mishaps, brokerRestarts>>

Accepted(c) ==
    /\ call[c].at = "submit"
    /\ call[c].id # 0
    /\ orderVariety' = [orderVariety EXCEPT ![call[c].id] = orders[call[c].id].variety]
    /\ \/ /\ call[c].kind = "stop"
          /\ Done(c)
          /\ fate' = [fate EXCEPT ![call[c].id] = "resting"]
          /\ UNCHANGED breaker
       \/ /\ call[c].kind # "stop"
          /\ Set(c, [call[c] EXCEPT !.at = "poll", !.polls = Polls])
          /\ RecordOrderSuccess
          /\ UNCHANGED fate
    /\ UNCHANGED <<connected, book, orders, unheard, mishaps, brokerRestarts>>

\* Refused, or not answered: the request, or the answer, is lost.  Only
\* PlaceOrder counts it as a failure.
NotAccepted(c) ==
    /\ call[c].at = "submit"
    /\ Mishap
    /\ Done(c)
    /\ IF call[c].id # 0
       THEN /\ fate' = [fate EXCEPT ![call[c].id] = "failed"]
            /\ unheard' = unheard \cup {call[c].id}
       ELSE UNCHANGED <<fate, unheard>>
    /\ IF call[c].kind = "stop" THEN UNCHANGED breaker ELSE RecordOrderFailure
    /\ UNCHANGED <<client, book, orders, brokerRestarts>>

-----------------------------------------------------------------------------
(***************************************************************************)
(* pollOrderFill, and what PlaceOrder makes of its result.                 *)
(***************************************************************************)
\* The order's row at Angel One; its price may be missing.
Poll(c) ==
    /\ call[c].at = "poll"
    /\ call[c].polls > 0
    /\ \E priced \in BOOLEAN :
          LET order == orders[call[c].id] IN
          \/ /\ order.status \in Final
             /\ IF priced THEN UNCHANGED mishaps ELSE Mishap
             /\ Set(c, [call[c] EXCEPT !.at = "settle", !.polls = 0,
                    !.seen = [status |-> order.status, filled |-> order.filled,
                              priced |-> priced]])
          \/ /\ order.status \notin Final
             /\ priced
             /\ Set(c, [call[c] EXCEPT !.polls = @ - 1])
             /\ UNCHANGED mishaps
    /\ UNCHANGED <<client, book, breaker, orders, fate, unheard, brokerRestarts>>

PollFails(c) ==
    /\ call[c].at = "poll"
    /\ call[c].polls > 0
    /\ Mishap
    /\ Set(c, [call[c] EXCEPT !.polls = @ - 1])
    /\ UNCHANGED <<client, book, breaker, orders, fate, unheard, brokerRestarts>>

BudgetSpent(c) ==
    /\ call[c].at = "poll"
    /\ call[c].polls = 0
    /\ Set(c, [call[c] EXCEPT !.at = "settle"])
    /\ UNCHANGED <<client, book, breaker, orders, fate, unheard, mishaps, brokerRestarts>>

\* Fault: a fill larger than the opposite position just deletes it.
UpdatePositionDeletes(position, qty, side) ==
    CASE position.qty = 0 -> [side |-> side, qty |-> qty]
      [] position.qty > 0 /\ side = position.side -> [position EXCEPT !.qty = @ + qty]
      [] position.qty > qty /\ side # position.side -> [position EXCEPT !.qty = @ - qty]
      [] OTHER -> Flat

\* updatePosition: a larger fill of the opposite side flips the position.
UpdatePosition(position, qty, side) ==
    CASE position.qty = 0 -> [side |-> side, qty |-> qty]
      [] position.qty > 0 /\ side = position.side -> [position EXCEPT !.qty = @ + qty]
      [] position.qty > qty /\ side # position.side -> [position EXCEPT !.qty = @ - qty]
      [] position.qty > 0 /\ position.qty = qty /\ side # position.side -> Flat
      [] OTHER -> [side |-> side, qty |-> qty - position.qty]

Unfilled(seen) == seen.status = "rejected" \/ (seen.status = "cancelled" /\ seen.filled = 0)
Usable(seen) == seen.status \in Final /\ seen.filled > 0 /\ seen.priced

Filled(c) ==
    /\ call[c].at = "settle"
    /\ ~Unfilled(call[c].seen)
    /\ Usable(call[c].seen)
    /\ positions' = UpdatePosition(positions, call[c].seen.filled, orders[call[c].id].side)
    /\ counted' = [counted EXCEPT ![call[c].id] = call[c].seen.filled]
    /\ fate' = [fate EXCEPT ![call[c].id] = "filled"]
    /\ Done(c)
    /\ UNCHANGED <<client, breaker, orders, unheard, mishaps, brokerRestarts>>

NotFilled(c) ==
    /\ call[c].at = "settle"
    /\ Unfilled(call[c].seen)
    /\ fate' = [fate EXCEPT ![call[c].id] = "failed"]
    /\ Done(c)
    /\ UNCHANGED <<client, book, breaker, orders, unheard, mishaps, brokerRestarts>>

\* Fault: an order that is still open after the last poll has failed.
IndeterminateFails(c) ==
    /\ call[c].at = "settle"
    /\ ~Unfilled(call[c].seen)
    /\ ~Usable(call[c].seen)
    /\ fate' = [fate EXCEPT ![call[c].id] = "failed"]
    /\ Done(c)
    /\ UNCHANGED <<client, book, breaker, orders, unheard, mishaps, brokerRestarts>>

\* IndeterminateOrderError.
Indeterminate(c) ==
    /\ call[c].at = "settle"
    /\ ~Unfilled(call[c].seen)
    /\ ~Usable(call[c].seen)
    /\ fate' = [fate EXCEPT ![call[c].id] = "unknown"]
    /\ Done(c)
    /\ UNCHANGED <<client, book, breaker, orders, unheard, mishaps, brokerRestarts>>

-----------------------------------------------------------------------------
(***************************************************************************)
(* CancelOrder: the variety it remembers, NORMAL if it has none.  Angel    *)
(* One finds the order under its variety only.  The cancellation can be    *)
(* lost, and says nothing of the order either way.                         *)
(***************************************************************************)
CancelOrder(c, id) ==
    /\ call[c].at = "idle"
    /\ orders[id].status = "open"
    /\ fate[id] = "resting"
    /\ orders[id].variety = IF orderVariety[id] = "" THEN "NORMAL" ELSE orderVariety[id]
    /\ orders' = [orders EXCEPT ![id].status = "cancelled"]
    /\ UNCHANGED <<client, book, breaker, call, fate, unheard, mishaps, brokerRestarts>>

Close ==
    /\ connected
    /\ connected' = FALSE
    /\ UNCHANGED <<orderVariety, book, breaker, call, orders, fate, unheard, mishaps, brokerRestarts>>

(***************************************************************************)
(* The process ends at any point, and NewAngelBroker and Connect start     *)
(* over: fetchRemotePositions takes the net position over, and when it     *)
(* fails Connect goes on with an empty book.                               *)
(***************************************************************************)
Restart ==
    /\ brokerRestarts < MaxRestarts
    /\ brokerRestarts' = brokerRestarts + 1
    /\ connected' = TRUE
    /\ orderVariety' = [id \in Ids |-> ""]
    /\ consecutiveFailures' = 0
    /\ circuitOpen' = FALSE
    /\ leaked' = 0
    /\ call' = [c \in Clients |-> Idle]
    /\ \/ /\ positions' = AsPosition(Net)
          /\ counted' = [id \in Ids |-> orders[id].filled]
          /\ fate' = [id \in Ids |-> IF orders[id].status \in Final THEN "fetched"
                                     ELSE IF orders[id].status = "open" THEN "crashed" ELSE "none"]
          /\ UNCHANGED mishaps
       \/ /\ Mishap
          /\ positions' = Flat
          /\ counted' = [id \in Ids |-> 0]
          /\ fate' = [id \in Ids |-> IF orders[id].status = "none" THEN "none" ELSE "forgotten"]
    /\ unheard' = {}
    /\ UNCHANGED orders

-----------------------------------------------------------------------------
(***************************************************************************)
(* Angel One: an open order fills in part or in full, a stop order when it *)
(* triggers; it is rejected before any fill, or cancelled.                 *)
(***************************************************************************)
Fill(id) ==
    /\ orders[id].status = "open"
    /\ \E n \in 1..(orders[id].qty - orders[id].filled) :
          orders' = [orders EXCEPT
              ![id].filled = @ + n,
              ![id].status = IF orders[id].filled + n = orders[id].qty THEN "complete" ELSE "open"]
    /\ UNCHANGED <<client, book, breaker, call, fate, unheard, mishaps, brokerRestarts>>

End(id) ==
    /\ orders[id].status = "open"
    /\ \/ orders[id].filled = 0 /\ orders' = [orders EXCEPT ![id].status = "rejected"]
       \/ orders' = [orders EXCEPT ![id].status = "cancelled"]
    /\ UNCHANGED <<client, book, breaker, call, fate, unheard, mishaps, brokerRestarts>>

-----------------------------------------------------------------------------
Step(c) ==
    \/ CheckOrder(c) \/ Submit(c) \/ SubmitUngated(c) \/ Arrive(c) \/ Accepted(c) \/ NotAccepted(c)
    \/ Poll(c) \/ PollFails(c) \/ BudgetSpent(c)
    \/ Filled(c) \/ NotFilled(c) \/ Indeterminate(c)
    \/ \E id \in Ids : CancelOrder(c, id)

Next ==
    \/ \E c \in Clients : Step(c)
    \/ \E id \in Ids : Fill(id) \/ End(id)
    \/ PauseEnds \/ Close \/ Restart

Spec == Init /\ [][Next]_brokerVars

-----------------------------------------------------------------------------
TypeOK ==
    /\ connected \in BOOLEAN
    /\ positions \in Position
    /\ orderVariety \in [Ids -> {"", "NORMAL", "STOPLOSS"}]
    /\ consecutiveFailures \in 0..TripAt
    /\ circuitOpen \in BOOLEAN
    /\ call \in [Clients -> Call]
    /\ orders \in [Ids -> Order]
    /\ counted \in [Ids -> 0..MaxLots]
    /\ fate \in [Ids -> {"none", "pending", "filled", "failed", "unknown", "resting",
                         "fetched", "crashed", "forgotten"}]
    /\ unheard \subseteq Ids
    /\ leaked \in Nat
    /\ mishaps \in 0..MaxMishaps
    /\ brokerRestarts \in 0..MaxRestarts

(***************************************************************************)
(* The cached book is what the fills it heard of add up to, through every  *)
(* order of fills, flips and restarts; and a fill it does not have belongs *)
(* to an order still being placed, to one whose submission was not         *)
(* answered or whose outcome was reported indeterminate, to a stop order,  *)
(* or to what a restart did not find out.                                  *)
(***************************************************************************)
BookExplained ==
    /\ Value(positions) = Total([id \in Ids |-> Signed(orders[id].side, counted[id])])
    /\ \A id \in Ids : orders[id].filled # counted[id] =>
           \/ fate[id] \in {"pending", "unknown", "resting", "crashed", "forgotten"}
           \/ id \in unheard

(***************************************************************************)
(* The answers can be relied on: a fill was reported with the quantity the *)
(* order ended with, and a definite failure filled nothing and never will, *)
(* except when the submission was not answered.                            *)
(***************************************************************************)
AnswersHold ==
    \A id \in Ids \ unheard :
        /\ fate[id] = "failed" => orders[id].status \in Final /\ orders[id].filled = 0
        /\ fate[id] = "filled" => orders[id].status \in Final /\ orders[id].filled = counted[id]

(***************************************************************************)
(* The pause keeps entries out: of those submitted while the breaker is    *)
(* open, all were past the check when it opened, one to a goroutine at     *)
(* most, whatever fails or succeeds in between.                            *)
(***************************************************************************)
PauseHolds == circuitOpen => leaked < Cardinality(Clients)
=============================================================================
