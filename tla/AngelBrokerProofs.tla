------------------------- MODULE AngelBrokerProofs -------------------------
(***************************************************************************)
(* Proofs about AngelBroker, for any number of goroutines, orders, polls   *)
(* and failures.                                                           *)
(*                                                                         *)
(* AnswersHold rests on every call having an order of its own, and on the  *)
(* row a poll has reported being the one the order ends with.  PauseHolds  *)
(* counts the entries past the breaker's check with those submitted.  The  *)
(* book is a sum over the orders, which is also what bounds it.            *)
(***************************************************************************)
EXTENDS Services, Sums

Fates == {"none", "pending", "filled", "failed", "unknown", "resting",
          "fetched", "crashed", "forgotten"}

\* What the proofs need of TypeOK.
BrokerTypes ==
    /\ circuitOpen \in BOOLEAN
    /\ leaked \in Nat
    /\ call \in [Clients -> Broker!Call]
    /\ orders \in [Broker!Ids -> Broker!Order]
    /\ counted \in [Broker!Ids -> 0..MaxLots]
    /\ fate \in [Broker!Ids -> Fates]
    /\ unheard \subseteq Broker!Ids

\* A call before its submission has no order, a polling one has, and the
\* order's outcome is still to be answered.
CallOK(c) ==
    /\ call[c].at \in {"idle", "checked"} => call[c].id = 0
    /\ call[c].at \in {"poll", "settle"} => call[c].id # 0
    /\ call[c].id # 0 => fate[call[c].id] = "pending"

\* A final row is the order's last.
SeenOK(c) ==
    call[c].seen.status \in Broker!Final =>
        /\ call[c].id # 0
        /\ orders[call[c].id].status = call[c].seen.status
        /\ orders[call[c].id].filled = call[c].seen.filled

OwnOrders ==
    \A c, d \in Clients : call[c].id # 0 /\ call[c].id = call[d].id => c = d

OrderOK(id) ==
    /\ orders[id].status = "none" <=> fate[id] = "none"
    /\ orders[id].status = "rejected" => orders[id].filled = 0

AnswerOK(id) ==
    /\ fate[id] = "failed" => orders[id].status \in Broker!Final /\ orders[id].filled = 0
    /\ fate[id] = "filled" => orders[id].status \in Broker!Final /\ orders[id].filled = counted[id]

CallsOK == (\A c \in Clients : CallOK(c) /\ SeenOK(c)) /\ OwnOrders
OrdersOK == (\A id \in Broker!Ids : OrderOK(id)) /\ \A id \in Broker!Ids \ unheard : AnswerOK(id)

Checked == {c \in Clients : call[c].at = "checked"}

PauseOK == circuitOpen => leaked + Cardinality(Checked) < Cardinality(Clients)

BrokerIInv == BrokerTypes /\ CallsOK /\ OrdersOK /\ PauseOK

-----------------------------------------------------------------------------
\* The instance counts as the library does.
LEMMA SameCardinality == ASSUME NEW S PROVE Broker!Cardinality(S) = Cardinality(S)
  BY DEF Broker!Cardinality, Cardinality

\* updatePosition adds a fill to the net position, flips included.
THEOREM FlipsAdd ==
    ASSUME NEW book \in [side : Broker!Sides, qty : Nat], NEW n \in Nat,
           NEW side \in Broker!Sides
    PROVE  Broker!Value(Broker!UpdatePosition(book, n, side))
               = Broker!Value(book) + Broker!Signed(side, n)
  <1> DEFINE new == Broker!UpdatePosition(book, n, side)
  <1>1. book.qty \in Nat /\ book.side \in Broker!Sides
    OBVIOUS
  <1>2. CASE book.qty = 0
    <2>1. new = [side |-> side, qty |-> n]
      BY <1>2 DEF Broker!UpdatePosition
    <2> QED
      BY <1>1, <1>2, <2>1 DEF Broker!Value, Broker!Signed, Broker!Sides
  <1>3. CASE book.qty > 0 /\ side = book.side
    <2>1. new = [book EXCEPT !.qty = @ + n]
      BY <1>1, <1>3 DEF Broker!UpdatePosition
    <2>2. new.side = side /\ new.qty = book.qty + n
      BY <1>3, <2>1
    <2> QED
      BY <1>1, <1>3, <2>2 DEF Broker!Value, Broker!Signed, Broker!Sides
  <1>4. CASE book.qty > n /\ side # book.side
    <2>1. new = [book EXCEPT !.qty = @ - n]
      BY <1>1, <1>4 DEF Broker!UpdatePosition
    <2>2. new.side = book.side /\ new.qty = book.qty - n
      BY <2>1
    <2> QED
      BY <1>1, <1>4, <2>2 DEF Broker!Value, Broker!Signed, Broker!Sides
  <1>5. CASE book.qty > 0 /\ book.qty = n /\ side # book.side
    <2>1. new = Broker!Flat
      BY <1>1, <1>5 DEF Broker!UpdatePosition
    <2> QED
      BY <1>1, <1>5, <2>1 DEF Broker!Value, Broker!Signed, Broker!Sides, Broker!Flat
  <1>6. CASE book.qty > 0 /\ book.qty < n /\ side # book.side
    <2>1. new = [side |-> side, qty |-> n - book.qty]
      BY <1>1, <1>6 DEF Broker!UpdatePosition
    <2> QED
      BY <1>1, <1>6, <2>1 DEF Broker!Value, Broker!Signed, Broker!Sides
  <1> QED
    BY <1>1, <1>2, <1>3, <1>4, <1>5, <1>6

-----------------------------------------------------------------------------
\* A goroutine that has called nothing is in a state of a call.
LEMMA IdleCall == Broker!Idle \in Broker!Call
  <1>1. Broker!NoReport \in Broker!Report
    BY BrokerAssumption DEF Broker!NoReport, Broker!Report
  <1>2. 0 \in 0..MaxOrders /\ 0 \in 0..Polls
    BY BrokerAssumption
  <1> QED
    BY <1>1, <1>2 DEF Broker!Idle, Broker!Call

\* A call whose submission was accepted polls.
LEMMA PollingCall ==
    ASSUME NEW i \in Broker!Call, NEW n \in 0..Polls
    PROVE  /\ [i EXCEPT !.at = "poll", !.polls = n] \in Broker!Call
           /\ [i EXCEPT !.at = "poll", !.polls = n].id = i.id
           /\ [i EXCEPT !.at = "poll", !.polls = n].at = "poll"
           /\ [i EXCEPT !.at = "poll", !.polls = n].seen = i.seen
  <1>1. [i EXCEPT !.at = "poll"] \in Broker!Call
    BY DEF Broker!Call
  <1> QED
    BY <1>1 DEF Broker!Call

\* A call that has seen a final row settles with it.
LEMMA SettledCall ==
    ASSUME NEW i \in Broker!Call, NEW n \in 0..Polls, NEW report \in Broker!Report
    PROVE  /\ [i EXCEPT !.at = "settle", !.polls = n, !.seen = report] \in Broker!Call
           /\ [i EXCEPT !.at = "settle", !.polls = n, !.seen = report].id = i.id
           /\ [i EXCEPT !.at = "settle", !.polls = n, !.seen = report].at = "settle"
           /\ [i EXCEPT !.at = "settle", !.polls = n, !.seen = report].seen = report
  BY DEF Broker!Call

\* How an order of a call can move when the call does not: an open order fills
\* or ends, and what was answered or seen of others stays true.
LEMMA OrderMoves ==
    ASSUME BrokerIInv, NEW id \in Broker!Ids, orders[id].status = "open",
           NEW o \in Broker!Order, o.status \in Broker!Final \cup {"open"},
           o.status = "rejected" => o.filled = 0,
           orders' = [orders EXCEPT ![id] = o],
           UNCHANGED <<Broker!breaker, call, counted, fate, unheard>>
    PROVE  BrokerIInv'
  <1>1. /\ circuitOpen' = circuitOpen /\ leaked' = leaked /\ call' = call
        /\ counted' = counted /\ fate' = fate /\ unheard' = unheard
    BY DEF Broker!breaker
  <1>2. orders \in [Broker!Ids -> Broker!Order]
    BY DEF BrokerIInv, BrokerTypes
  <1>3. orders'[id] = o /\ \A j \in Broker!Ids \ {id} : orders'[j] = orders[j]
    BY <1>2
  <1>4. BrokerTypes'
    BY <1>1, <1>2 DEF BrokerIInv, BrokerTypes
  <1>5. ASSUME NEW c \in Clients PROVE CallOK(c)' /\ SeenOK(c)'
    <2>1. CallOK(c) /\ SeenOK(c)
      BY DEF BrokerIInv, CallsOK
    <2>2. CallOK(c)'
      BY <1>1, <2>1 DEF CallOK
    <2>3. call[c] \in Broker!Call
      BY DEF BrokerIInv, BrokerTypes
    <2>4. SeenOK(c)'
      <3> SUFFICES ASSUME call[c].seen.status \in Broker!Final
                   PROVE  /\ call[c].id # 0
                          /\ orders'[call[c].id].status = call[c].seen.status
                          /\ orders'[call[c].id].filled = call[c].seen.filled
        BY <1>1 DEF SeenOK
      <3>1. /\ call[c].id # 0
            /\ orders[call[c].id].status = call[c].seen.status
            /\ orders[call[c].id].filled = call[c].seen.filled
        BY <2>1 DEF SeenOK
      <3>2. call[c].id # id
        BY <3>1 DEF Broker!Final
      <3>3. call[c].id \in Broker!Ids
        BY <2>3, <3>1 DEF Broker!Call, Broker!Ids
      <3> QED
        BY <1>3, <3>1, <3>2, <3>3
    <2> QED
      BY <2>2, <2>4
  <1>6. OwnOrders'
    BY <1>1 DEF BrokerIInv, CallsOK, OwnOrders
  <1>7. ASSUME NEW j \in Broker!Ids PROVE OrderOK(j)' /\ (j \notin unheard' => AnswerOK(j)')
    <2>1. OrderOK(j) /\ (j \notin unheard => AnswerOK(j))
      BY DEF BrokerIInv, OrdersOK
    <2>2. CASE j # id
      BY <1>1, <1>3, <2>1, <2>2 DEF OrderOK, AnswerOK
    <2>3. CASE j = id
      <3>1. orders'[j].status # "none" /\ orders[j].status = "open"
        BY <1>3, <2>3 DEF Broker!Final
      <3>2. OrderOK(j)'
        BY <1>1, <1>3, <2>1, <2>3, <3>1 DEF OrderOK
      <3>3. j \notin unheard => fate[j] \notin {"failed", "filled"}
        BY <2>1, <3>1 DEF AnswerOK, Broker!Final
      <3> QED
        BY <1>1, <3>2, <3>3 DEF AnswerOK
    <2> QED
      BY <2>2, <2>3
  <1>8. PauseOK'
    BY <1>1 DEF BrokerIInv, PauseOK, Checked
  <1> QED
    BY <1>4, <1>5, <1>6, <1>7, <1>8 DEF BrokerIInv, CallsOK, OrdersOK

\* How a call can move while no order does: it keeps its order or lets it go,
\* and what it has seen is the order's last row.
LEMMA CallMoves ==
    ASSUME BrokerIInv, NEW c \in Clients, NEW r \in Broker!Call,
           call' = [call EXCEPT ![c] = r],
           r.id = call[c].id \/ r.id = 0,
           r.at \in {"idle", "checked"} => r.id = 0,
           r.at \in {"poll", "settle"} => r.id # 0,
           r.id # 0 => fate'[r.id] = "pending",
           r.seen.status \in Broker!Final =>
               /\ r.id # 0
               /\ orders[r.id].status = r.seen.status
               /\ orders[r.id].filled = r.seen.filled,
           \A id \in Broker!Ids \ {call[c].id} : fate'[id] = fate[id],
           UNCHANGED orders
    PROVE  CallsOK'
  <1>1. call \in [Clients -> Broker!Call] /\ call'[c] = r /\ \A d \in Clients \ {c} : call'[d] = call[d]
    BY DEF BrokerIInv, BrokerTypes
  <1>2. ASSUME NEW d \in Clients PROVE CallOK(d)' /\ SeenOK(d)'
    <2>1. CASE d = c
      BY <1>1, <2>1 DEF CallOK, SeenOK
    <2>2. CASE d # c
      <3>1. call'[d] = call[d] /\ orders' = orders
        BY <1>1, <2>2
      <3>2. CallOK(d) /\ SeenOK(d) /\ OwnOrders
        BY DEF BrokerIInv, CallsOK
      <3>3. SeenOK(d)'
        BY <3>1, <3>2 DEF SeenOK
      <3>4. call[d].id # 0 => fate'[call[d].id] = "pending"
        <4> SUFFICES ASSUME call[d].id # 0 PROVE fate'[call[d].id] = "pending"
          OBVIOUS
        <4>1. call[d].id \in Broker!Ids
          BY <1>1 DEF Broker!Call, Broker!Ids
        <4>2. call[d].id # call[c].id
          BY <2>2, <3>2 DEF OwnOrders
        <4> QED
          BY <3>2, <4>1, <4>2 DEF CallOK
      <3>5. CallOK(d)'
        BY <3>1, <3>2, <3>4 DEF CallOK
      <3> QED
        BY <3>3, <3>5
    <2> QED
      BY <2>1, <2>2
  <1>3. OwnOrders'
    <2> SUFFICES ASSUME NEW d \in Clients, NEW e \in Clients,
                        call'[d].id # 0, call'[d].id = call'[e].id
                 PROVE  d = e
      BY DEF OwnOrders
    <2>1. call[d].id = call'[d].id /\ call[e].id = call'[e].id
      BY <1>1
    <2> QED
      BY <2>1 DEF BrokerIInv, CallsOK, OwnOrders
  <1> QED
    BY <1>2, <1>3 DEF CallsOK

\* Orders stay explained when the fate of one is answered and none moves.
LEMMA FateMoves ==
    ASSUME BrokerIInv, NEW id \in Broker!Ids,
           \A j \in Broker!Ids \ {id} : fate'[j] = fate[j] /\ counted'[j] = counted[j],
           fate[id] # "none", fate'[id] # "none",
           id \notin unheard' => AnswerOK(id)',
           unheard \subseteq unheard',
           UNCHANGED orders
    PROVE  OrdersOK'
  <1>1. ASSUME NEW j \in Broker!Ids PROVE OrderOK(j)'
    BY DEF BrokerIInv, OrdersOK, OrderOK
  <1>2. ASSUME NEW j \in Broker!Ids \ unheard' PROVE AnswerOK(j)'
    BY DEF BrokerIInv, OrdersOK, AnswerOK
  <1> QED
    BY <1>1, <1>2 DEF OrdersOK

\* Nobody passes the check and nobody submits what was past it.
LEMMA PauseMoves ==
    ASSUME BrokerIInv, NEW c \in Clients, NEW r \in Broker!Call,
           call' = [call EXCEPT ![c] = r],
           r.at # "checked", call[c].at # "checked",
           circuitOpen' = circuitOpen, leaked' = leaked
    PROVE  PauseOK'
  <1>1. call \in [Clients -> Broker!Call]
    BY DEF BrokerIInv, BrokerTypes
  <1>2. Checked' = Checked
    BY <1>1 DEF Checked
  <1> QED
    BY <1>2 DEF BrokerIInv, PauseOK

\* The order of a call is one of Angel One's, if it has one.
LEMMA OrderOfCall ==
    ASSUME BrokerTypes, NEW c \in Clients, call[c].id # 0
    PROVE  call[c].id \in Broker!Ids
  BY DEF BrokerTypes, Broker!Call, Broker!Ids

-----------------------------------------------------------------------------
\* The initial states satisfy the invariant.
LEMMA BrokerInit == Broker!Init => BrokerIInv
  <1> SUFFICES ASSUME Broker!Init PROVE BrokerIInv
    OBVIOUS
  <1>1. Broker!NoOrder \in Broker!Order /\ Broker!NoOrder.status = "none" /\ 0 \in 0..MaxLots
    BY BrokerAssumption DEF Broker!NoOrder, Broker!Order, Broker!Statuses, Broker!Sides
  <1>2. BrokerTypes
    <2>1. circuitOpen \in BOOLEAN /\ leaked \in Nat /\ unheard \subseteq Broker!Ids
      BY DEF Broker!Init
    <2>2. /\ call \in [Clients -> Broker!Call] /\ orders \in [Broker!Ids -> Broker!Order]
          /\ counted \in [Broker!Ids -> 0..MaxLots]
      BY <1>1, IdleCall DEF Broker!Init
    <2>3. fate \in [Broker!Ids -> Fates]
      BY DEF Broker!Init, Fates
    <2> QED
      BY <2>1, <2>2, <2>3 DEF BrokerTypes
  <1>3. CallsOK
    BY DEF Broker!Init, CallsOK, CallOK, SeenOK, OwnOrders, Broker!Idle, Broker!NoReport,
       Broker!Final
  <1>4. OrdersOK
    BY <1>1 DEF Broker!Init, OrdersOK, OrderOK, AnswerOK
  <1>5. PauseOK
    BY DEF Broker!Init, PauseOK
  <1> QED
    BY <1>2, <1>3, <1>4, <1>5 DEF BrokerIInv

\* The checks of the breaker preserve the invariant.
LEMMA EntryIInv ==
    ASSUME BrokerIInv, NEW c \in Clients,
           Broker!CheckOrder(c) \/ Broker!Submit(c) \/ Broker!SubmitUngated(c)
    PROVE  BrokerIInv'
  <1>1. /\ call \in [Clients -> Broker!Call] /\ Broker!Idle \in Broker!Call
        /\ Broker!Idle.id = 0 /\ Broker!Idle.seen = Broker!NoReport
        /\ Broker!NoReport.status \notin Broker!Final
    BY IdleCall DEF BrokerIInv, BrokerTypes, Broker!Idle, Broker!NoReport, Broker!Final
  <1>2. PICK r \in Broker!Call :
          /\ call' = [call EXCEPT ![c] = r]
          /\ r.id = 0 /\ r.seen = Broker!NoReport
          /\ \/ r.at = "checked" /\ Broker!CheckOrder(c)
             \/ r.at = "submit" /\ ~Broker!CheckOrder(c)
    <2>1. ASSUME NEW i \in Broker!Call, i.id = 0, i.seen = Broker!NoReport, NEW at \in {"checked", "submit"},
                 NEW kind \in {"market", "stop"}
          PROVE  /\ [i EXCEPT !.at = at] \in Broker!Call
                 /\ [i EXCEPT !.at = at].id = 0
                 /\ [i EXCEPT !.at = at].seen = Broker!NoReport
                 /\ [i EXCEPT !.at = at].at = at
                 /\ [i EXCEPT !.at = at, !.kind = kind] \in Broker!Call
                 /\ [i EXCEPT !.at = at, !.kind = kind].id = 0
                 /\ [i EXCEPT !.at = at, !.kind = kind].seen = Broker!NoReport
                 /\ [i EXCEPT !.at = at, !.kind = kind].at = at
      BY <2>1 DEF Broker!Call
    <2>2. CASE Broker!CheckOrder(c)
      <3>1. call' = [call EXCEPT ![c] = [Broker!Idle EXCEPT !.at = "checked"]]
        BY <2>2 DEF Broker!CheckOrder, Broker!Set
      <3> QED
        BY <1>1, <2>1, <2>2, <3>1
    <2>3. CASE Broker!Submit(c)
      <3>1. call' = [call EXCEPT ![c] = [Broker!Idle EXCEPT !.at = "submit"]]
        BY <2>3 DEF Broker!Submit, Broker!Set
      <3>2. ~Broker!CheckOrder(c)
        BY <2>3 DEF Broker!Submit, Broker!CheckOrder
      <3> QED
        BY <1>1, <2>1, <3>1, <3>2
    <2>4. CASE Broker!SubmitUngated(c) /\ ~Broker!CheckOrder(c)
      <3>1. PICK kind \in {"market", "stop"} :
              call' = [call EXCEPT ![c] = [Broker!Idle EXCEPT !.at = "submit", !.kind = kind]]
        BY <2>4 DEF Broker!SubmitUngated, Broker!Set
      <3> QED
        BY <1>1, <2>1, <2>4, <3>1
    <2> QED
      BY <2>2, <2>3, <2>4
  <1>3. /\ orders' = orders /\ fate' = fate /\ counted' = counted /\ unheard' = unheard
        /\ circuitOpen' = circuitOpen /\ leaked' \in Nat
    BY DEF Broker!CheckOrder, Broker!Submit, Broker!SubmitUngated, Broker!book, Broker!breaker,
       BrokerIInv, BrokerTypes
  <1>4. BrokerTypes'
    BY <1>1, <1>2, <1>3 DEF BrokerIInv, BrokerTypes
  <1>5. CallsOK'
    BY <1>1, <1>2, <1>3, CallMoves
  <1>6. OrdersOK'
    BY <1>3 DEF BrokerIInv, OrdersOK, OrderOK, AnswerOK
  <1>7. PauseOK'
    <2>1. CASE Broker!CheckOrder(c)
      <3>1. ~circuitOpen'
        BY <1>3, <2>1 DEF Broker!CheckOrder
      <3> QED
        BY <3>1 DEF PauseOK
    <2>2. CASE Broker!Submit(c)
      <3> SUFFICES ASSUME circuitOpen' PROVE leaked' + Cardinality(Checked') < Cardinality(Clients)
        BY DEF PauseOK
      <3>1. call[c].at = "checked" /\ circuitOpen /\ leaked' = leaked + 1
        BY <1>3, <2>2 DEF Broker!Submit
      <3>2. Checked' = Checked \ {c} /\ c \in Checked
        BY <1>1, <1>2, <2>2, <3>1 DEF Checked, Broker!CheckOrder
      <3>3. IsFiniteSet(Checked)
        BY FS_Subset, BrokerAssumption DEF Checked
      <3>4. Cardinality(Checked') = Cardinality(Checked) - 1
        BY <3>2, <3>3, FS_RemoveElement
      <3>5. leaked + Cardinality(Checked) < Cardinality(Clients)
        BY <3>1 DEF BrokerIInv, PauseOK
      <3>6. Cardinality(Checked) \in Nat /\ Cardinality(Clients) \in Nat /\ leaked \in Nat
        BY <3>3, FS_CardinalityType, BrokerAssumption DEF BrokerIInv, BrokerTypes
      <3> QED
        BY <3>1, <3>4, <3>5, <3>6
    <2>3. CASE Broker!SubmitUngated(c) /\ ~Broker!CheckOrder(c)
      <3>1. leaked' = leaked /\ call[c].at # "checked"
        BY <2>3 DEF Broker!SubmitUngated, Broker!breaker
      <3>2. PICK q \in Broker!Call : call' = [call EXCEPT ![c] = q] /\ q.at # "checked"
        BY <1>2, <2>3
      <3> QED
        BY <1>3, <3>1, <3>2, PauseMoves
    <2> QED
      BY <2>1, <2>2, <2>3
  <1> QED
    BY <1>4, <1>5, <1>6, <1>7 DEF BrokerIInv

\* The arrival of an order at Angel One preserves the invariant.
LEMMA ArriveIInv ==
    ASSUME BrokerIInv, NEW c \in Clients, Broker!Arrive(c)
    PROVE  BrokerIInv'
  <1>1. PICK id \in Broker!Ids, side \in Broker!Sides, qty \in Broker!Lots :
          /\ orders[id].status = "none"
          /\ orders' = [orders EXCEPT ![id] =
                 [status |-> "open", side |-> side, qty |-> qty, filled |-> 0,
                  variety |-> IF call[c].kind = "stop" THEN "STOPLOSS" ELSE "NORMAL"]]
          /\ call' = [call EXCEPT ![c].id = id]
          /\ fate' = [fate EXCEPT ![id] = "pending"]
    BY DEF Broker!Arrive
  <1>2. /\ call[c].at = "submit" /\ call[c].id = 0
        /\ circuitOpen' = circuitOpen /\ leaked' = leaked
        /\ counted' = counted /\ unheard' = unheard
    BY DEF Broker!Arrive, Broker!breaker, Broker!book
  <1> DEFINE o == [status |-> "open", side |-> side, qty |-> qty, filled |-> 0,
                   variety |-> IF call[c].kind = "stop" THEN "STOPLOSS" ELSE "NORMAL"]
             r == [call[c] EXCEPT !.id = id]
  <1>3. o \in Broker!Order /\ o.status = "open"
    BY BrokerAssumption DEF Broker!Order, Broker!Statuses, Broker!Lots
  <1>4. orders' = [orders EXCEPT ![id] = o]
    BY <1>1
  <1> HIDE DEF o
  <1>5. /\ call \in [Clients -> Broker!Call] /\ orders \in [Broker!Ids -> Broker!Order]
        /\ fate \in [Broker!Ids -> Fates]
        /\ id # 0 /\ id \in 0..MaxOrders
    BY BrokerAssumption DEF BrokerIInv, BrokerTypes, Broker!Ids
  <1>6. r \in Broker!Call /\ r.id = id /\ r.at = "submit" /\ r.seen = call[c].seen
    BY <1>2, <1>5 DEF Broker!Call
  <1>7. call' = [call EXCEPT ![c] = r]
    BY <1>1, <1>5
  <1> HIDE DEF r
  <1>8. fate[id] = "none" /\ "pending" \in Fates
    BY <1>1 DEF BrokerIInv, OrdersOK, OrderOK, Fates
  <1>9. BrokerTypes'
    BY <1>1, <1>2, <1>3, <1>4, <1>5, <1>6, <1>7, <1>8 DEF BrokerIInv, BrokerTypes
  <1>10. \A d \in Clients : call[d].id # id
    BY <1>5, <1>8 DEF BrokerIInv, CallsOK, CallOK
  <1>11. ASSUME NEW d \in Clients PROVE CallOK(d)' /\ SeenOK(d)'
    <2>1. CallOK(d) /\ SeenOK(d)
      BY DEF BrokerIInv, CallsOK
    <2>2. CASE d = c
      <3>1. call'[d] = r
        BY <1>5, <1>7, <2>2
      <3>2. CallOK(d)'
        BY <1>1, <1>5, <1>6, <3>1 DEF CallOK
      <3>3. call[c].seen.status \notin Broker!Final
        BY <1>2, <2>1, <2>2 DEF SeenOK
      <3>4. SeenOK(d)'
        BY <1>6, <3>1, <3>3 DEF SeenOK
      <3> QED
        BY <3>2, <3>4
    <2>3. CASE d # c
      <3>1. call'[d] = call[d]
        BY <1>5, <1>7, <2>3
      <3>2. call[d].id # 0 => /\ orders'[call[d].id] = orders[call[d].id]
                              /\ fate'[call[d].id] = fate[call[d].id]
        <4> SUFFICES ASSUME call[d].id # 0
                     PROVE  /\ orders'[call[d].id] = orders[call[d].id]
                            /\ fate'[call[d].id] = fate[call[d].id]
          OBVIOUS
        <4>1. call[d].id \in Broker!Ids /\ call[d].id # id
          BY <1>10, OrderOfCall DEF BrokerIInv
        <4> QED
          BY <1>1, <1>4, <1>5, <4>1
      <3>3. CallOK(d)'
        BY <2>1, <3>1, <3>2 DEF CallOK
      <3>4. SeenOK(d)'
        BY <2>1, <3>1, <3>2 DEF SeenOK
      <3> QED
        BY <3>3, <3>4
    <2> QED
      BY <2>2, <2>3
  <1>12. OwnOrders'
    <2> SUFFICES ASSUME NEW d \in Clients, NEW e \in Clients,
                        call'[d].id # 0, call'[d].id = call'[e].id
                 PROVE  d = e
      BY DEF OwnOrders
    <2>1. \A f \in Clients : call'[f].id = IF f = c THEN id ELSE call[f].id
      BY <1>5, <1>6, <1>7
    <2> QED
      BY <1>10, <2>1 DEF BrokerIInv, CallsOK, OwnOrders
  <1>13. ASSUME NEW j \in Broker!Ids PROVE OrderOK(j)' /\ (j \notin unheard' => AnswerOK(j)')
    <2>1. OrderOK(j) /\ (j \notin unheard => AnswerOK(j))
      BY DEF BrokerIInv, OrdersOK
    <2>2. CASE j = id
      <3>1. fate'[j] = "pending" /\ orders'[j].status = "open"
        BY <1>1, <1>3, <1>4, <1>5, <2>2
      <3> QED
        BY <3>1 DEF OrderOK, AnswerOK
    <2>3. CASE j # id
      <3>1. fate'[j] = fate[j] /\ orders'[j] = orders[j] /\ counted'[j] = counted[j]
        BY <1>1, <1>2, <1>4, <1>5, <2>3
      <3> QED
        BY <1>2, <2>1, <3>1 DEF OrderOK, AnswerOK
    <2> QED
      BY <2>2, <2>3
  <1>14. PauseOK'
    BY <1>2, <1>6, <1>7, PauseMoves
  <1> QED
    BY <1>9, <1>11, <1>12, <1>13, <1>14 DEF BrokerIInv, CallsOK, OrdersOK

\* The answer to a submission preserves the invariant.
LEMMA AcceptedIInv ==
    ASSUME BrokerIInv, NEW c \in Clients, Broker!Accepted(c)
    PROVE  BrokerIInv'
  <1>1. /\ call[c].at = "submit" /\ call[c].id # 0
        /\ orders' = orders /\ counted' = counted /\ unheard' = unheard
        /\ circuitOpen' = circuitOpen /\ leaked' = leaked
    BY DEF Broker!Accepted, Broker!breaker, Broker!book, Broker!RecordOrderSuccess
  <1>2. /\ call \in [Clients -> Broker!Call] /\ fate \in [Broker!Ids -> Fates] /\ Broker!Idle \in Broker!Call
        /\ Broker!Idle.id = 0 /\ Broker!Idle.at = "idle" /\ Broker!Idle.seen.status \notin Broker!Final
        /\ call[c].id \in Broker!Ids
    BY <1>1, IdleCall, OrderOfCall DEF BrokerIInv, BrokerTypes, Broker!Idle, Broker!NoReport, Broker!Final
  <1>3. CallOK(c) /\ SeenOK(c)
    BY DEF BrokerIInv, CallsOK
  <1>4. CASE call' = [call EXCEPT ![c] = Broker!Idle] /\ fate' = [fate EXCEPT ![call[c].id] = "resting"]
    <2>1. CallsOK'
      BY <1>1, <1>2, <1>4, CallMoves
    <2>2. OrdersOK'
      <3>1. PICK id \in Broker!Ids : id = call[c].id
        BY <1>2
      <3>2. fate'[id] = "resting" /\ \A j \in Broker!Ids \ {id} : fate'[j] = fate[j]
        BY <1>2, <1>4, <3>1
      <3>3. fate[id] = "pending"
        BY <1>1, <1>3, <3>1 DEF CallOK
      <3>4. AnswerOK(id)'
        BY <3>2 DEF AnswerOK
      <3> QED
        BY <1>1, <3>2, <3>3, <3>4, FateMoves
    <2>3. PauseOK'
      BY <1>1, <1>2, <1>4, PauseMoves
    <2>4. BrokerTypes'
      BY <1>1, <1>2, <1>4 DEF BrokerIInv, BrokerTypes, Fates
    <2> QED
      BY <2>1, <2>2, <2>3, <2>4 DEF BrokerIInv
  <1>5. CASE /\ call' = [call EXCEPT ![c] = [call[c] EXCEPT !.at = "poll", !.polls = Polls]]
             /\ fate' = fate
    <2> DEFINE r == [call[c] EXCEPT !.at = "poll", !.polls = Polls]
    <2>1. r \in Broker!Call /\ r.id = call[c].id /\ r.at = "poll" /\ r.seen = call[c].seen
      <3>1. Polls \in 0..Polls /\ call[c] \in Broker!Call
        BY <1>2, BrokerAssumption
      <3> QED
        BY <3>1, PollingCall
    <2>2. call' = [call EXCEPT ![c] = r]
      BY <1>5
    <2> HIDE DEF r
    <2>3. CallsOK'
      <3>1. r.id # 0 /\ fate'[r.id] = "pending"
        BY <1>1, <1>3, <1>5, <2>1 DEF CallOK
      <3>2. r.seen.status \in Broker!Final => /\ orders[r.id].status = r.seen.status
                                              /\ orders[r.id].filled = r.seen.filled
        BY <1>3, <2>1 DEF SeenOK
      <3> QED
        BY <1>1, <1>5, <2>1, <2>2, <3>1, <3>2, CallMoves
    <2>4. OrdersOK'
      BY <1>1, <1>5 DEF BrokerIInv, OrdersOK, OrderOK, AnswerOK
    <2>5. PauseOK'
      BY <1>1, <2>1, <2>2, PauseMoves
    <2>6. BrokerTypes'
      BY <1>1, <1>2, <1>5, <2>1, <2>2 DEF BrokerIInv, BrokerTypes
    <2> QED
      BY <2>3, <2>4, <2>5, <2>6 DEF BrokerIInv
  <1> QED
    BY <1>4, <1>5 DEF Broker!Accepted, Broker!Done, Broker!Set

\* A submission that is refused or not answered preserves the invariant.
LEMMA NotAcceptedIInv ==
    ASSUME BrokerIInv, NEW c \in Clients, Broker!NotAccepted(c)
    PROVE  BrokerIInv'
  <1>1. /\ call[c].at = "submit" /\ call' = [call EXCEPT ![c] = Broker!Idle]
        /\ orders' = orders /\ counted' = counted
        /\ IF call[c].id # 0
           THEN /\ fate' = [fate EXCEPT ![call[c].id] = "failed"]
                /\ unheard' = unheard \cup {call[c].id}
           ELSE fate' = fate /\ unheard' = unheard
    BY DEF Broker!NotAccepted, Broker!Done, Broker!Set, Broker!book
  <1>2. /\ call \in [Clients -> Broker!Call] /\ fate \in [Broker!Ids -> Fates] /\ Broker!Idle \in Broker!Call
        /\ Broker!Idle.id = 0 /\ Broker!Idle.at = "idle" /\ Broker!Idle.seen.status \notin Broker!Final
        /\ leaked \in Nat /\ circuitOpen \in BOOLEAN
    BY IdleCall DEF BrokerIInv, BrokerTypes, Broker!Idle, Broker!NoReport, Broker!Final
  <1>3. /\ circuitOpen' \in BOOLEAN
        /\ \/ circuitOpen' = circuitOpen /\ leaked' = leaked
           \/ ~circuitOpen /\ circuitOpen' /\ leaked' = 0
    BY <1>2 DEF Broker!NotAccepted, Broker!RecordOrderFailure, Broker!breaker
  <1>4. CallOK(c)
    BY DEF BrokerIInv, CallsOK
  <1>5. CallsOK'
    <2>1. \A j \in Broker!Ids \ {call[c].id} : fate'[j] = fate[j]
      BY <1>1, <1>2
    <2> QED
      BY <1>1, <1>2, <2>1, CallMoves
  <1>6. OrdersOK'
    <2>1. CASE call[c].id = 0
      BY <1>1, <2>1 DEF BrokerIInv, OrdersOK, OrderOK, AnswerOK
    <2>2. CASE call[c].id # 0
      <3>1. call[c].id \in Broker!Ids
        BY <2>2, OrderOfCall DEF BrokerIInv
      <3>2. /\ fate'[call[c].id] = "failed" /\ fate[call[c].id] # "none"
            /\ \A j \in Broker!Ids \ {call[c].id} : fate'[j] = fate[j]
            /\ unheard \subseteq unheard'
        BY <1>1, <1>2, <1>4, <2>2, <3>1 DEF CallOK
      <3>3. ASSUME NEW j \in Broker!Ids PROVE OrderOK(j)'
        BY <1>1, <3>2 DEF BrokerIInv, OrdersOK, OrderOK
      <3>4. ASSUME NEW j \in Broker!Ids \ unheard' PROVE AnswerOK(j)'
        <4>1. j # call[c].id /\ j \notin unheard
          BY <1>1, <2>2
        <4> QED
          BY <1>1, <3>2, <4>1 DEF BrokerIInv, OrdersOK, AnswerOK
      <3> QED
        BY <3>3, <3>4 DEF OrdersOK
    <2> QED
      BY <2>1, <2>2
  <1>7. PauseOK'
    <2>1. CASE circuitOpen' = circuitOpen /\ leaked' = leaked
      BY <1>1, <1>2, <2>1, PauseMoves
    <2>2. CASE leaked' = 0
      <3>1. Checked' \subseteq Clients \ {c}
        BY <1>1, <1>2 DEF Checked
      <3>2. IsFiniteSet(Clients \ {c}) /\ Cardinality(Clients \ {c}) = Cardinality(Clients) - 1
        BY FS_RemoveElement, BrokerAssumption
      <3>3. Cardinality(Checked') <= Cardinality(Clients \ {c}) /\ IsFiniteSet(Checked')
        BY <3>1, <3>2, FS_Subset
      <3>4. Cardinality(Checked') \in Nat /\ Cardinality(Clients) \in Nat
        BY <3>3, FS_CardinalityType, BrokerAssumption
      <3> QED
        BY <2>2, <3>2, <3>3, <3>4 DEF PauseOK
    <2> QED
      BY <1>3, <2>1, <2>2
  <1>8. BrokerTypes'
    <2>1. leaked' \in Nat
      BY <1>2, <1>3
    <2>2. call' \in [Clients -> Broker!Call]
      BY <1>1, <1>2
    <2>3. fate' \in [Broker!Ids -> Fates]
      BY <1>1, <1>2 DEF Fates
    <2>4. unheard' \subseteq Broker!Ids
      BY <1>1, OrderOfCall DEF BrokerIInv, BrokerTypes
    <2> QED
      BY <1>1, <1>3, <2>1, <2>2, <2>3, <2>4 DEF BrokerIInv, BrokerTypes
  <1> QED
    BY <1>5, <1>6, <1>7, <1>8 DEF BrokerIInv

\* A poll, and the end of polling, preserve the invariant.
LEMMA PollBroker ==
    ASSUME BrokerIInv, NEW c \in Clients, Broker!Poll(c) \/ Broker!PollFails(c) \/ Broker!BudgetSpent(c)
    PROVE  BrokerIInv'
  <1>1. /\ call[c].at = "poll" /\ orders' = orders /\ counted' = counted
        /\ unheard' = unheard /\ fate' = fate
        /\ circuitOpen' = circuitOpen /\ leaked' = leaked
    BY DEF Broker!Poll, Broker!PollFails, Broker!BudgetSpent, Broker!breaker, Broker!book
  <1>2. CallOK(c) /\ SeenOK(c) /\ call \in [Clients -> Broker!Call] /\ orders \in [Broker!Ids -> Broker!Order]
    BY DEF BrokerIInv, CallsOK, BrokerTypes
  <1>3. /\ call[c].id # 0 /\ fate[call[c].id] = "pending" /\ call[c].id \in Broker!Ids
        /\ call[c] \in Broker!Call /\ orders[call[c].id] \in Broker!Order
    BY <1>1, <1>2, OrderOfCall DEF CallOK, BrokerIInv
  <1>4. PICK r \in Broker!Call :
          /\ call' = [call EXCEPT ![c] = r]
          /\ r.id = call[c].id /\ r.at \in {"poll", "settle"}
          /\ \/ r.seen = call[c].seen
             \/ /\ r.seen.status = orders[call[c].id].status
                /\ r.seen.filled = orders[call[c].id].filled
    <2>1. CASE /\ call[c].polls > 0
               /\ call' = [call EXCEPT ![c] = [call[c] EXCEPT !.polls = @ - 1]]
      <3> DEFINE r == [call[c] EXCEPT !.polls = @ - 1]
      <3>1. r \in Broker!Call /\ r.id = call[c].id /\ r.at = "poll" /\ r.seen = call[c].seen
        BY <1>1, <1>3, <2>1, BrokerAssumption DEF Broker!Call
      <3> QED
        BY <2>1, <3>1
    <2>2. CASE call' = [call EXCEPT ![c] = [call[c] EXCEPT !.at = "settle"]]
      <3> DEFINE r == [call[c] EXCEPT !.at = "settle"]
      <3>1. r \in Broker!Call /\ r.id = call[c].id /\ r.at = "settle" /\ r.seen = call[c].seen
        BY <1>1, <1>3 DEF Broker!Call
      <3> QED
        BY <2>2, <3>1
    <2>3. ASSUME NEW priced \in BOOLEAN, orders[call[c].id].status \in Broker!Final,
                 Broker!Set(c, [call[c] EXCEPT !.at = "settle", !.polls = 0,
                               !.seen = [status |-> orders[call[c].id].status,
                                         filled |-> orders[call[c].id].filled, priced |-> priced]])
          PROVE  \E r \in Broker!Call :
                    /\ call' = [call EXCEPT ![c] = r]
                    /\ r.id = call[c].id /\ r.at \in {"poll", "settle"}
                    /\ r.seen.status = orders[call[c].id].status
                    /\ r.seen.filled = orders[call[c].id].filled
      <3> DEFINE report == [status |-> orders[call[c].id].status,
                            filled |-> orders[call[c].id].filled, priced |-> priced]
                 r == [call[c] EXCEPT !.at = "settle", !.polls = 0, !.seen = report]
      <3>1. /\ report \in Broker!Report /\ report.status = orders[call[c].id].status
            /\ report.filled = orders[call[c].id].filled
        BY <1>3, <2>3 DEF Broker!Report, Broker!Order
      <3>2. call' = [call EXCEPT ![c] = r]
        BY <2>3 DEF Broker!Set
      <3> HIDE DEF report
      <3>3. r \in Broker!Call /\ r.id = call[c].id /\ r.at = "settle" /\ r.seen = report
        <4>1. 0 \in 0..Polls /\ call[c] \in Broker!Call /\ report \in Broker!Report
          BY <1>3, <3>1, BrokerAssumption
        <4>2. \A i \in Broker!Call, x \in Broker!Report :
                 /\ [i EXCEPT !.at = "settle", !.polls = 0, !.seen = x] \in Broker!Call
                 /\ [i EXCEPT !.at = "settle", !.polls = 0, !.seen = x].id = i.id
                 /\ [i EXCEPT !.at = "settle", !.polls = 0, !.seen = x].at = "settle"
                 /\ [i EXCEPT !.at = "settle", !.polls = 0, !.seen = x].seen = x
          BY <4>1, SettledCall
        <4> QED
          BY <4>1, <4>2, Zenon
      <3> QED
        BY <3>1, <3>2, <3>3
    <2>4. CASE Broker!Poll(c)
      <3>1. PICK priced \in BOOLEAN :
              \/ /\ orders[call[c].id].status \in Broker!Final
                 /\ Broker!Set(c, [call[c] EXCEPT !.at = "settle", !.polls = 0,
                               !.seen = [status |-> orders[call[c].id].status,
                                         filled |-> orders[call[c].id].filled, priced |-> priced]])
              \/ call[c].polls > 0 /\ Broker!Set(c, [call[c] EXCEPT !.polls = @ - 1])
        BY <2>4 DEF Broker!Poll
      <3> QED
        BY <2>1, <2>3, <3>1 DEF Broker!Set
    <2>5. CASE Broker!PollFails(c)
      BY <2>1, <2>5 DEF Broker!PollFails, Broker!Set
    <2>6. CASE Broker!BudgetSpent(c)
      BY <2>2, <2>6 DEF Broker!BudgetSpent, Broker!Set
    <2> QED
      BY <2>4, <2>5, <2>6
  <1>5. CallsOK'
    BY <1>1, <1>2, <1>3, <1>4, CallMoves DEF SeenOK
  <1>6. OrdersOK'
    BY <1>1 DEF BrokerIInv, OrdersOK, OrderOK, AnswerOK
  <1>7. PauseOK'
    BY <1>1, <1>4, PauseMoves
  <1>8. BrokerTypes'
    BY <1>1, <1>2, <1>4 DEF BrokerIInv, BrokerTypes
  <1> QED
    BY <1>5, <1>6, <1>7, <1>8 DEF BrokerIInv

\* The answer of PlaceOrder preserves the invariant.
LEMMA AnswerIInv ==
    ASSUME BrokerIInv, NEW c \in Clients, Broker!Filled(c) \/ Broker!NotFilled(c) \/ Broker!Indeterminate(c)
    PROVE  BrokerIInv'
  <1>1. /\ call[c].at = "settle" /\ call' = [call EXCEPT ![c] = Broker!Idle]
        /\ orders' = orders /\ unheard' = unheard
        /\ circuitOpen' = circuitOpen /\ leaked' = leaked
    BY DEF Broker!Filled, Broker!NotFilled, Broker!Indeterminate, Broker!Done, Broker!Set,
       Broker!breaker
  <1>2. CallOK(c) /\ SeenOK(c) /\ call \in [Clients -> Broker!Call] /\ orders \in [Broker!Ids -> Broker!Order]
    BY DEF BrokerIInv, CallsOK, BrokerTypes
  <1>3. /\ call[c].id # 0 /\ fate[call[c].id] = "pending" /\ call[c].id \in Broker!Ids
        /\ call[c].seen \in Broker!Report
    BY <1>1, <1>2, OrderOfCall DEF CallOK, BrokerIInv, Broker!Call
  <1>4. /\ Broker!Idle \in Broker!Call /\ Broker!Idle.id = 0 /\ Broker!Idle.at = "idle"
        /\ Broker!Idle.seen.status \notin Broker!Final
        /\ fate \in [Broker!Ids -> Fates] /\ counted \in [Broker!Ids -> 0..MaxLots]
    BY IdleCall DEF Broker!Idle, Broker!NoReport, Broker!Final, BrokerIInv, BrokerTypes
  <1>5. PICK answer \in Fates \ {"none"}, n \in 0..MaxLots :
          /\ fate' = [fate EXCEPT ![call[c].id] = answer]
          /\ counted' = [counted EXCEPT ![call[c].id] = n]
          /\ answer = "failed" => Broker!Unfilled(call[c].seen)
          /\ answer = "filled" => Broker!Usable(call[c].seen) /\ n = call[c].seen.filled
    <2>1. CASE Broker!Filled(c)
      <3>1. call[c].seen.filled \in 0..MaxLots
        BY <1>3 DEF Broker!Report
      <3> QED
        BY <2>1, <3>1 DEF Broker!Filled, Fates
    <2>2. CASE Broker!NotFilled(c)
      <3>1. counted' = [counted EXCEPT ![call[c].id] = counted[call[c].id]]
        BY <1>3, <1>4, <2>2 DEF Broker!NotFilled, Broker!book
      <3>2. fate' = [fate EXCEPT ![call[c].id] = "failed"] /\ Broker!Unfilled(call[c].seen)
        BY <2>2 DEF Broker!NotFilled
      <3>3. "failed" \in Fates \ {"none"} /\ counted[call[c].id] \in 0..MaxLots
        BY <1>3, <1>4 DEF Fates
      <3> QED
        BY <3>1, <3>2, <3>3
    <2>3. CASE Broker!Indeterminate(c)
      <3>1. counted' = [counted EXCEPT ![call[c].id] = counted[call[c].id]]
        BY <1>3, <1>4, <2>3 DEF Broker!Indeterminate, Broker!book
      <3>2. fate' = [fate EXCEPT ![call[c].id] = "unknown"]
        BY <2>3 DEF Broker!Indeterminate
      <3>3. "unknown" \in Fates \ {"none"} /\ counted[call[c].id] \in 0..MaxLots
        BY <1>3, <1>4 DEF Fates
      <3> QED
        BY <3>1, <3>2, <3>3
    <2> QED
      BY <2>1, <2>2, <2>3
  <1>6. CallsOK'
    BY <1>1, <1>3, <1>4, <1>5, CallMoves
  <1>7. OrdersOK'
    <2>1. PICK id \in Broker!Ids : id = call[c].id
      BY <1>3
    <2>2. /\ fate'[id] = answer /\ counted'[id] = n
          /\ \A j \in Broker!Ids \ {id} : fate'[j] = fate[j] /\ counted'[j] = counted[j]
      BY <1>3, <1>4, <1>5, <2>1
    <2>3. OrderOK(id) /\ orders[id] \in Broker!Order
      BY <1>2, <1>3 DEF BrokerIInv, OrdersOK
    <2>4. answer = "failed" => orders[id].status \in Broker!Final /\ orders[id].filled = 0
      <3> SUFFICES ASSUME answer = "failed"
                   PROVE  orders[id].status \in Broker!Final /\ orders[id].filled = 0
        OBVIOUS
      <3>1. Broker!Unfilled(call[c].seen)
        BY <1>5
      <3>2. call[c].seen.status \in {"rejected", "cancelled"}
        BY <3>1 DEF Broker!Unfilled
      <3>3. orders[id].status = call[c].seen.status /\ orders[id].filled = call[c].seen.filled
        BY <1>2, <2>1, <3>2 DEF SeenOK, Broker!Final
      <3>4. CASE call[c].seen.status = "rejected"
        BY <2>3, <3>3, <3>4 DEF OrderOK, Broker!Final
      <3>5. CASE call[c].seen.status # "rejected"
        BY <3>1, <3>3, <3>5 DEF Broker!Unfilled, Broker!Final
      <3> QED
        BY <3>4, <3>5
    <2>5. answer = "filled" => orders[id].status \in Broker!Final /\ orders[id].filled = n
      BY <1>2, <1>5, <2>1 DEF SeenOK, Broker!Usable
    <2>6. AnswerOK(id)'
      BY <1>1, <2>2, <2>4, <2>5 DEF AnswerOK
    <2> QED
      BY <1>1, <1>3, <1>5, <2>1, <2>2, <2>6, FateMoves
  <1>8. PauseOK'
    BY <1>1, <1>4, PauseMoves
  <1>9. BrokerTypes'
    <2>1. fate' \in [Broker!Ids -> Fates] /\ counted' \in [Broker!Ids -> 0..MaxLots]
      BY <1>3, <1>4, <1>5
    <2> QED
      BY <1>1, <1>2, <1>4, <2>1 DEF BrokerIInv, BrokerTypes
  <1> QED
    BY <1>6, <1>7, <1>8, <1>9 DEF BrokerIInv

\* Angel One's fills and ends, and a cancellation, preserve the invariant.
LEMMA OrderIInv ==
    ASSUME BrokerIInv, NEW id \in Broker!Ids,
           Broker!Fill(id) \/ Broker!End(id) \/ \E c \in Clients : Broker!CancelOrder(c, id)
    PROVE  BrokerIInv'
  <1>1. /\ orders[id].status = "open" /\ orders \in [Broker!Ids -> Broker!Order]
        /\ UNCHANGED <<Broker!breaker, call, counted, fate, unheard>>
    BY DEF Broker!Fill, Broker!End, Broker!CancelOrder, Broker!book, BrokerIInv, BrokerTypes
  <1>2. CASE Broker!Fill(id)
    <2>1. PICK n \in 1..(orders[id].qty - orders[id].filled) :
            orders' = [orders EXCEPT
                ![id].filled = @ + n,
                ![id].status = IF orders[id].filled + n = orders[id].qty THEN "complete" ELSE "open"]
      BY <1>2 DEF Broker!Fill
    <2> DEFINE filled == [orders[id] EXCEPT !.filled = @ + n]
               o == [filled EXCEPT !.status = IF orders[id].filled + n = orders[id].qty
                                              THEN "complete" ELSE "open"]
    <2>2. orders' = [orders EXCEPT ![id] = o]
      BY <1>1, <2>1
    <2>3. filled \in Broker!Order
      <3>1. orders[id].filled + n \in 0..MaxLots
        BY <1>1, BrokerAssumption DEF Broker!Order
      <3> QED
        BY <1>1, <3>1 DEF Broker!Order
    <2>4. o \in Broker!Order /\ o.status \in {"complete", "open"}
      <3> HIDE DEF filled
      <3> QED
        BY <2>3 DEF Broker!Order, Broker!Statuses, Broker!Final
    <2> HIDE DEF o
    <2> QED
      BY <1>1, <2>2, <2>4, OrderMoves DEF Broker!Final
  <1>3. ASSUME NEW status \in {"rejected", "cancelled"},
               status = "rejected" => orders[id].filled = 0,
               orders' = [orders EXCEPT ![id].status = status]
        PROVE  BrokerIInv'
    <2> DEFINE o == [orders[id] EXCEPT !.status = status]
    <2>1. orders' = [orders EXCEPT ![id] = o]
      BY <1>3
    <2>2. o \in Broker!Order /\ o.status = status /\ o.filled = orders[id].filled
      BY <1>1 DEF Broker!Order, Broker!Statuses, Broker!Final
    <2>3. o.status \in Broker!Final \cup {"open"} /\ (o.status = "rejected" => o.filled = 0)
      BY <1>3, <2>2 DEF Broker!Final
    <2> HIDE DEF o
    <2> QED
      BY <1>1, <2>1, <2>2, <2>3, OrderMoves
  <1>4. CASE Broker!End(id)
    BY <1>3, <1>4 DEF Broker!End
  <1>5. CASE \E c \in Clients : Broker!CancelOrder(c, id)
    BY <1>3, <1>5 DEF Broker!CancelOrder
  <1> QED
    BY <1>2, <1>4, <1>5

\* The end of a pause, a disconnection and a restart preserve the invariant.
LEMMA OutsideBroker ==
    ASSUME BrokerIInv, Broker!PauseEnds \/ Broker!Close \/ Broker!Restart
    PROVE  BrokerIInv'
  <1>1. CASE Broker!PauseEnds \/ Broker!Close
    <2>1. /\ call' = call /\ orders' = orders /\ counted' = counted /\ fate' = fate
          /\ unheard' = unheard /\ leaked' = leaked
      BY <1>1 DEF Broker!PauseEnds, Broker!Close, Broker!breaker, Broker!book
    <2>2. circuitOpen' \in BOOLEAN /\ (circuitOpen' => circuitOpen)
      <3>1. CASE Broker!PauseEnds
        BY <3>1 DEF Broker!PauseEnds
      <3>2. CASE Broker!Close
        BY <3>2 DEF Broker!Close, Broker!breaker, BrokerIInv, BrokerTypes
      <3> QED
        BY <1>1, <3>1, <3>2
    <2>3. BrokerTypes'
      BY <2>1, <2>2 DEF BrokerIInv, BrokerTypes
    <2>4. CallsOK' /\ OrdersOK'
      BY <2>1 DEF BrokerIInv, CallsOK, CallOK, SeenOK, OwnOrders, OrdersOK, OrderOK, AnswerOK
    <2>5. PauseOK'
      BY <2>1, <2>2 DEF BrokerIInv, PauseOK, Checked
    <2> QED
      BY <2>3, <2>4, <2>5 DEF BrokerIInv
  <1>2. CASE Broker!Restart
    <2>1. /\ call' = [c \in Clients |-> Broker!Idle] /\ orders' = orders /\ unheard' = {}
          /\ circuitOpen' = FALSE /\ leaked' = 0
      BY <1>2 DEF Broker!Restart
    <2>2. orders \in [Broker!Ids -> Broker!Order] /\ Broker!Idle \in Broker!Call
      BY IdleCall DEF BrokerIInv, BrokerTypes
    <2>3. /\ counted' \in [Broker!Ids -> 0..MaxLots]
          /\ fate' \in [Broker!Ids -> Fates]
          /\ \A id \in Broker!Ids : /\ fate'[id] \notin {"failed", "filled"}
                                    /\ fate'[id] = "none" <=> orders[id].status = "none"
      <3>1. CASE /\ counted' = [id \in Broker!Ids |-> orders[id].filled]
                 /\ fate' = [id \in Broker!Ids |-> IF orders[id].status \in Broker!Final THEN "fetched"
                               ELSE IF orders[id].status = "open" THEN "crashed" ELSE "none"]
        BY <2>2, <3>1 DEF Broker!Order, Broker!Statuses, Broker!Final, Fates
      <3>2. CASE /\ counted' = [id \in Broker!Ids |-> 0]
                 /\ fate' = [id \in Broker!Ids |-> IF orders[id].status = "none" THEN "none"
                                                   ELSE "forgotten"]
        BY <3>2, BrokerAssumption DEF Fates
      <3> QED
        BY <1>2, <3>1, <3>2 DEF Broker!Restart
    <2>4. BrokerTypes'
      BY <2>1, <2>2, <2>3 DEF BrokerTypes
    <2>5. CallsOK'
      BY <2>1 DEF CallsOK, CallOK, SeenOK, OwnOrders, Broker!Idle, Broker!NoReport, Broker!Final
    <2>6. OrdersOK'
      BY <2>1, <2>3 DEF BrokerIInv, OrdersOK, OrderOK, AnswerOK
    <2>7. PauseOK'
      BY <2>1 DEF PauseOK
    <2> QED
      BY <2>4, <2>5, <2>6, <2>7 DEF BrokerIInv
  <1> QED
    BY <1>1, <1>2

\* Every step preserves the invariant.
LEMMA NextIInv == BrokerIInv /\ [Broker!Next]_(Broker!brokerVars) => BrokerIInv'
  <1> SUFFICES ASSUME BrokerIInv, [Broker!Next]_(Broker!brokerVars) PROVE BrokerIInv'
    OBVIOUS
  <1>1. CASE UNCHANGED Broker!brokerVars
    <2>1. /\ call' = call /\ orders' = orders /\ counted' = counted /\ fate' = fate
          /\ unheard' = unheard /\ leaked' = leaked /\ circuitOpen' = circuitOpen
      BY <1>1 DEF Broker!brokerVars
    <2>2. BrokerTypes'
      BY <2>1 DEF BrokerIInv, BrokerTypes
    <2>3. CallsOK' /\ OrdersOK' /\ PauseOK'
      BY <2>1 DEF BrokerIInv, CallsOK, CallOK, SeenOK, OwnOrders, OrdersOK, OrderOK, AnswerOK, PauseOK,
         Checked
    <2> QED
      BY <2>2, <2>3 DEF BrokerIInv
  <1>2. ASSUME NEW c \in Clients, Broker!Step(c) PROVE BrokerIInv'
    <2>1. CASE Broker!CheckOrder(c) \/ Broker!Submit(c) \/ Broker!SubmitUngated(c)
      BY <2>1, EntryIInv
    <2>2. CASE Broker!Arrive(c)
      BY <2>2, ArriveIInv
    <2>3. CASE Broker!Accepted(c) \/ Broker!NotAccepted(c)
      BY <2>3, AcceptedIInv, NotAcceptedIInv
    <2>4. CASE Broker!Poll(c) \/ Broker!PollFails(c) \/ Broker!BudgetSpent(c)
      BY <2>4, PollBroker
    <2>5. CASE Broker!Filled(c) \/ Broker!NotFilled(c) \/ Broker!Indeterminate(c)
      BY <2>5, AnswerIInv
    <2>6. CASE \E id \in Broker!Ids : Broker!CancelOrder(c, id)
      BY <2>6, OrderIInv
    <2> QED
      BY <1>2, <2>1, <2>2, <2>3, <2>4, <2>5, <2>6 DEF Broker!Step
  <1>3. ASSUME NEW id \in Broker!Ids, Broker!Fill(id) \/ Broker!End(id) PROVE BrokerIInv'
    BY <1>3, OrderIInv
  <1>4. CASE Broker!PauseEnds \/ Broker!Close \/ Broker!Restart
    BY <1>4, OutsideBroker
  <1> QED
    BY <1>1, <1>2, <1>3, <1>4 DEF Broker!Next

-----------------------------------------------------------------------------
\* PlaceOrder's answers can be relied on, whatever is lost, refused or polled in
\* between: a definite failure filled nothing and never will, and a fill is the
\* quantity the order ended with, but for a submission that was not answered.
THEOREM AnswersRelied == Broker!Spec => []AnswersHold
  <1>1. Broker!Init => BrokerIInv
    BY BrokerInit
  <1>2. BrokerIInv /\ [Broker!Next]_(Broker!brokerVars) => BrokerIInv'
    BY NextIInv
  <1>3. BrokerIInv => AnswersHold
    BY DEF BrokerIInv, OrdersOK, AnswerOK, AnswersHold, Broker!AnswersHold
  <1> QED
    BY <1>1, <1>2, <1>3, PTL DEF Broker!Spec

\* The breaker keeps entries out (PlaceOrder's check and recordOrderFailure): of
\* those submitted while it is open every one was past the check when it opened,
\* and the goroutine whose failure opened it has none.
THEOREM PauseKept == Broker!Spec => []PauseHolds
  <1>1. Broker!Init => BrokerIInv
    BY BrokerInit
  <1>2. BrokerIInv /\ [Broker!Next]_(Broker!brokerVars) => BrokerIInv'
    BY NextIInv
  <1>3. BrokerIInv => PauseHolds
    <2> SUFFICES ASSUME BrokerIInv, circuitOpen PROVE leaked < Cardinality(Clients)
      BY SameCardinality DEF PauseHolds, Broker!PauseHolds
    <2>1. leaked + Cardinality(Checked) < Cardinality(Clients) /\ leaked \in Nat
      BY DEF BrokerIInv, PauseOK, BrokerTypes
    <2>2. IsFiniteSet(Checked)
      BY FS_Subset, BrokerAssumption DEF Checked
    <2>3. Cardinality(Checked) \in Nat /\ Cardinality(Clients) \in Nat
      BY <2>2, FS_CardinalityType, BrokerAssumption
    <2> QED
      BY <2>1, <2>3
  <1> QED
    BY <1>1, <1>2, <1>3, PTL DEF Broker!Spec
-----------------------------------------------------------------------------
(***************************************************************************)
(* The book.  BookExplained is inductive once it is known which orders the *)
(* book has nothing of: those not reported filled since the last restart.  *)
(***************************************************************************)
BookSum(os, n) ==
    SumFunctionOnSet([id \in Broker!Ids |-> Broker!Signed(os[id].side, n[id])], Broker!Ids)

CountedOK(id) ==
    /\ fate[id] \in {"none", "pending", "failed"} => counted[id] = 0
    /\ fate[id] = "fetched" => orders[id].status \in Broker!Final /\ counted[id] = orders[id].filled
    /\ orders[id].status = "none" => orders[id].filled = 0

BookOK ==
    /\ positions \in [side : Broker!Sides, qty : Nat]
    /\ Broker!Value(positions) = BookSum(orders, counted)
    /\ \A id \in Broker!Ids : CountedOK(id)

\* The instance adds up as the library does.
LEMMA TotalIsSum ==
    ASSUME NEW os, NEW n
    PROVE  Broker!Total([id \in Broker!Ids |-> Broker!Signed(os[id].side, n[id])]) = BookSum(os, n)
  <1> DEFINE f == [id \in Broker!Ids |-> Broker!Signed(os[id].side, n[id])]
  <1>1. DOMAIN f = Broker!Ids
    OBVIOUS
  <1> HIDE DEF f
  <1>2. Broker!Total(f) = SumFunctionOnSet(f, DOMAIN f)
    BY DEF Broker!Total, SumFunctionOnSet, Broker!FoldFunction, Broker!FoldFunctionOnSet,
       FoldFunctionOnSet, Broker!MapThenFoldSet, MapThenFoldSet
  <1> QED
    BY <1>1, <1>2 DEF BookSum, f

\* There are finitely many orders.
LEMMA IdsFinite == IsFiniteSet(Broker!Ids)
  BY FS_Interval, BrokerAssumption DEF Broker!Ids

\* A signed quantity is an integer.
LEMMA SignedInt ==
    ASSUME NEW side, NEW n \in Int
    PROVE  Broker!Signed(side, n) \in Int
  BY DEF Broker!Signed

\* Nothing is worth nothing on either side.
LEMMA SignedZero == ASSUME NEW side PROVE Broker!Signed(side, 0) = 0
  <1>1. \A n \in Int : n + (-n) = 0 /\ -n \in Int
    OBVIOUS
  <1>2. \A m \in Int : 0 + m = 0 => m = 0
    OBVIOUS
  <1>3. 0 + (-0) = 0 /\ -0 \in Int
    <2>1. 0 \in Int
      OBVIOUS
    <2> QED
      BY Zenon, <1>1, <2>1
  <1>4. -0 = 0
    BY Zenon, <1>2, <1>3
  <1> QED
    BY <1>4 DEF Broker!Signed

\* Orders that differ in nothing the book has of them add up to the same.
LEMMA BookSame ==
    ASSUME NEW os, NEW ps, NEW n,
           \A id \in Broker!Ids : n[id] = 0 \/ ps[id].side = os[id].side
    PROVE  BookSum(ps, n) = BookSum(os, n)
  <1> DEFINE f == [id \in Broker!Ids |-> Broker!Signed(os[id].side, n[id])]
             g == [id \in Broker!Ids |-> Broker!Signed(ps[id].side, n[id])]
  <1>1. \A id \in Broker!Ids : g[id] = f[id]
    BY DEF Broker!Signed
  <1>2. BookSum(os, n) = SumFunctionOnSet(f, Broker!Ids) /\ BookSum(ps, n) = SumFunctionOnSet(g, Broker!Ids)
    BY DEF BookSum
  <1> HIDE DEF f, g
  <1> QED
    BY <1>1, <1>2, IdsFinite, SumSame

\* Counting a fill of an order that was not counted adds it.
LEMMA BookAdds ==
    ASSUME NEW os, NEW n \in [Broker!Ids -> Int], NEW id \in Broker!Ids, n[id] = 0, NEW q \in Int
    PROVE  /\ BookSum(os, [n EXCEPT ![id] = q]) = BookSum(os, n) + Broker!Signed(os[id].side, q)
           /\ BookSum(os, n) \in Int
  <1> DEFINE m == [n EXCEPT ![id] = q]
             f == [i \in Broker!Ids |-> Broker!Signed(os[i].side, n[i])]
             g == [i \in Broker!Ids |-> Broker!Signed(os[i].side, m[i])]
  <1>1. m \in [Broker!Ids -> Int] /\ m[id] = q /\ \A i \in Broker!Ids \ {id} : m[i] = n[i]
    OBVIOUS
  <1>2. \A i \in Broker!Ids : f[i] \in Int /\ g[i] \in Int
    BY <1>1, SignedInt
  <1>3. \A i \in Broker!Ids \ {id} : f[i] = g[i]
    BY <1>1
  <1>4. f[id] = 0 /\ g[id] = Broker!Signed(os[id].side, q)
    BY <1>1, SignedZero
  <1>5. BookSum(os, n) = SumFunctionOnSet(f, Broker!Ids) /\ BookSum(os, m) = SumFunctionOnSet(g, Broker!Ids)
    BY DEF BookSum
  <1> HIDE DEF f, g, m
  <1>6. SumFunctionOnSet(g, Broker!Ids) = SumFunctionOnSet(f, Broker!Ids) + g[id] - f[id]
    BY <1>2, <1>3, IdsFinite, SumMoves
  <1>7. SumFunctionOnSet(f, Broker!Ids) \in Int
    BY <1>2, IdsFinite, SumInt
  <1>8. Broker!Signed(os[id].side, q) \in Int
    BY SignedInt
  <1>9. BookSum(os, m) = BookSum(os, n) + Broker!Signed(os[id].side, q)
    BY <1>4, <1>5, <1>6, <1>7, <1>8
  <1> QED
    BY <1>5, <1>7, <1>9 DEF m

\* A position of the net quantity is worth it.
LEMMA AsPositionValue ==
    ASSUME NEW n \in Int
    PROVE  /\ Broker!AsPosition(n) \in [side : Broker!Sides, qty : Nat]
           /\ Broker!Value(Broker!AsPosition(n)) = n
  BY DEF Broker!AsPosition, Broker!Value, Broker!Signed, Broker!Sides

\* A fill flips the book or not, and leaves a position.
LEMMA BookUpdateTyped ==
    ASSUME NEW book \in [side : Broker!Sides, qty : Nat], NEW n \in Nat,
           NEW side \in Broker!Sides
    PROVE  Broker!UpdatePosition(book, n, side) \in [side : Broker!Sides, qty : Nat]
  <1>1. book.qty \in Nat /\ book.side \in Broker!Sides
    OBVIOUS
  <1>2. CASE book.qty = 0 \/ (book.qty > 0 /\ side = book.side)
    BY <1>1, <1>2 DEF Broker!UpdatePosition
  <1>3. CASE book.qty > 0 /\ book.qty >= n /\ side # book.side
    BY <1>1, <1>3 DEF Broker!UpdatePosition, Broker!Flat, Broker!Sides
  <1>4. CASE book.qty > 0 /\ book.qty < n /\ side # book.side
    BY <1>1, <1>4 DEF Broker!UpdatePosition
  <1> QED
    BY <1>1, <1>2, <1>3, <1>4

\* The book is explained as long as no order it has something of changes sides
\* and what is answered of an order is not that it was fetched.
LEMMA BookStays ==
    ASSUME BrokerIInv, BookOK, UNCHANGED <<positions, counted>>, orders' \in [Broker!Ids -> Broker!Order],
           \A id \in Broker!Ids : orders'[id] # orders[id] =>
               /\ orders[id].status = "open" \/ counted[id] = 0
               /\ orders[id].status = "open" => orders'[id].side = orders[id].side
               /\ orders'[id].status # "none"
               /\ fate[id] # "fetched",
           \A id \in Broker!Ids : fate'[id] # fate[id] =>
               fate[id] \in {"none", "pending"} /\ fate'[id] # "fetched"
    PROVE  BookOK'
  <1>1. \A id \in Broker!Ids : counted[id] = 0 \/ orders'[id].side = orders[id].side
    OBVIOUS
  <1>2. PICK os, ps, n : os = orders /\ ps = orders' /\ n = counted
    OBVIOUS
  <1>3. BookSum(ps, n) = BookSum(os, n)
    BY <1>1, <1>2, BookSame
  <1>4. Broker!Value(positions') = BookSum(orders', counted')
    BY <1>2, <1>3 DEF BookOK
  <1>5. ASSUME NEW id \in Broker!Ids PROVE CountedOK(id)'
    <2>1. CountedOK(id)
      BY DEF BookOK
    <2>2. counted' = counted
      OBVIOUS
    <2>3. fate'[id] \in {"none", "pending", "failed"} => counted'[id] = 0
      BY <2>1, <2>2 DEF CountedOK
    <2>4. fate'[id] = "fetched" => orders'[id].status \in Broker!Final /\ counted'[id] = orders'[id].filled
      BY <2>1, <2>2 DEF CountedOK
    <2>5. orders'[id].status = "none" => orders'[id].filled = 0
      BY <2>1 DEF CountedOK
    <2> QED
      BY <2>3, <2>4, <2>5 DEF CountedOK
  <1> QED
    BY <1>4, <1>5 DEF BookOK

\* The book is empty at the start, and no fill is counted.
LEMMA InitBook == Broker!Init => BookOK
  <1> SUFFICES ASSUME Broker!Init PROVE BookOK
    OBVIOUS
  <1>1. /\ positions = Broker!Flat /\ counted = [id \in Broker!Ids |-> 0]
        /\ orders = [id \in Broker!Ids |-> Broker!NoOrder] /\ fate = [id \in Broker!Ids |-> "none"]
    BY Zenon DEF Broker!Init
  <1>2. BookSum(orders, counted) = 0
    <2> DEFINE f == [id \in Broker!Ids |-> Broker!Signed(orders[id].side, counted[id])]
    <2>1. \A id \in Broker!Ids : f[id] = 0
      BY <1>1, SignedZero
    <2>2. BookSum(orders, counted) = SumFunctionOnSet(f, Broker!Ids)
      BY DEF BookSum
    <2> HIDE DEF f
    <2> QED
      BY <2>1, <2>2, IdsFinite, SumZero
  <1>3. \A id \in Broker!Ids : CountedOK(id)
    BY <1>1 DEF Broker!NoOrder, CountedOK
  <1> QED
    BY <1>1, <1>2, <1>3 DEF BookOK, Broker!Flat, Broker!Value, Broker!Signed, Broker!Sides

\* A goroutine's steps keep the book explained.
LEMMA StepBook ==
    ASSUME BrokerIInv, BrokerIInv', BookOK, NEW c \in Clients, Broker!Step(c)
    PROVE  BookOK'
  <1>1. orders' \in [Broker!Ids -> Broker!Order]
    BY DEF BrokerIInv, BrokerTypes
  <1>2. CASE UNCHANGED <<positions, counted, orders, fate>>
    BY <1>1, <1>2, BookStays
  <1>3. CASE Broker!Arrive(c)
    <2>1. PICK id \in Broker!Ids, side \in Broker!Sides, qty \in Broker!Lots :
            /\ orders[id].status = "none"
            /\ orders' = [orders EXCEPT ![id] =
                   [status |-> "open", side |-> side, qty |-> qty, filled |-> 0,
                    variety |-> IF call[c].kind = "stop" THEN "STOPLOSS" ELSE "NORMAL"]]
            /\ fate' = [fate EXCEPT ![id] = "pending"]
      BY <1>3 DEF Broker!Arrive
    <2>2. positions' = positions /\ counted' = counted
      BY <1>3 DEF Broker!Arrive, Broker!book
    <2>3. fate[id] = "none" /\ counted[id] = 0
      BY <2>1 DEF BrokerIInv, OrdersOK, OrderOK, BookOK, CountedOK
    <2>4. \A i \in Broker!Ids : orders'[i] # orders[i] \/ fate'[i] # fate[i] => i = id
      BY <2>1 DEF BrokerIInv, BrokerTypes
    <2>5. orders'[id].status = "open" /\ fate'[id] = "pending"
      BY <2>1 DEF BrokerIInv, BrokerTypes
    <2> QED
      BY <1>1, <2>1, <2>2, <2>3, <2>4, <2>5, BookStays
  <1>4. CASE \/ Broker!Accepted(c) \/ Broker!NotAccepted(c)
             \/ Broker!NotFilled(c) \/ Broker!Indeterminate(c)
    <2>1. positions' = positions /\ counted' = counted /\ orders' = orders
      BY <1>4 DEF Broker!Accepted, Broker!NotAccepted, Broker!NotFilled, Broker!Indeterminate,
         Broker!book
    <2>2. fate' = fate \/ /\ call[c].id # 0
                          /\ \E f \in {"resting", "failed", "unknown"} :
                                 fate' = [fate EXCEPT ![call[c].id] = f]
      <3>1. call[c].at \in {"poll", "settle"} => call[c].id # 0
        BY DEF BrokerIInv, CallsOK, CallOK
      <3> QED
        BY <1>4, <3>1 DEF Broker!Accepted, Broker!NotAccepted, Broker!NotFilled, Broker!Indeterminate
    <2>3. call[c].id # 0 => call[c].id \in Broker!Ids /\ fate[call[c].id] = "pending"
      BY OrderOfCall DEF BrokerIInv, CallsOK, CallOK
    <2>4. fate \in [Broker!Ids -> Fates]
      BY DEF BrokerIInv, BrokerTypes
    <2>5. \A id \in Broker!Ids : fate'[id] # fate[id] =>
              fate[id] \in {"none", "pending"} /\ fate'[id] # "fetched"
      BY <2>2, <2>3, <2>4
    <2> QED
      BY <1>1, <2>1, <2>5, BookStays
  <1>5. CASE Broker!Filled(c)
    <2>1. PICK id, seen : id = call[c].id /\ seen = call[c].seen
      OBVIOUS
    <2>2. /\ id \in Broker!Ids /\ fate[id] = "pending" /\ counted[id] = 0
          /\ seen.filled \in Nat
      <3>1. id \in Broker!Ids /\ fate[id] = "pending"
        BY <1>5, <2>1, OrderOfCall DEF BrokerIInv, CallsOK, CallOK, Broker!Filled
      <3>2. call[c] \in Broker!Call
        BY DEF BrokerIInv, BrokerTypes
      <3>3. seen.filled \in Nat
        BY <2>1, <3>2, BrokerAssumption DEF Broker!Call, Broker!Report
      <3> QED
        BY <3>1, <3>3 DEF BookOK, CountedOK
    <2>3. PICK n, os : n = counted /\ os = orders
      OBVIOUS
    <2>4. n \in [Broker!Ids -> Int] /\ os[id].side \in Broker!Sides
      BY <2>2, <2>3, BrokerAssumption DEF BrokerIInv, BrokerTypes, Broker!Order
    <2>5. /\ positions' = Broker!UpdatePosition(positions, seen.filled, os[id].side)
          /\ counted' = [n EXCEPT ![id] = seen.filled]
          /\ fate' = [fate EXCEPT ![id] = "filled"] /\ orders' = os
      BY <1>5, <2>1, <2>3 DEF Broker!Filled
    <2>6. Broker!Value(positions') = Broker!Value(positions) + Broker!Signed(os[id].side, seen.filled)
      BY <2>2, <2>4, <2>5, FlipsAdd DEF BookOK
    <2>7. BookSum(os, counted') = BookSum(os, n) + Broker!Signed(os[id].side, seen.filled)
      <3>1. n[id] = 0 /\ seen.filled \in Int
        BY <2>2, <2>3
      <3> QED
        BY <2>2, <2>4, <2>5, <3>1, BookAdds
    <2>8. Broker!Value(positions') = BookSum(orders', counted')
      BY <2>3, <2>5, <2>6, <2>7 DEF BookOK
    <2>9. positions' \in [side : Broker!Sides, qty : Nat]
      BY <2>2, <2>4, <2>5, BookUpdateTyped DEF BookOK
    <2>10. ASSUME NEW i \in Broker!Ids PROVE CountedOK(i)'
      <3>1. CountedOK(i) /\ orders' = orders
        BY <2>3, <2>5 DEF BookOK
      <3>2. CASE i = id
        BY <2>2, <2>5, <3>1, <3>2 DEF CountedOK, BrokerIInv, BrokerTypes
      <3>3. CASE i # id
        <4>1. fate'[i] = fate[i] /\ counted'[i] = counted[i]
          BY <2>3, <2>4, <2>5, <3>3 DEF BrokerIInv, BrokerTypes
        <4> QED
          BY <3>1, <4>1 DEF CountedOK
      <3> QED
        BY <3>2, <3>3
    <2> QED
      BY <2>8, <2>9, <2>10 DEF BookOK
  <1>6. ASSUME NEW id \in Broker!Ids, Broker!CancelOrder(c, id) PROVE BookOK'
    <2>1. /\ positions' = positions /\ counted' = counted /\ fate' = fate
          /\ orders[id].status = "open" /\ orders' = [orders EXCEPT ![id].status = "cancelled"]
      BY Zenon, <1>6 DEF Broker!CancelOrder, Broker!book
    <2>2. fate[id] # "fetched"
      BY <2>1 DEF BookOK, CountedOK, Broker!Final
    <2>3. /\ orders'[id].status = "cancelled" /\ orders'[id].side = orders[id].side
          /\ \A i \in Broker!Ids : orders'[i] # orders[i] => i = id
      BY <2>1 DEF BrokerIInv, BrokerTypes, Broker!Order
    <2> QED
      BY <1>1, <2>1, <2>2, <2>3, BookStays
  <1>7. \/ Broker!CheckOrder(c) \/ Broker!Submit(c) \/ Broker!SubmitUngated(c)
        \/ Broker!Poll(c) \/ Broker!PollFails(c) \/ Broker!BudgetSpent(c)
        => UNCHANGED <<positions, counted, orders, fate>>
    BY Zenon DEF Broker!CheckOrder, Broker!Submit, Broker!SubmitUngated, Broker!Poll, Broker!PollFails,
       Broker!BudgetSpent, Broker!book
  <1> QED
    BY <1>2, <1>3, <1>4, <1>5, <1>6, <1>7 DEF Broker!Step

\* What Angel One does to open orders moves nothing that the book has.
LEMMA OutsideBook ==
    ASSUME BrokerIInv, BrokerIInv', BookOK, NEW id \in Broker!Ids, Broker!Fill(id) \/ Broker!End(id)
    PROVE  BookOK'
  <1>1. /\ positions' = positions /\ counted' = counted /\ fate' = fate
        /\ orders[id].status = "open"
    BY DEF Broker!Fill, Broker!End, Broker!book
  <1>2. /\ orders'[id].status \in {"complete", "open", "rejected", "cancelled"}
        /\ orders'[id].side = orders[id].side
        /\ \A i \in Broker!Ids : orders'[i] # orders[i] => i = id
    <2>1. orders \in [Broker!Ids -> Broker!Order]
      BY DEF BrokerIInv, BrokerTypes
    <2>2. CASE Broker!Fill(id)
      <3>1. PICK n : orders' = [orders EXCEPT
              ![id].filled = @ + n,
              ![id].status = IF orders[id].filled + n = orders[id].qty THEN "complete" ELSE "open"]
        BY <2>2 DEF Broker!Fill
      <3> QED
        BY <2>1, <3>1 DEF Broker!Order
    <2>3. CASE Broker!End(id)
      BY <2>1, <2>3 DEF Broker!End, Broker!Order
    <2> QED
      BY <2>2, <2>3
  <1>3. fate[id] # "fetched"
    BY <1>1 DEF BookOK, CountedOK, Broker!Final
  <1>4. orders' \in [Broker!Ids -> Broker!Order]
    BY DEF BrokerIInv, BrokerTypes
  <1> QED
    BY <1>1, <1>2, <1>3, <1>4, BookStays

\* A restart takes over the net position, or forgets it.
LEMMA RestartBook ==
    ASSUME BrokerIInv, BookOK, Broker!Restart
    PROVE  BookOK'
  <1>1. PICK os : os = orders
    OBVIOUS
  <1>2. orders' = os /\ os \in [Broker!Ids -> Broker!Order]
    <2>1. orders' = orders
      BY Zenon DEF Broker!Restart
    <2> QED
      BY <1>1, <2>1 DEF BrokerIInv, BrokerTypes
  <1>3. CASE /\ positions' = Broker!AsPosition(Broker!Net)
             /\ counted' = [id \in Broker!Ids |-> orders[id].filled]
             /\ fate' = [id \in Broker!Ids |->
                    IF orders[id].status \in Broker!Final THEN "fetched"
                    ELSE IF orders[id].status = "open" THEN "crashed" ELSE "none"]
    <2>1. PICK n : n = [id \in Broker!Ids |-> os[id].filled]
      OBVIOUS
    <2>2. Broker!Net = BookSum(os, n)
      <3>1. [id \in Broker!Ids |-> Broker!Signed(os[id].side, n[id])]
                = [id \in Broker!Ids |-> Broker!Signed(os[id].side, os[id].filled)]
        BY <2>1
      <3> QED
        BY <1>1, <3>1, TotalIsSum DEF Broker!Net
    <2>3. BookSum(os, n) \in Int
      <3> DEFINE f == [id \in Broker!Ids |-> Broker!Signed(os[id].side, n[id])]
      <3>1. \A id \in Broker!Ids : os[id].filled \in Int
        BY <1>2, BrokerAssumption DEF Broker!Order
      <3>2. \A id \in Broker!Ids : f[id] \in Int
        BY <2>1, <3>1, SignedInt
      <3>3. BookSum(os, n) = SumFunctionOnSet(f, Broker!Ids)
        BY DEF BookSum
      <3> HIDE DEF f
      <3> QED
        BY <3>2, <3>3, IdsFinite, SumInt
    <2>4. /\ positions' \in [side : Broker!Sides, qty : Nat]
          /\ Broker!Value(positions') = BookSum(orders', counted')
      BY <1>1, <1>2, <1>3, <2>1, <2>2, <2>3, AsPositionValue
    <2>5. ASSUME NEW id \in Broker!Ids PROVE CountedOK(id)'
      <3>1. CountedOK(id)
        BY DEF BookOK
      <3>2. os[id].status \in Broker!Final \cup {"open", "none"}
        BY <1>2 DEF Broker!Order, Broker!Statuses
      <3>3. counted'[id] = os[id].filled /\ orders'[id] = os[id]
        BY <1>1, <1>2, <1>3
      <3>4. fate'[id] = "fetched" => os[id].status \in Broker!Final
        BY <1>1, <1>3
      <3>5. fate'[id] \in {"none", "pending", "failed"} => os[id].status = "none"
        BY <1>1, <1>3, <3>2
      <3>6. os[id].status = "none" => os[id].filled = 0
        BY <1>1, <3>1 DEF CountedOK
      <3> QED
        BY <3>3, <3>4, <3>5, <3>6 DEF CountedOK
    <2> QED
      BY <2>4, <2>5 DEF BookOK
  <1>4. CASE /\ positions' = Broker!Flat
             /\ counted' = [id \in Broker!Ids |-> 0]
             /\ fate' = [id \in Broker!Ids |->
                    IF orders[id].status = "none" THEN "none" ELSE "forgotten"]
    <2>1. PICK n : n = [id \in Broker!Ids |-> 0]
      OBVIOUS
    <2>2. BookSum(os, n) = 0
      <3> DEFINE f == [id \in Broker!Ids |-> Broker!Signed(os[id].side, n[id])]
      <3>1. \A id \in Broker!Ids : f[id] = 0
        BY <2>1, SignedZero
      <3>2. BookSum(os, n) = SumFunctionOnSet(f, Broker!Ids)
        BY DEF BookSum
      <3> HIDE DEF f
      <3> QED
        BY <3>1, <3>2, IdsFinite, SumZero
    <2>3. /\ positions' \in [side : Broker!Sides, qty : Nat]
          /\ Broker!Value(positions') = BookSum(orders', counted')
      BY <1>2, <1>4, <2>1, <2>2 DEF Broker!Flat, Broker!Value, Broker!Signed, Broker!Sides
    <2>4. ASSUME NEW id \in Broker!Ids PROVE CountedOK(id)'
      <3>1. CountedOK(id)
        BY DEF BookOK
      <3> QED
        BY <1>1, <1>2, <1>4, <3>1 DEF CountedOK
    <2> QED
      BY <2>3, <2>4 DEF BookOK
  <1> QED
    BY Zenon, <1>3, <1>4 DEF Broker!Restart

\* Every step keeps the book explained.
LEMMA NextBook == BrokerIInv /\ BookOK /\ [Broker!Next]_(Broker!brokerVars) => BookOK'
  <1> SUFFICES ASSUME BrokerIInv, BookOK, [Broker!Next]_(Broker!brokerVars) PROVE BookOK'
    OBVIOUS
  <1>1. BrokerIInv'
    BY NextIInv
  <1>2. CASE Broker!PauseEnds \/ Broker!Close \/ UNCHANGED Broker!brokerVars
    <2>1. UNCHANGED <<positions, counted, orders, fate>>
      BY <1>2 DEF Broker!PauseEnds, Broker!Close, Broker!brokerVars, Broker!book
    <2> QED
      BY <1>1, <2>1, BookStays DEF BrokerIInv, BrokerTypes
  <1> QED
    BY <1>1, <1>2, StepBook, OutsideBook, RestartBook DEF Broker!Next

\* The cached position book is what the fills it heard of add up to
\* (updatePosition, through flips, and fetchRemotePositions after a restart), and
\* a fill that it does not have belongs to an order still being placed, to one
\* with no answer or an indeterminate one, to a stop order, or to a restart.
THEOREM BookIsExplained == Broker!Spec => []BookExplained
  <1>1. Broker!Init => BrokerIInv /\ BookOK
    BY BrokerInit, InitBook
  <1>2. BrokerIInv /\ BookOK /\ [Broker!Next]_(Broker!brokerVars) => (BrokerIInv /\ BookOK)'
    BY NextIInv, NextBook
  <1>3. BrokerIInv /\ BookOK => BookExplained
    <2> SUFFICES ASSUME BrokerIInv, BookOK PROVE BookExplained
      OBVIOUS
    <2>1. Broker!Value(positions) = Broker!Total(
              [id \in Broker!Ids |-> Broker!Signed(orders[id].side, counted[id])])
      BY TotalIsSum DEF BookOK
    <2>2. ASSUME NEW id \in Broker!Ids, orders[id].filled # counted[id]
          PROVE  \/ fate[id] \in {"pending", "unknown", "resting", "crashed", "forgotten"}
                 \/ id \in unheard
      <3>1. CountedOK(id) /\ OrderOK(id) /\ (id \notin unheard => AnswerOK(id))
        BY DEF BookOK, BrokerIInv, OrdersOK
      <3>2. fate[id] # "fetched"
        BY <2>2, <3>1 DEF CountedOK
      <3>3. fate[id] # "none"
        BY <2>2, <3>1 DEF CountedOK, OrderOK
      <3>4. id \notin unheard => fate[id] \notin {"filled", "failed"}
        BY <2>2, <3>1 DEF CountedOK, AnswerOK
      <3>5. fate[id] \in Fates
        BY DEF BrokerIInv, BrokerTypes
      <3> QED
        BY <3>2, <3>3, <3>4, <3>5 DEF Fates
    <2> QED
      BY <2>1, <2>2 DEF BookExplained, Broker!BookExplained
  <1> QED
    BY <1>1, <1>2, <1>3, PTL DEF Broker!Spec

-----------------------------------------------------------------------------
(***************************************************************************)
(* The types.  A book of more than MaxOrders full orders cannot be, since  *)
(* it is their sum.                                                        *)
(***************************************************************************)
ClientOK ==
    /\ orderVariety \in [Broker!Ids -> {"", "NORMAL", "STOPLOSS"}]
    /\ consecutiveFailures \in 0..TripAt
    /\ mishaps \in 0..MaxMishaps
    /\ brokerRestarts \in 0..MaxRestarts

\* The connection is up or down.
LEMMA ConnectedKeeps ==
    connected \in BOOLEAN /\ [Broker!Next]_(Broker!brokerVars) => connected' \in BOOLEAN
  <1>1. [Broker!Next]_(Broker!brokerVars)
            => connected' = connected \/ connected' = TRUE \/ connected' = FALSE
    BY DEF Broker!Next, Broker!Step, Broker!brokerVars, Broker!client, Broker!PauseEnds,
       Broker!Close, Broker!Restart, Broker!Fill, Broker!End, Broker!CheckOrder, Broker!Submit,
       Broker!SubmitUngated, Broker!Arrive, Broker!Accepted, Broker!NotAccepted, Broker!Poll,
       Broker!PollFails, Broker!BudgetSpent, Broker!Filled, Broker!NotFilled,
       Broker!Indeterminate, Broker!CancelOrder
  <1> QED
    BY Zenon, <1>1

\* A bound is spent one by one.
LEMMA Spend ==
    ASSUME NEW n \in Nat, NEW k \in 0..n, NEW m, m = k \/ (k < n /\ m = k + 1)
    PROVE  m \in 0..n
  OBVIOUS

\* The failures are counted up to the limit.
LEMMA FailuresKeep ==
    ASSUME consecutiveFailures \in 0..TripAt, NEW n,
           \/ n = consecutiveFailures \/ n = 0
           \/ n = IF consecutiveFailures < TripAt THEN consecutiveFailures + 1 ELSE TripAt
    PROVE  n \in 0..TripAt
  <1>1. TripAt \in Nat
    BY BrokerAssumption
  <1> QED
    BY <1>1

\* A step spends a mishap, or none.
LEMMA MishapsKeep ==
    ASSUME mishaps \in 0..MaxMishaps, (UNCHANGED mishaps) \/ Broker!Mishap
    PROVE  mishaps' \in 0..MaxMishaps
  <1>1. mishaps' = mishaps \/ (mishaps < MaxMishaps /\ mishaps' = mishaps + 1)
    BY DEF Broker!Mishap
  <1> QED
    BY <1>1, Spend, BrokerAssumption

\* Every step keeps the client's own types.
LEMMA ClientKeeps == BrokerIInv /\ ClientOK /\ [Broker!Next]_(Broker!brokerVars) => ClientOK'
  <1> SUFFICES ASSUME BrokerIInv, ClientOK, [Broker!Next]_(Broker!brokerVars) PROVE ClientOK'
    OBVIOUS
  <1> USE DEF ClientOK
  <1>1. CASE UNCHANGED Broker!brokerVars
    BY <1>1 DEF Broker!brokerVars
  <1>2. CASE Broker!PauseEnds \/ Broker!Close
    BY <1>2 DEF Broker!PauseEnds, Broker!Close, Broker!client, Broker!breaker
  <1>3. CASE Broker!Restart
    <2>1. /\ orderVariety' = [id \in Broker!Ids |-> ""]
          /\ consecutiveFailures' = 0 /\ brokerRestarts < MaxRestarts
          /\ brokerRestarts' = brokerRestarts + 1
          /\ (UNCHANGED mishaps) \/ Broker!Mishap
      BY <1>3 DEF Broker!Restart
    <2>2. brokerRestarts' \in 0..MaxRestarts
      BY <2>1, Spend, BrokerAssumption
    <2>3. mishaps' \in 0..MaxMishaps
      BY <2>1, MishapsKeep
    <2>4. orderVariety' \in [Broker!Ids -> {"", "NORMAL", "STOPLOSS"}]
      BY <2>1
    <2>5. consecutiveFailures' \in 0..TripAt
      BY <2>1, FailuresKeep
    <2> QED
      BY <2>2, <2>3, <2>4, <2>5
  <1>4. ASSUME NEW id \in Broker!Ids, Broker!Fill(id) \/ Broker!End(id) PROVE ClientOK'
    BY <1>4 DEF Broker!Fill, Broker!End, Broker!client, Broker!breaker
  <1>5. ASSUME NEW c \in Clients, Broker!Step(c) PROVE ClientOK'
    <2>1. CASE Broker!CheckOrder(c) \/ Broker!SubmitUngated(c) \/ Broker!Arrive(c)
                 \/ Broker!BudgetSpent(c) \/ Broker!Filled(c) \/ Broker!NotFilled(c)
                 \/ Broker!Indeterminate(c) \/ \E id \in Broker!Ids : Broker!CancelOrder(c, id)
      BY <2>1 DEF Broker!CheckOrder, Broker!SubmitUngated, Broker!Arrive, Broker!BudgetSpent,
         Broker!Filled, Broker!NotFilled, Broker!Indeterminate, Broker!CancelOrder,
         Broker!client, Broker!breaker
    <2>2. CASE Broker!Submit(c)
      BY <2>2 DEF Broker!Submit, Broker!client
    <2>3. CASE Broker!Accepted(c)
      <3>1. call[c].id \in Broker!Ids
        BY <2>3, OrderOfCall DEF BrokerIInv, Broker!Accepted
      <3>2. orders[call[c].id].variety \in {"NORMAL", "STOPLOSS"}
        BY <3>1 DEF BrokerIInv, BrokerTypes, Broker!Order
      <3>3. /\ UNCHANGED <<mishaps, brokerRestarts>>
            /\ orderVariety' = [orderVariety EXCEPT ![call[c].id] = orders[call[c].id].variety]
            /\ consecutiveFailures' = consecutiveFailures \/ consecutiveFailures' = 0
        BY <2>3 DEF Broker!Accepted, Broker!breaker, Broker!RecordOrderSuccess
      <3>4. orderVariety' \in [Broker!Ids -> {"", "NORMAL", "STOPLOSS"}]
        BY <3>1, <3>2, <3>3
      <3>5. consecutiveFailures' \in 0..TripAt
        BY <3>3, FailuresKeep
      <3> QED
        BY <3>3, <3>4, <3>5
    <2>4. CASE Broker!NotAccepted(c)
      <3>1. \/ consecutiveFailures' = consecutiveFailures
            \/ consecutiveFailures' = IF consecutiveFailures < TripAt
                                      THEN consecutiveFailures + 1 ELSE TripAt
        BY <2>4 DEF Broker!NotAccepted, Broker!breaker, Broker!RecordOrderFailure
      <3>2. consecutiveFailures' \in 0..TripAt
        BY <3>1, FailuresKeep
      <3>3. mishaps' \in 0..MaxMishaps
        BY <2>4, MishapsKeep DEF Broker!NotAccepted
      <3> QED
        BY <2>4, <3>2, <3>3 DEF Broker!NotAccepted, Broker!client
    <2>5. CASE Broker!Poll(c) \/ Broker!PollFails(c)
      <3>1. (UNCHANGED mishaps) \/ Broker!Mishap
        BY <2>5 DEF Broker!Poll, Broker!PollFails
      <3>2. mishaps' \in 0..MaxMishaps
        BY <3>1, MishapsKeep
      <3> QED
        BY <2>5, <3>2 DEF Broker!Poll, Broker!PollFails, Broker!client, Broker!breaker
    <2> QED
      BY <1>5, <2>1, <2>2, <2>3, <2>4, <2>5 DEF Broker!Step
  <1> QED
    BY <1>1, <1>2, <1>3, <1>4, <1>5 DEF Broker!Next

\* The book is no larger than all orders together.
LEMMA BookBounded == ASSUME BrokerIInv, BookOK PROVE positions \in Broker!Position
  <1> DEFINE f == [id \in Broker!Ids |-> Broker!Signed(orders[id].side, counted[id])]
  <1>1. \A id \in Broker!Ids : f[id] \in Int /\ f[id] <= MaxLots /\ -MaxLots <= f[id]
    BY BrokerAssumption DEF BrokerIInv, BrokerTypes, Broker!Signed
  <1>2. Cardinality(Broker!Ids) = MaxOrders
    BY BrokerAssumption, FS_Interval DEF Broker!Ids
  <1>3. Broker!Value(positions) = SumFunctionOnSet(f, Broker!Ids)
    BY DEF BookOK, BookSum
  <1> DEFINE most == MaxLots * MaxOrders
  <1>4. most \in Nat
    BY BrokerAssumption
  <1> HIDE DEF f, most
  <1>5. Broker!Value(positions) <= most /\ -most <= Broker!Value(positions)
    BY <1>1, <1>2, <1>3, IdsFinite, SumWithin, BrokerAssumption DEF most
  <1>6. positions \in [side : Broker!Sides, qty : Nat]
    BY DEF BookOK
  <1>7. positions.qty <= most
    BY <1>4, <1>5, <1>6 DEF Broker!Value, Broker!Signed
  <1> QED
    BY <1>4, <1>6, <1>7 DEF Broker!Position, most

\* The broker's variables have their types: the failures counted never exceed the
\* limit, the cached book is no larger than its orders.
THEOREM BrokerTyped == Broker!Spec => []Broker!TypeOK
  <1>1. Broker!Init => BrokerIInv /\ BookOK /\ ClientOK /\ connected \in BOOLEAN
    <2>1. ASSUME Broker!Init PROVE ClientOK
      <3>1. orderVariety \in [Broker!Ids -> {"", "NORMAL", "STOPLOSS"}]
        BY <2>1 DEF Broker!Init
      <3>2. consecutiveFailures = 0 /\ mishaps = 0 /\ brokerRestarts = 0
        BY <2>1 DEF Broker!Init
      <3>3. TripAt \in Nat /\ MaxMishaps \in Nat /\ MaxRestarts \in Nat
        BY BrokerAssumption
      <3>4. consecutiveFailures \in 0..TripAt /\ mishaps \in 0..MaxMishaps
            /\ brokerRestarts \in 0..MaxRestarts
        BY <3>2, <3>3
      <3> QED
        BY <3>1, <3>4 DEF ClientOK
    <2>2. Broker!Init => connected \in BOOLEAN
      BY Zenon DEF Broker!Init
    <2> QED
      BY <2>1, <2>2, BrokerInit, InitBook
  <1>2. BrokerIInv /\ BookOK /\ ClientOK /\ [Broker!Next]_(Broker!brokerVars)
            => (BrokerIInv /\ BookOK /\ ClientOK)'
    BY NextIInv, NextBook, ClientKeeps
  <1>3. connected \in BOOLEAN /\ [Broker!Next]_(Broker!brokerVars) => (connected \in BOOLEAN)'
    BY ConnectedKeeps
  <1>4. BrokerIInv /\ BookOK /\ ClientOK /\ connected \in BOOLEAN => Broker!TypeOK
    BY BookBounded DEF BrokerIInv, BrokerTypes, Fates, ClientOK, Broker!TypeOK
  <1> QED
    BY <1>1, <1>2, <1>3, <1>4, PTL DEF Broker!Spec
=============================================================================
