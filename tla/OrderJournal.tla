---------------------------- MODULE OrderJournal ----------------------------
(***************************************************************************)
(* What the durable order-attempt journal of the engine promises, without  *)
(* the engine: models.OrderAttempt's "intent then resolution" trail        *)
(* (models/trade.go) against what the exchange really did.                 *)
(*                                                                         *)
(*   - an entry order reaches the exchange only after its intent row is    *)
(*     durable; an exit may go out unrecorded, because a flatten is never  *)
(*     blocked by a failed write;                                          *)
(*   - a row is resolved as filled, partial or rejected only once the      *)
(*     exchange is done with the order, with the quantity that filled;     *)
(*   - anything less certain is recorded as indeterminate.                 *)
(*                                                                         *)
(* There are no threads, calls, crashes or risk state here: TradingEngine  *)
(* adds them and implements this module.                                   *)
(***************************************************************************)
EXTENDS Integers

CONSTANTS
    MaxOrders,  \* bound on the client order ids issued
    MaxQty      \* largest order quantity

Orders == 1..MaxOrders
Kinds == {"entry", "exit"}

VARIABLES
    kind,      \* why each issued id's order is placed; "none" while unissued
    attempts,  \* the order_attempts table: status and filled_quantity by id
    exch       \* the exchange's own order book, which nobody here can read

vars == <<kind, attempts, exch>>

(***************************************************************************)
(* Statuses.  "none" stands for "there is no such row".                    *)
(***************************************************************************)
Final == {"filled", "partial", "rejected"}
Unresolved == {"intent", "indeterminate"}
AttemptRow == [st : {"none"} \cup Unresolved \cup Final, filled : 0..MaxQty]
ExchangeOrder == [st : {"none", "live", "done"}, filled : 0..MaxQty]

NoAttempt == [st |-> "none", filled |-> 0]
NoOrder == [st |-> "none", filled |-> 0]

Init ==
    /\ kind = [id \in Orders |-> "none"]
    /\ attempts = [id \in Orders |-> NoAttempt]
    /\ exch = [id \in Orders |-> NoOrder]

-----------------------------------------------------------------------------
\* A new client order id is taken into use, with its intent row.
Record(id, k) ==
    /\ kind[id] = "none"
    /\ kind' = [kind EXCEPT ![id] = k]
    /\ attempts' = [attempts EXCEPT ![id].st = "intent"]
    /\ UNCHANGED exch

\* An exit whose intent row could not be written goes ahead without one.
Issue(id) ==
    /\ kind[id] = "none"
    /\ kind' = [kind EXCEPT ![id] = "exit"]
    /\ UNCHANGED <<attempts, exch>>

\* The intent row of an id already in use is written.
RecordLate(id) ==
    /\ kind[id] = "exit"
    /\ attempts[id].st = "none"
    /\ exch[id].st = "none"
    /\ attempts' = [attempts EXCEPT ![id].st = "intent"]
    /\ UNCHANGED <<kind, exch>>

\* The order reaches the exchange: write-ahead for entries.
Accept(id) ==
    /\ exch[id].st = "none"
    /\ \/ attempts[id].st = "intent"
       \/ attempts[id].st = "none" /\ kind[id] = "exit"
    /\ exch' = [exch EXCEPT ![id].st = "live"]
    /\ UNCHANGED <<kind, attempts>>

Fill(id) ==
    /\ exch[id].st = "live"
    /\ \E n \in (exch[id].filled + 1)..MaxQty, st \in {"live", "done"} :
          exch' = [exch EXCEPT ![id] = [st |-> st, filled |-> n]]
    /\ UNCHANGED <<kind, attempts>>

Stop(id) ==
    /\ exch[id].st = "live"
    /\ exch' = [exch EXCEPT ![id].st = "done"]
    /\ UNCHANGED <<kind, attempts>>

\* The outcome is recorded, and it is the truth.
Resolve(id) ==
    /\ attempts[id].st = "intent"
    /\ exch[id].st # "live"
    /\ \E st \in Final :
          /\ (st = "rejected") <=> (exch[id].filled = 0)
          /\ attempts' = [attempts EXCEPT ![id] =
                              [st |-> st, filled |-> exch[id].filled]]
    /\ UNCHANGED <<kind, exch>>

MarkIndeterminate(id) ==
    /\ attempts[id].st = "intent"
    /\ attempts' = [attempts EXCEPT ![id].st = "indeterminate"]
    /\ UNCHANGED <<kind, exch>>

Next ==
    \E id \in Orders :
        \/ \E k \in Kinds : Record(id, k)
        \/ Issue(id) \/ RecordLate(id)
        \/ Accept(id) \/ Fill(id) \/ Stop(id)
        \/ Resolve(id) \/ MarkIndeterminate(id)

Spec == Init /\ [][Next]_vars

-----------------------------------------------------------------------------
TypeOK ==
    /\ kind \in [Orders -> Kinds \cup {"none"}]
    /\ attempts \in [Orders -> AttemptRow]
    /\ exch \in [Orders -> ExchangeOrder]

(***************************************************************************)
(* A resolved row never lies: the exchange is done with the order, or      *)
(* never had it, and the recorded quantity is the quantity that filled.    *)
(***************************************************************************)
JournalTruthful ==
    \A id \in Orders :
        attempts[id].st \in Final =>
            /\ exch[id].st # "live"
            /\ attempts[id].filled = exch[id].filled
=============================================================================
