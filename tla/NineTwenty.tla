----------------------------- MODULE NineTwenty -----------------------------
(***************************************************************************)
(* The latches of the 9:20 straddle for one symbol, and the signals they   *)
(* allow (strategy/nine_twenty.go).  Evaluate signals; the runner confirms *)
(* what was really filled.  Runner is the only caller and orders the calls.*)
(*                                                                         *)
(* A trading day is cut where a rule changes; instants count on from day   *)
(* to day.  The premium of a straddle decides only whether its stop is     *)
(* hit, which the caller says.                                             *)
(***************************************************************************)
EXTENDS Integers

CONSTANT Horizon  \* bound: the last instant

ASSUME NineTwentyAssumption == Horizon \in Nat

Instants == 0..Horizon

\* Parts of a day: before the open, the entry window, the rest of the session,
\* after the strategy's square-off time, after the runner's, after the close.
PartsOfDay == <<"pre-open", "window", "session", "late", "square-off", "closed">>
Part(now) == PartsOfDay[(now % 6) + 1]
Day(now) == (now \div 6) + 1

Latch == [entered : BOOLEAN, pendingExit : BOOLEAN, signaledEntry : BOOLEAN,
          lastDate : 0..Day(Horizon)]
NoLatch == [entered |-> FALSE, pendingExit |-> FALSE, signaledEntry |-> FALSE, lastDate |-> 0]

\* Evaluate first forgets the latches of another day.
Today(l, now) == IF l.lastDate = Day(now) THEN l ELSE [NoLatch EXCEPT !.lastDate = Day(now)]

\* The engine's book and the strategy's own latch both count.
InPosition(l, hasPosition) == hasPosition \/ l.entered

SignalsEntry(l, hasPosition, now) ==
    /\ ~InPosition(l, hasPosition)
    /\ ~l.signaledEntry
    /\ Part(now) = "window"

SignalsExit(l, hasPosition, now, stopHit) ==
    /\ InPosition(l, hasPosition)
    /\ ~l.pendingExit
    /\ stopHit \/ Part(now) \in {"late", "square-off", "closed"}

EntrySignaled(l) == [l EXCEPT !.signaledEntry = TRUE]
ExitSignaled(l) == [l EXCEPT !.pendingExit = TRUE]

ConfirmEntry(l) == [l EXCEPT !.entered = TRUE, !.signaledEntry = FALSE]
ConfirmExit(l) == [l EXCEPT !.entered = FALSE, !.pendingExit = FALSE]

\* A day that was not saved is not restored.
Restore(saved, l) == [saved EXCEPT !.lastDate = IF @ = 0 THEN l.lastDate ELSE @]

\* Snapshot is saved one key at a time, and each write may fail on its own.
SavedInPart(old, new) ==
    {l \in Latch : \A field \in DOMAIN l : l[field] \in {old[field], new[field]}}
=============================================================================
