------------------------ MODULE TradingEngineProofs ------------------------
(***************************************************************************)
(* Proofs about TradingEngine, for every value of its constants.           *)
(*                                                                         *)
(* The safety invariants are not inductive as they stand: that a resolved  *)
(* attempt is truthful rests on what the thread about to resolve it knows  *)
(* of the exchange at its stage, on two threads never working on one order *)
(* and on fresh ids being unused.  IInv says so; it is shown to be         *)
(* inductive one action at a time, and the theorems after it follow.       *)
(*                                                                         *)
(* That the three books agree takes two more: RowsOK, who may write a row  *)
(* of the positions table, and BooksOK, by how much the books of a symbol  *)
(* differ at each stage of a call.  That exits reverse nothing takes what  *)
(* the exchange may still sell after a crash (CoverOK).  That positions    *)
(* are durable rests on BackedOK, which row or attempt backs a position    *)
(* while a call runs.                                                      *)
(***************************************************************************)
EXTENDS TradingEngine, Sums

\* The thread is in an engine call.
Active(t) == call[t].at # "idle"

NoRow == [st |-> "none", filled |-> 0]

\* An id that was not issued has no order, no attempt and no exchange order.
FreshOK ==
    \A id \in Orders : id > issued =>
        /\ order[id].kind = "none"
        /\ attempts[id] = NoRow
        /\ exch[id] = NoRow

\* A call in progress has an issued order of its own.
CallsOK ==
    /\ \A t \in Threads : Active(t) => 
          /\ Id(t) \in 1..issued
          /\ order[Id(t)].kind \in {"entry", "exit"}
          /\ Sym(t) \in Symbols
          /\ up
    /\ \A t, u \in Threads : Active(t) /\ Active(u) /\ Id(t) = Id(u) => t = u

\* What a call knows of its attempt and of the exchange at each stage.
StageOK(t) ==
    /\ call[t].at = "open" => order[Id(t)].kind = "entry"
    /\ call[t].at = "record" =>
          /\ order[Id(t)].kind = "exit"
          /\ attempts[Id(t)].st = "none"
    /\ call[t].at \in {"record", "open", "send"} => exch[Id(t)] = NoRow
    /\ call[t].at \in {"open", "send", "wait", "resolve", "reject", "unknown"} =>
          \/ attempts[Id(t)].st = "intent"
          \/ /\ attempts[Id(t)].st = "none"
             /\ order[Id(t)].kind = "exit"
             /\ Sym(t) \in alerted
    /\ call[t].at \in {"resolve", "row"} =>
          exch[Id(t)].st = "done" /\ exch[Id(t)].filled > 0
    /\ call[t].at = "reject" => exch[Id(t)].st # "live" /\ exch[Id(t)].filled = 0
    /\ call[t].at = "unknown" => exch[Id(t)].st # "none"

StagesOK == \A t \in Threads : Active(t) => StageOK(t)

\* JournalTruthful and NoLostOrder for one order, and: nothing is recorded
\* as filled before the outcome is known.
OrderOK(id) ==
    /\ attempts[id].st \in {"none"} \cup Unresolved => attempts[id].filled = 0
    /\ attempts[id].st \in Final =>
         exch[id].st # "live" /\ attempts[id].filled = exch[id].filled
    /\ exch[id].st = "live" =>
         \/ attempts[id].st \in Unresolved
         \/ order[id].kind = "exit" /\ order[id].sym \in alerted

\* The inductive invariant.
IInv ==
    /\ TypeOK
    /\ FreshOK
    /\ CallsOK
    /\ StagesOK
    /\ \A id \in Orders : OrderOK(id)
    /\ OneExitPerSymbol

-----------------------------------------------------------------------------
\* What a call in progress may rely on: its order is one of the issued ids
\* and every book has a row of the right shape for it.
LEMMA CallFacts ==
  ASSUME TypeOK, CallsOK, NEW t \in Threads, Active(t)
  PROVE  /\ Id(t) \in Orders /\ Id(t) \in 1..issued /\ Sym(t) \in Symbols /\ Qty(t) \in 0..MaxQty
         /\ order[Id(t)] \in Ask /\ attempts[Id(t)] \in Attempt
         /\ positions[Id(t)] \in Row /\ exch[Id(t)] \in ExchangeOrder
         /\ call[t] \in Call /\ Id(t) = call[t].id
         /\ Sym(t) = order[Id(t)].sym /\ Qty(t) = order[Id(t)].qty
BY TradingEngineAssumption DEF TypeOK, CallsOK, Id, Sym, Qty, Orders, Ask

\* Only a call in progress of a running process moves.
LEMMA StepActive ==
  ASSUME NEW t \in Threads, CallStep(t)
  PROVE  Active(t) /\ up
BY DEF CallStep, EntryStep, ExitStep, Active, At, OpenRisk, MarginLockFails, EntryFilled,
       EntryFailed, ResolveEntry, SaveEntry, RecordExit, ExitFilled, ExitFailed,
       ResolveExit, CloseExit, Send, OutcomeUnknown, MarkUnfilled

\* A step of a call keeps the types (engine.go between two broker or
\* database calls).
LEMMA CallStepType ==
  ASSUME IInv, NEW t \in Threads, CallStep(t)
  PROVE  TypeOK'
<1>facts. /\ TypeOK /\ CallsOK /\ Active(t) /\ up
          /\ Id(t) \in Orders /\ Sym(t) \in Symbols /\ Qty(t) \in 0..MaxQty
          /\ attempts[Id(t)] \in Attempt /\ exch[Id(t)] \in ExchangeOrder
          /\ call[t] \in Call /\ Id(t) = call[t].id
  <2>1. TypeOK /\ CallsOK
    BY DEF IInv
  <2>2. Active(t) /\ up
    BY StepActive
  <2> QED
    BY <2>1, <2>2, CallFacts
<1>goto. \A stage \in Stages : Goto(t, stage) => call' \in [Threads -> Call]
  <2> SUFFICES ASSUME NEW stage \in Stages, Goto(t, stage) PROVE call' \in [Threads -> Call]
    OBVIOUS
  <2>1. [call[t] EXCEPT !.at = stage] \in Call
    BY <1>facts DEF Call
  <2>2. call' = [call EXCEPT ![t] = [call[t] EXCEPT !.at = stage]]
    BY DEF Goto
  <2> QED
    BY <2>1, <2>2, <1>facts DEF TypeOK
<1>return. Return(t) => call' \in [Threads -> Call]
  <2>1. Idle \in Call
    BY TradingEngineAssumption DEF Idle, Call, Stages
  <2> QED
    BY <2>1, <1>facts DEF Return, TypeOK
<1>fails. /\ StoreFails => crashes' \in 0..MaxCrashes /\ faults' \in 0..MaxFaults
          /\ UNCHANGED bounds => crashes' \in 0..MaxCrashes /\ faults' \in 0..MaxFaults
  BY <1>facts, TradingEngineAssumption DEF StoreFails, bounds, TypeOK
<1>stages. {"idle", "record", "open", "send", "wait", "resolve", "reject", "unknown", "row"}
             \subseteq Stages
  BY DEF Stages
<1>row. /\ \A st \in Final : [st |-> st, filled |-> exch[Id(t)].filled] \in Attempt
        /\ \A st \in Final \cup Unresolved : [st |-> st, filled |-> 0] \in Attempt
        /\ [attempts[Id(t)] EXCEPT !.st = "intent"] \in Attempt
        /\ [exch[Id(t)] EXCEPT !.st = "live"] \in ExchangeOrder
        /\ exch[Id(t)].filled \in 0..MaxQty
        /\ {"filled", "partial", "rejected"} \subseteq Final
        /\ "indeterminate" \in Unresolved
  BY <1>facts, TradingEngineAssumption DEF Attempt, ExchangeOrder, Final, Unresolved
<1>1. CASE OpenRisk(t)
  <2>1. call' \in [Threads -> Call]
    BY <1>1, <1>goto, <1>stages DEF OpenRisk
  <2>2. openPositions' \in [Symbols -> 0..MaxQty] /\ suspect' \subseteq Symbols
    BY <1>1, <1>facts DEF OpenRisk, TypeOK
  <2> QED
    BY <1>1, <2>1, <2>2, <1>facts DEF OpenRisk, TypeOK, memory, durable, history, bounds
<1>2. CASE MarginLockFails(t)
  <2>1. call' \in [Threads -> Call]
    BY <1>2, <1>return DEF MarginLockFails
  <2> QED
    BY <1>2, <2>1, <1>facts DEF MarginLockFails, TypeOK, memory, durable, history, bounds
<1>3. CASE EntryFilled(t)
  <2>1. call' \in [Threads -> Call]
    BY <1>3, <1>goto, <1>stages DEF EntryFilled
  <2>2. openPositions' \in [Symbols -> 0..MaxQty]
    BY <1>3, <1>facts, <1>row, TradingEngineAssumption DEF EntryFilled, TypeOK
  <2> QED
    BY <1>3, <2>1, <2>2, <1>facts DEF EntryFilled, TypeOK, memory, durable, history, bounds
<1>4. CASE EntryFailed(t)
  <2>1. call' \in [Threads -> Call]
    BY <1>4, <1>goto, <1>stages DEF EntryFailed
  <2>2. openPositions' \in [Symbols -> 0..MaxQty]
    BY <1>4, <1>facts, TradingEngineAssumption DEF EntryFailed, TypeOK
  <2> QED
    BY <1>4, <2>1, <2>2, <1>facts DEF EntryFailed, TypeOK, memory, durable, history, bounds
<1>5. CASE ResolveEntry(t)
  <2>1. call' \in [Threads -> Call]
    BY <1>5, <1>goto, <1>stages DEF ResolveEntry
  <2>2. attempts' \in [Orders -> Attempt]
    BY <1>5, <1>facts, <1>row DEF ResolveEntry, TypeOK
  <2>3. faults' \in 0..MaxFaults /\ crashes' \in 0..MaxCrashes
    BY <1>5, <1>fails DEF ResolveEntry
  <2> QED
    BY <1>5, <2>1, <2>2, <2>3, <1>facts DEF ResolveEntry, TypeOK, memory, durable, history, bounds
<1>6. CASE SaveEntry(t)
  <2>1. call' \in [Threads -> Call]
    BY <1>6, <1>return DEF SaveEntry
  <2>2. positions' \in [Orders -> Row]
    BY <1>6, <1>facts, <1>row DEF SaveEntry, TypeOK, Row
  <2>3. alerted' \subseteq Symbols
    BY <1>6, <1>facts DEF SaveEntry, TypeOK
  <2>4. faults' \in 0..MaxFaults /\ crashes' \in 0..MaxCrashes
    BY <1>6, <1>fails DEF SaveEntry, bounds
  <2> QED
    BY <1>6, <2>1, <2>2, <2>3, <2>4, <1>facts DEF SaveEntry, TypeOK, memory, durable, history,
       bounds
<1>7. CASE RecordExit(t)
  <2>1. call' \in [Threads -> Call]
    BY <1>7, <1>goto, <1>stages DEF RecordExit
  <2>2. attempts' \in [Orders -> Attempt]
    BY <1>7, <1>facts, <1>row DEF RecordExit, TypeOK
  <2>3. alerted' \subseteq Symbols
    BY <1>7, <1>facts DEF RecordExit, TypeOK
  <2>4. faults' \in 0..MaxFaults /\ crashes' \in 0..MaxCrashes
    BY <1>7, <1>fails DEF RecordExit, bounds
  <2> QED
    BY <1>7, <2>1, <2>2, <2>3, <2>4, <1>facts DEF RecordExit, TypeOK, memory, durable, history,
       bounds
<1>8. CASE ExitFilled(t)
  <2>1. call' \in [Threads -> Call]
    BY <1>8, <1>goto, <1>stages DEF ExitFilled
  <2>2. openPositions' \in [Symbols -> 0..MaxQty]
    BY <1>8, <1>facts, TradingEngineAssumption DEF ExitFilled, TypeOK
  <2>3. alerted' \subseteq Symbols /\ suspect' \subseteq Symbols
    BY <1>8, <1>facts DEF ExitFilled, TypeOK
  <2> QED
    BY <1>8, <2>1, <2>2, <2>3, <1>facts DEF ExitFilled, TypeOK, memory, durable, history, bounds
<1>9. CASE ExitFailed(t)
  <2>1. call' \in [Threads -> Call]
    BY <1>9, <1>goto, <1>stages DEF ExitFailed
  <2> QED
    BY <1>9, <2>1, <1>facts DEF ExitFailed, TypeOK, memory, durable, history, bounds
<1>10. CASE ResolveExit(t)
  <2>1. call' \in [Threads -> Call]
    BY <1>10, <1>goto, <1>stages DEF ResolveExit
  <2>2. attempts' \in [Orders -> Attempt]
    BY <1>10, <1>facts, <1>row DEF ResolveExit, TypeOK
  <2>3. faults' \in 0..MaxFaults /\ crashes' \in 0..MaxCrashes
    BY <1>10, <1>fails DEF ResolveExit, bounds
  <2> QED
    BY <1>10, <2>1, <2>2, <2>3, <1>facts DEF ResolveExit, TypeOK, memory, durable, history, bounds
<1>11. CASE CloseExit(t)
  <2>1. call[t].row # 0 => call[t].row \in Orders
    BY <1>facts, TradingEngineAssumption DEF Call, Orders
  <2>2. \A r \in Orders : [positions[r] EXCEPT !.st = "closed"] \in Row
    BY <1>facts DEF TypeOK, Row
  <2>3. positions' \in [Orders -> Row]
    BY <2>1, <2>2, <1>11, <1>facts DEF CloseExit, TypeOK
  <2>4. call' \in [Threads -> Call]
    BY <1>11, <1>return DEF CloseExit
  <2>5. alerted' \subseteq Symbols
    BY <1>11, <1>facts DEF CloseExit, TypeOK
  <2>6. suspect' \subseteq Symbols
    BY <1>11, <1>facts DEF CloseExit, TypeOK
  <2>7. exitInFlight' \subseteq Symbols
    BY <1>11, <1>facts DEF CloseExit, TypeOK, Release
  <2>8. faults' \in 0..MaxFaults /\ crashes' \in 0..MaxCrashes
    BY <1>11, <1>fails DEF CloseExit, bounds
  <2> QED
    BY <1>11, <2>3, <2>4, <2>5, <2>6, <2>7, <2>8, <1>facts DEF CloseExit, TypeOK, memory,
       durable, history, bounds
<1>12. CASE Send(t)
  <2>1. call' \in [Threads -> Call]
    BY <1>12, <1>goto, <1>stages DEF Send
  <2>2. exch' \in [Orders -> ExchangeOrder]
    BY <1>12, <1>facts, <1>row DEF Send, TypeOK
  <2> QED
    BY <1>12, <2>1, <2>2, <1>facts DEF Send, TypeOK, memory, durable, history, bounds
<1>13. CASE OutcomeUnknown(t)
  <2>1. call' \in [Threads -> Call]
    BY <1>13, <1>goto, <1>stages DEF OutcomeUnknown
  <2>2. suspect' \subseteq Symbols
    BY <1>13, <1>facts DEF OutcomeUnknown, TypeOK
  <2> QED
    BY <1>13, <2>1, <2>2, <1>facts DEF OutcomeUnknown, TypeOK, memory, durable, history, bounds
<1>14. CASE MarkUnfilled(t)
  <2>1. call' \in [Threads -> Call]
    BY <1>14, <1>return DEF MarkUnfilled
  <2>2. attempts' \in [Orders -> Attempt]
    BY <1>14, <1>facts, <1>row DEF MarkUnfilled, TypeOK
  <2>3. exitInFlight' \subseteq Symbols
    BY <1>14, <1>facts DEF MarkUnfilled, TypeOK
  <2>4. faults' \in 0..MaxFaults /\ crashes' \in 0..MaxCrashes
    BY <1>14, <1>fails DEF MarkUnfilled, bounds
  <2> QED
    BY <1>14, <2>1, <2>2, <2>3, <2>4, <1>facts DEF MarkUnfilled, TypeOK, memory, durable,
       history, bounds
<1> QED
    BY <1>1, <1>2, <1>3, <1>4, <1>5, <1>6, <1>7, <1>8, <1>9, <1>10, <1>11, <1>12, <1>13, <1>14
       DEF CallStep, EntryStep, ExitStep

\* A step of a call touches its own order only: other threads' calls,
\* other attempts and other exchange orders stay, and alerts accumulate.
LEMMA CallStepFrame ==
  ASSUME IInv, NEW t \in Threads, CallStep(t)
  PROVE  /\ up' /\ issued' = issued /\ order' = order
         /\ \A u \in Threads \ {t} : call'[u] = call[u]
         /\ \A id \in Orders \ {Id(t)} : attempts'[id] = attempts[id] /\ exch'[id] = exch[id]
         /\ alerted \subseteq alerted'
         /\ call'[t].at # "idle" => call'[t].id = call[t].id
<1>facts. /\ TypeOK /\ CallsOK /\ Active(t) /\ up
          /\ Id(t) \in Orders /\ Sym(t) \in Symbols /\ Qty(t) \in 0..MaxQty
          /\ attempts[Id(t)] \in Attempt /\ exch[Id(t)] \in ExchangeOrder
          /\ call[t] \in Call /\ Id(t) = call[t].id
  <2>1. TypeOK /\ CallsOK
    BY DEF IInv
  <2>2. Active(t) /\ up
    BY StepActive
  <2> QED
    BY <2>1, <2>2, CallFacts
<1>1. CASE OpenRisk(t)
    BY <1>1, <1>facts DEF OpenRisk, At, Goto, TypeOK, Call, Idle, durable
<1>2. CASE MarginLockFails(t)
    BY <1>2, <1>facts DEF MarginLockFails, At, Return, TypeOK, Call, Idle, durable
<1>3. CASE EntryFilled(t)
    BY <1>3, <1>facts DEF EntryFilled, At, Goto, TypeOK, Call, Idle, durable
<1>4. CASE EntryFailed(t)
    BY <1>4, <1>facts DEF EntryFailed, At, Goto, TypeOK, Call, Idle, durable
<1>5. CASE ResolveEntry(t)
    BY <1>5, <1>facts DEF ResolveEntry, At, Goto, StoreFails, TypeOK, Call, Idle, durable
<1>6. CASE SaveEntry(t)
    BY <1>6, <1>facts DEF SaveEntry, At, Return, StoreFails, TypeOK, Call, Idle, durable
<1>7. CASE RecordExit(t)
    BY <1>7, <1>facts DEF RecordExit, At, Goto, StoreFails, TypeOK, Call, Idle, durable
<1>8. CASE ExitFilled(t)
    BY <1>8, <1>facts DEF ExitFilled, At, Goto, TypeOK, Call, Idle, durable
<1>9. CASE ExitFailed(t)
    BY <1>9, <1>facts DEF ExitFailed, At, Goto, TypeOK, Call, Idle, durable
<1>10. CASE ResolveExit(t)
    BY <1>10, <1>facts DEF ResolveExit, At, Goto, StoreFails, TypeOK, Call, Idle, durable
<1>11. CASE CloseExit(t)
    BY <1>11, <1>facts DEF CloseExit, At, Release, Return, StoreFails, TypeOK, Call, Idle, durable
<1>12. CASE Send(t)
    BY <1>12, <1>facts DEF Send, Goto, TypeOK, Call, Idle, durable
<1>13. CASE OutcomeUnknown(t)
    BY <1>13, <1>facts DEF OutcomeUnknown, Goto, TypeOK, Call, Idle, durable
<1>14. CASE MarkUnfilled(t)
    BY <1>14, <1>facts DEF MarkUnfilled, Return, StoreFails, TypeOK, Call, Idle, durable
<1> QED
    BY <1>1, <1>2, <1>3, <1>4, <1>5, <1>6, <1>7, <1>8, <1>9, <1>10, <1>11, <1>12, <1>13, <1>14
       DEF CallStep, EntryStep, ExitStep

\* A step of a call leaves it where its next stage expects the journal and
\* the exchange to be.
LEMMA CallStepStage ==
  ASSUME IInv, NEW t \in Threads, CallStep(t)
  PROVE  Active(t)' => StageOK(t)'
<1>facts. /\ TypeOK /\ CallsOK /\ Active(t) /\ up
          /\ Id(t) \in Orders /\ Sym(t) \in Symbols /\ Qty(t) \in 0..MaxQty
          /\ attempts[Id(t)] \in Attempt /\ exch[Id(t)] \in ExchangeOrder
          /\ call[t] \in Call /\ Id(t) = call[t].id
  <2>1. TypeOK /\ CallsOK
    BY DEF IInv
  <2>2. Active(t) /\ up
    BY StepActive
  <2> QED
    BY <2>1, <2>2, CallFacts
<1>stage. StageOK(t)
    BY <1>facts DEF IInv, StagesOK
<1>own. order' = order /\ (Active(t)' => Id(t)' = Id(t) /\ Sym(t)' = Sym(t)) /\ alerted \subseteq alerted'
    BY CallStepFrame DEF Active, Id, Sym
<1>1. CASE OpenRisk(t)
    BY <1>1, <1>facts, <1>stage, <1>own DEF OpenRisk, At, Goto, TypeOK, StageOK, Active, Idle,
       NoRow, durable
<1>2. CASE MarginLockFails(t)
    BY <1>2, <1>facts, <1>stage, <1>own DEF MarginLockFails, At, Return, TypeOK, StageOK, Active,
       Idle, NoRow, durable
<1>3. CASE EntryFilled(t)
    BY <1>3, <1>facts, <1>stage, <1>own DEF EntryFilled, At, Goto, TypeOK, StageOK, Active, Idle,
       NoRow, durable
<1>4. CASE EntryFailed(t)
    BY <1>4, <1>facts, <1>stage, <1>own DEF EntryFailed, At, Goto, TypeOK, StageOK, Active, Idle,
       NoRow, durable
<1>5. CASE ResolveEntry(t)
    BY <1>5, <1>facts, <1>stage, <1>own DEF ResolveEntry, At, Goto, StoreFails, TypeOK, StageOK,
       Active, Idle, NoRow, durable
<1>6. CASE SaveEntry(t)
    BY <1>6, <1>facts, <1>stage, <1>own DEF SaveEntry, At, Return, StoreFails, TypeOK, StageOK,
       Active, Idle, NoRow, durable
<1>7. CASE RecordExit(t)
  <2>1. call'[t].at = "send" /\ exch' = exch /\ order[Id(t)].kind = "exit" /\ attempts[Id(t)].st = "none"
    BY <1>7, <1>facts, <1>stage DEF RecordExit, At, Goto, TypeOK, StageOK
  <2>2. attempts'[Id(t)].st = "intent" \/ (attempts'[Id(t)] = attempts[Id(t)] /\ Sym(t) \in alerted')
    BY <1>7, <1>facts DEF RecordExit, TypeOK, Attempt
  <2> QED
    BY <2>1, <2>2, <1>7, <1>facts, <1>stage, <1>own DEF StageOK, Active, At, RecordExit
<1>8. CASE ExitFilled(t)
    BY <1>8, <1>facts, <1>stage, <1>own DEF ExitFilled, At, Goto, TypeOK, StageOK, Active, Idle,
       NoRow, durable
<1>9. CASE ExitFailed(t)
    BY <1>9, <1>facts, <1>stage, <1>own DEF ExitFailed, At, Goto, TypeOK, StageOK, Active, Idle,
       NoRow, durable
<1>10. CASE ResolveExit(t)
    BY <1>10, <1>facts, <1>stage, <1>own DEF ResolveExit, At, Goto, StoreFails, TypeOK, StageOK,
       Active, Idle, NoRow, durable
<1>11. CASE CloseExit(t)
    BY <1>11, <1>facts, <1>stage, <1>own DEF CloseExit, At, Release, Return, StoreFails, TypeOK,
       StageOK, Active, Idle, NoRow, durable
<1>12. CASE Send(t)
    BY <1>12, <1>facts, <1>stage, <1>own DEF Send, Goto, TypeOK, StageOK, Active, Idle, NoRow,
       durable
<1>13. CASE OutcomeUnknown(t)
  <2>1. call'[t].at = "unknown" /\ exch' = exch /\ attempts' = attempts /\ exch[Id(t)].st # "none" /\ call[t].at = "wait"
    BY <1>13, <1>facts DEF OutcomeUnknown, Goto, TypeOK, durable
  <2> QED
    BY <2>1, <1>facts, <1>stage, <1>own DEF StageOK, Active
<1>14. CASE MarkUnfilled(t)
    BY <1>14, <1>facts, <1>stage, <1>own DEF MarkUnfilled, Return, StoreFails, TypeOK, StageOK,
       Active, Idle, NoRow, durable
<1> QED
    BY <1>1, <1>2, <1>3, <1>4, <1>5, <1>6, <1>7, <1>8, <1>9, <1>10, <1>11, <1>12, <1>13, <1>14
       DEF CallStep, EntryStep, ExitStep

\* A step of a call keeps its own order's journal row truthful.
LEMMA CallStepOrder ==
  ASSUME IInv, NEW t \in Threads, NEW id, id = Id(t), CallStep(t)
  PROVE  OrderOK(id)'
<1>facts. /\ TypeOK /\ CallsOK /\ Active(t) /\ up
          /\ Id(t) \in Orders /\ Sym(t) \in Symbols /\ Qty(t) \in 0..MaxQty
          /\ attempts[Id(t)] \in Attempt /\ exch[Id(t)] \in ExchangeOrder
          /\ call[t] \in Call /\ Id(t) = call[t].id
  <2>1. TypeOK /\ CallsOK
    BY DEF IInv
  <2>2. Active(t) /\ up
    BY StepActive
  <2> QED
    BY <2>1, <2>2, CallFacts
<1>stage. StageOK(t) /\ OrderOK(id) /\ Sym(t) = order[id].sym
    BY <1>facts DEF IInv, StagesOK, Sym
<1>own. order' = order /\ alerted \subseteq alerted'
    BY CallStepFrame
<1>1. CASE OpenRisk(t)
    BY <1>1, <1>facts, <1>stage, <1>own DEF OpenRisk, At, Goto, TypeOK, StageOK, OrderOK, Active,
       NoRow, Final, Unresolved, durable, Attempt, ExchangeOrder
<1>2. CASE MarginLockFails(t)
    BY <1>2, <1>facts, <1>stage, <1>own DEF MarginLockFails, At, Return, TypeOK, StageOK,
       OrderOK, Active, NoRow, Final, Unresolved, durable, Attempt, ExchangeOrder
<1>3. CASE EntryFilled(t)
    BY <1>3, <1>facts, <1>stage, <1>own DEF EntryFilled, At, Goto, TypeOK, StageOK, OrderOK,
       Active, NoRow, Final, Unresolved, durable, Attempt, ExchangeOrder
<1>4. CASE EntryFailed(t)
    BY <1>4, <1>facts, <1>stage, <1>own DEF EntryFailed, At, Goto, TypeOK, StageOK, OrderOK,
       Active, NoRow, Final, Unresolved, durable, Attempt, ExchangeOrder
<1>5. CASE ResolveEntry(t)
    BY <1>5, <1>facts, <1>stage, <1>own DEF ResolveEntry, At, Goto, StoreFails, TypeOK, StageOK,
       OrderOK, Active, NoRow, Final, Unresolved, durable, Attempt, ExchangeOrder
<1>6. CASE SaveEntry(t)
    BY <1>6, <1>facts, <1>stage, <1>own DEF SaveEntry, At, Return, StoreFails, TypeOK, StageOK,
       OrderOK, Active, NoRow, Final, Unresolved, durable, Attempt, ExchangeOrder
<1>7. CASE RecordExit(t)
    BY <1>7, <1>facts, <1>stage, <1>own DEF RecordExit, At, Goto, StoreFails, TypeOK, StageOK,
       OrderOK, Active, NoRow, Final, Unresolved, durable, Attempt, ExchangeOrder
<1>8. CASE ExitFilled(t)
    BY <1>8, <1>facts, <1>stage, <1>own DEF ExitFilled, At, Goto, TypeOK, StageOK, OrderOK,
       Active, NoRow, Final, Unresolved, durable, Attempt, ExchangeOrder
<1>9. CASE ExitFailed(t)
    BY <1>9, <1>facts, <1>stage, <1>own DEF ExitFailed, At, Goto, TypeOK, StageOK, OrderOK,
       Active, NoRow, Final, Unresolved, durable, Attempt, ExchangeOrder
<1>10. CASE ResolveExit(t)
    BY <1>10, <1>facts, <1>stage, <1>own DEF ResolveExit, At, Goto, StoreFails, TypeOK, StageOK,
       OrderOK, Active, NoRow, Final, Unresolved, durable, Attempt, ExchangeOrder
<1>11. CASE CloseExit(t)
    BY <1>11, <1>facts, <1>stage, <1>own DEF CloseExit, At, Release, Return, StoreFails, TypeOK,
       StageOK, OrderOK, Active, NoRow, Final, Unresolved, durable, Attempt, ExchangeOrder
<1>12. CASE Send(t)
    BY <1>12, <1>facts, <1>stage, <1>own DEF Send, Goto, TypeOK, StageOK, OrderOK, Active, NoRow,
       Final, Unresolved, durable, Attempt, ExchangeOrder
<1>13. CASE OutcomeUnknown(t)
    BY <1>13, <1>facts, <1>stage, <1>own DEF OutcomeUnknown, Goto, TypeOK, StageOK, OrderOK,
       Active, NoRow, Final, Unresolved, durable, Attempt, ExchangeOrder
<1>14. CASE MarkUnfilled(t)
    BY <1>14, <1>facts, <1>stage, <1>own DEF MarkUnfilled, Return, StoreFails, TypeOK, StageOK,
       OrderOK, Active, NoRow, Final, Unresolved, durable, Attempt, ExchangeOrder
<1> QED
    BY <1>1, <1>2, <1>3, <1>4, <1>5, <1>6, <1>7, <1>8, <1>9, <1>10, <1>11, <1>12, <1>13, <1>14
       DEF CallStep, EntryStep, ExitStep

\* A step of a call keeps exits exclusive: an exit gives up its mark
\* exactly when it returns (the deferred delete of PlaceExitOrder).
LEMMA CallStepExits ==
  ASSUME IInv, NEW t \in Threads, CallStep(t)
  PROVE  OneExitPerSymbol'
<1>facts. /\ TypeOK /\ CallsOK /\ StagesOK /\ Active(t)
          /\ Sym(t) \in Symbols /\ OneExitPerSymbol
          /\ call \in [Threads -> Call] /\ \A u \in Threads : DOMAIN call[u] = {"at", "id", "row"}
  BY StepActive, CallFacts DEF IInv, TypeOK, Call
<1>frame. /\ order' = order
          /\ \A u \in Threads \ {t} : call'[u] = call[u]
          /\ call'[t].at # "idle" => call'[t].id = call[t].id
  BY CallStepFrame
<1>1. \A u \in Threads, s \in Symbols : u # t => (Exiting(u, s)' <=> Exiting(u, s))
  BY <1>frame DEF Exiting, CallOn, Id
<1>2. \A s \in Symbols : Exiting(t, s) <=> order[Id(t)].kind = "exit" /\ s = Sym(t)
  BY <1>facts DEF Exiting, CallOn, Active, Sym, Id
<1>3. \A s \in Symbols : Exiting(t, s)' <=> Exiting(t, s) /\ call'[t].at # "idle"
  BY <1>facts, <1>frame DEF Exiting, CallOn, Id, Active
<1>4. exitInFlight' = IF order[Id(t)].kind = "exit" /\ call'[t].at = "idle"
                      THEN exitInFlight \ {Sym(t)} ELSE exitInFlight
  <2>1. ASSUME EntryStep(t) PROVE order[Id(t)].kind = "entry" /\ exitInFlight' = exitInFlight
    BY <2>1 DEF EntryStep, At, Id, OpenRisk, MarginLockFails, EntryFilled, EntryFailed,
                ResolveEntry, SaveEntry, memory
  <2>2. ASSUME ExitStep(t)
        PROVE  \/ call'[t].at # "idle" /\ exitInFlight' = exitInFlight
               \/ /\ order[Id(t)].kind = "exit" /\ call'[t].at = "idle"
                  /\ exitInFlight' = exitInFlight \ {Sym(t)}
    <3>1. CASE RecordExit(t)
      BY <3>1, <1>facts DEF RecordExit, Goto, memory
    <3>2. CASE ExitFilled(t)
      BY <3>2, <1>facts DEF ExitFilled, Goto
    <3>3. CASE ExitFailed(t)
      BY <3>3, <1>facts DEF ExitFailed, Goto, memory
    <3>4. CASE ResolveExit(t)
      BY <3>4, <1>facts DEF ResolveExit, Goto, memory
    <3>5. CASE CloseExit(t)
      BY <3>5, <1>facts DEF CloseExit, At, Id, Release, Return, Idle
    <3> QED
      BY <2>2, <3>1, <3>2, <3>3, <3>4, <3>5 DEF ExitStep
  <2>3. ASSUME Send(t) \/ OutcomeUnknown(t)
        PROVE  call'[t].at # "idle" /\ exitInFlight' = exitInFlight
    <3>1. CASE Send(t)
      BY <3>1, <1>facts DEF Send, Goto, memory
    <3>2. CASE OutcomeUnknown(t)
      BY <3>2, <1>facts DEF OutcomeUnknown, Goto, memory
    <3> QED
      BY <2>3, <3>1, <3>2
  <2>4. ASSUME MarkUnfilled(t)
        PROVE  /\ call'[t].at = "idle"
               /\ exitInFlight' = IF order[Id(t)].kind = "exit"
                                  THEN exitInFlight \ {Sym(t)} ELSE exitInFlight
    BY <2>4, <1>facts DEF MarkUnfilled, Return, Idle, TypeOK
  <2> QED
    BY <2>1, <2>2, <2>3, <2>4 DEF CallStep
<1> QED
  BY <1>1, <1>2, <1>3, <1>4, <1>facts DEF OneExitPerSymbol

\* A step of a call keeps the invariant.
LEMMA CallStepInvariant ==
  ASSUME IInv, NEW t \in Threads, CallStep(t)
  PROVE  IInv'
<1>facts. /\ TypeOK /\ CallsOK /\ FreshOK /\ StagesOK /\ Active(t) /\ up
          /\ Id(t) \in Orders /\ Id(t) \in 1..issued
          /\ \A id \in Orders : OrderOK(id)
  BY StepActive, CallFacts DEF IInv
<1>frame. /\ up' /\ issued' = issued /\ order' = order
          /\ \A u \in Threads \ {t} : call'[u] = call[u]
          /\ \A id \in Orders \ {Id(t)} : attempts'[id] = attempts[id] /\ exch'[id] = exch[id]
          /\ alerted \subseteq alerted'
          /\ call'[t].at # "idle" => call'[t].id = call[t].id
  BY CallStepFrame
<1>others. \A u \in Threads : u # t /\ Active(u) => Id(u) \in Orders \ {Id(t)}
  BY <1>facts, CallFacts DEF CallsOK
<1>same. \A u \in Threads : Active(u)' => Active(u) /\ Id(u)' = Id(u) /\ Sym(u)' = Sym(u)
  BY <1>facts, <1>frame DEF Active, Id, Sym
<1>1. TypeOK'
  BY CallStepType
<1>2. FreshOK'
  <2>1. ASSUME NEW id \in Orders, id > issued PROVE id # Id(t)
    BY <2>1, <1>facts, TradingEngineAssumption DEF TypeOK, Orders
  <2> QED
    BY <2>1, <1>facts, <1>frame DEF FreshOK
<1>3. CallsOK'
  BY <1>facts, <1>frame, <1>same DEF CallsOK
<1>4. StagesOK'
  <2>1. ASSUME NEW u \in Threads, u # t, Active(u)' PROVE StageOK(u)'
    BY <2>1, <1>facts, <1>frame, <1>others, <1>same DEF StagesOK, StageOK
  <2> QED
    BY <2>1, CallStepStage DEF StagesOK
<1>5. \A id \in Orders : OrderOK(id)'
  <2>1. ASSUME NEW id \in Orders, id # Id(t) PROVE OrderOK(id)'
    BY <2>1, <1>facts, <1>frame DEF OrderOK
  <2> QED
    BY <2>1, CallStepOrder
<1>6. OneExitPerSymbol'
  BY CallStepExits
<1> QED
  BY <1>1, <1>2, <1>3, <1>4, <1>5, <1>6 DEF IInv

-----------------------------------------------------------------------------
\* What taking the next client order id changes.
LEMMA IssueFacts ==
  ASSUME IInv, NEW t \in Threads, NEW k, NEW s \in Symbols, NEW q, NEW row, NEW stage,
         k \in {"entry", "exit"}, q \in 0..MaxQty, row \in 0..MaxOrders,
         stage \in Stages \ {"idle"}, up,
         call[t].at = "idle", IssueOrder(t, k, s, q, row, stage)
  PROVE  /\ issued + 1 \in Orders /\ issued' = issued + 1
         /\ order' \in [Orders -> Ask] /\ call' \in [Threads -> Call]
         /\ order'[issued + 1] = [kind |-> k, sym |-> s, qty |-> q]
         /\ \A id \in Orders : id # issued + 1 => order'[id] = order[id]
         /\ call'[t] = [at |-> stage, id |-> issued + 1, row |-> row]
         /\ \A u \in Threads : u # t => call'[u] = call[u]
         /\ order[issued + 1].kind = "none"
         /\ attempts[issued + 1] = NoRow /\ exch[issued + 1] = NoRow
<1>facts. TypeOK /\ FreshOK
  BY DEF IInv
<1>1. issued \in Nat /\ issued + 1 \in Orders /\ issued + 1 \in 0..MaxOrders /\ issued + 1 > issued
  BY <1>facts, TradingEngineAssumption DEF IssueOrder, TypeOK, Orders
<1>2. [kind |-> k, sym |-> s, qty |-> q] \in Ask
  BY DEF Ask
<1>3. [at |-> stage, id |-> issued + 1, row |-> row] \in Call
  BY <1>1 DEF Call
<1> QED
  BY <1>facts, <1>1, <1>2, <1>3 DEF IssueOrder, TypeOK, FreshOK

\* A freshly issued id is nobody else's, so the calls already running keep
\* their orders.
LEMMA IssueCalls ==
  ASSUME IInv, NEW t \in Threads, up, up' = up,
         issued + 1 \in Orders, issued' = issued + 1,
         order'[issued + 1].kind \in {"entry", "exit"}, order'[issued + 1].sym \in Symbols,
         \A id \in Orders : id # issued + 1 => order'[id] = order[id],
         call'[t].id = issued + 1,
         \A u \in Threads : u # t => call'[u] = call[u],
         \A id \in Orders : id # issued + 1 => attempts'[id] = attempts[id],
         exch' = exch
  PROVE  /\ FreshOK' /\ CallsOK'
         /\ \A u \in Threads : u # t /\ Active(u) =>
               /\ Id(u) \in 1..issued /\ Id(u) \in Orders /\ Id(u) # issued + 1
               /\ Id(u)' = Id(u) /\ Sym(u)' = Sym(u) /\ order'[Id(u)] = order[Id(u)]
<1>facts. TypeOK /\ FreshOK /\ CallsOK /\ issued \in Nat
  BY TradingEngineAssumption DEF IInv, TypeOK
<1>1. ASSUME NEW u \in Threads, u # t, Active(u)
      PROVE  /\ Id(u) \in 1..issued /\ Id(u) \in Orders /\ Id(u) # issued + 1
             /\ Id(u)' = Id(u)
  <2>1. Id(u) \in 1..issued /\ Id(u) \in Orders
    BY <1>1, <1>facts, CallFacts DEF CallsOK
  <2>2. Id(u)' = Id(u)
    BY <1>1 DEF Id
  <2> QED
    BY <2>1, <2>2, <1>facts
<1>2. ASSUME NEW u \in Threads, u # t, Active(u)
      PROVE  Sym(u)' = Sym(u) /\ order'[Id(u)] = order[Id(u)]
  BY <1>1, <1>2 DEF Sym
<1>3. FreshOK'
  <2>1. ASSUME NEW id \in Orders, id > issued'
        PROVE  id > issued /\ id # issued + 1
    BY <2>1, <1>facts DEF Orders
  <2> QED
    BY <2>1, <1>facts DEF FreshOK
<1>4. ASSUME NEW u \in Threads, Active(u)'
      PROVE  /\ Id(u)' \in 1..issued' /\ order'[Id(u)'].kind \in {"entry", "exit"}
             /\ Sym(u)' \in Symbols /\ up'
  <2>1. CASE u = t
    BY <2>1, <1>facts DEF Id, Sym
  <2>2. CASE u # t
    <3>1. Active(u)
      BY <2>2, <1>4 DEF Active
    <3> QED
      BY <3>1, <2>2, <1>1, <1>2, <1>facts DEF CallsOK
  <2> QED
    BY <2>1, <2>2
<1>5. ASSUME NEW u \in Threads, NEW v \in Threads, Active(u)', Active(v)', Id(u)' = Id(v)'
      PROVE  u = v
  <2>1. Id(t)' = issued + 1
    BY DEF Id
  <2>2. \A w \in Threads : w # t => (Active(w)' <=> Active(w))
    BY DEF Active
  <2> QED
    BY <2>1, <2>2, <1>5, <1>1, <1>facts DEF CallsOK
<1>6. CallsOK'
  BY <1>4, <1>5 DEF CallsOK
<1> QED
  BY <1>1, <1>2, <1>3, <1>6

\* The start of PlaceEntryOrder keeps the invariant.
LEMMA BeginEntryInvariant ==
  ASSUME IInv, NEW t \in Threads, NEW s \in Symbols, NEW q \in 1..MaxQty, BeginEntry(t, s, q)
  PROVE  IInv'
<1>facts. TypeOK /\ FreshOK /\ CallsOK /\ StagesOK /\ OneExitPerSymbol
          /\ \A id \in Orders : OrderOK(id)
  BY DEF IInv
<1>args. /\ q \in 0..MaxQty /\ 0 \in 0..MaxOrders /\ "open" \in Stages \ {"idle"}
         /\ up /\ up' = up /\ call[t].at = "idle" /\ exch' = exch /\ alerted' = alerted
         /\ exitInFlight' = exitInFlight
         /\ IssueOrder(t, "entry", s, q, 0, "open")
  BY TradingEngineAssumption DEF BeginEntry, Free, Stages, memory
<1>new. /\ issued + 1 \in Orders /\ issued' = issued + 1
        /\ order' \in [Orders -> Ask] /\ call' \in [Threads -> Call]
        /\ order'[issued + 1] = [kind |-> "entry", sym |-> s, qty |-> q]
        /\ \A id \in Orders : id # issued + 1 => order'[id] = order[id]
        /\ call'[t] = [at |-> "open", id |-> issued + 1, row |-> 0]
        /\ \A u \in Threads : u # t => call'[u] = call[u]
        /\ attempts[issued + 1] = NoRow /\ exch[issued + 1] = NoRow
  BY <1>args, IssueFacts
<1>row. /\ attempts'[issued + 1] = [st |-> "intent", filled |-> 0]
        /\ \A id \in Orders : id # issued + 1 => attempts'[id] = attempts[id]
        /\ attempts' \in [Orders -> Attempt]
  <2>1. [attempts[issued + 1] EXCEPT !.st = "intent"] = [st |-> "intent", filled |-> 0]
    BY <1>new DEF NoRow
  <2>2. [st |-> "intent", filled |-> 0] \in Attempt
    BY TradingEngineAssumption DEF Attempt, Unresolved
  <2>3. attempts' = [attempts EXCEPT ![issued + 1] = [st |-> "intent", filled |-> 0]]
    BY <2>1 DEF BeginEntry
  <2> QED
    BY <2>2, <2>3, <1>new, <1>facts DEF TypeOK
<1>calls. /\ FreshOK' /\ CallsOK'
          /\ \A u \in Threads : u # t /\ Active(u) =>
               /\ Id(u) \in Orders /\ Id(u) # issued + 1
               /\ Id(u)' = Id(u) /\ Sym(u)' = Sym(u) /\ order'[Id(u)] = order[Id(u)]
  <2>1. order'[issued + 1].kind = "entry" /\ order'[issued + 1].sym = s /\ call'[t].id = issued + 1
    BY <1>new
  <2> QED
    BY <2>1, <1>args, <1>new, <1>row, IssueCalls
<1>1. TypeOK'
  <2>1. issued' \in 0..MaxOrders
    BY <1>new, <1>facts, TradingEngineAssumption DEF TypeOK, Orders
  <2>2. suspect' \subseteq Symbols
    BY <1>facts DEF BeginEntry, TypeOK
  <2> QED
    BY <2>1, <2>2, <1>new, <1>row, <1>facts DEF BeginEntry, TypeOK, memory, bounds
<1>2. StagesOK'
  <2>1. StageOK(t)'
    BY <1>new, <1>row, <1>args DEF StageOK, Id, NoRow
  <2>2. ASSUME NEW u \in Threads, u # t, Active(u)' PROVE StageOK(u)'
    <3>1. Active(u) /\ call'[u] = call[u]
      BY <2>2, <1>new DEF Active
    <3> QED
      BY <3>1, <2>2, <1>calls, <1>row, <1>args, <1>facts DEF StagesOK, StageOK
  <2> QED
    BY <2>1, <2>2 DEF StagesOK
<1>3. \A id \in Orders : OrderOK(id)'
  <2>1. ASSUME NEW id \in Orders, id = issued + 1 PROVE OrderOK(id)'
    <3>1. attempts'[id].st \notin Final /\ attempts'[id].filled = 0 /\ exch'[id].st # "live"
      BY <2>1, <1>row, <1>new, <1>args DEF Final, NoRow
    <3> QED
      BY <3>1 DEF OrderOK
  <2>2. ASSUME NEW id \in Orders, id # issued + 1 PROVE OrderOK(id)'
    BY <2>2, <1>new, <1>row, <1>args, <1>facts DEF OrderOK
  <2> QED
    BY <2>1, <2>2, <1>new
<1>4. OneExitPerSymbol'
  <2>1. \A u \in Threads, x \in Symbols : u # t => (Exiting(u, x)' <=> Exiting(u, x))
    BY <1>new, <1>calls DEF Exiting, CallOn, Id, Active
  <2>2. \A x \in Symbols : ~Exiting(t, x)' /\ ~Exiting(t, x)
    BY <1>new, <1>args DEF Exiting, CallOn, Id
  <2> QED
    BY <2>1, <2>2, <1>facts, <1>args DEF OneExitPerSymbol
<1> QED
  BY <1>calls, <1>1, <1>2, <1>3, <1>4 DEF IInv

\* The start of PlaceExitOrder keeps the invariant: exitInFlight has no
\* mark for the symbol, so nobody else is exiting it.
LEMMA BeginExitInvariant ==
  ASSUME IInv, NEW t \in Threads, NEW s \in Symbols, NEW row \in Rows(s) \cup {0},
         BeginExit(t, s, row)
  PROVE  IInv'
<1>facts. TypeOK /\ FreshOK /\ CallsOK /\ StagesOK /\ OneExitPerSymbol
          /\ \A id \in Orders : OrderOK(id)
  BY DEF IInv
<1>args. /\ openPositions[s] \in 0..MaxQty /\ row \in 0..MaxOrders
         /\ "record" \in Stages \ {"idle"}
         /\ up /\ up' = up /\ call[t].at = "idle" /\ exch' = exch /\ alerted' = alerted
         /\ attempts' = attempts /\ s \notin exitInFlight
         /\ exitInFlight' = exitInFlight \cup {s}
         /\ IssueOrder(t, "exit", s, openPositions[s], row, "record")
  BY <1>facts, TradingEngineAssumption
     DEF BeginExit, Free, Stages, durable, Rows, OrdersOn, Orders, TypeOK
<1>new. /\ issued + 1 \in Orders /\ issued' = issued + 1
        /\ order' \in [Orders -> Ask] /\ call' \in [Threads -> Call]
        /\ order'[issued + 1] = [kind |-> "exit", sym |-> s, qty |-> openPositions[s]]
        /\ \A id \in Orders : id # issued + 1 => order'[id] = order[id]
        /\ call'[t] = [at |-> "record", id |-> issued + 1, row |-> row]
        /\ \A u \in Threads : u # t => call'[u] = call[u]
        /\ attempts[issued + 1] = NoRow /\ exch[issued + 1] = NoRow
  BY <1>args, IssueFacts
<1>calls. /\ FreshOK' /\ CallsOK'
          /\ \A u \in Threads : u # t /\ Active(u) =>
               /\ Id(u) \in Orders /\ Id(u) # issued + 1
               /\ Id(u)' = Id(u) /\ Sym(u)' = Sym(u) /\ order'[Id(u)] = order[Id(u)]
  <2>1. order'[issued + 1].kind = "exit" /\ order'[issued + 1].sym = s /\ call'[t].id = issued + 1
    BY <1>new
  <2> QED
    BY <2>1, <1>args, <1>new, IssueCalls
<1>1. TypeOK'
  <2>1. issued' \in 0..MaxOrders
    BY <1>new, <1>facts, TradingEngineAssumption DEF TypeOK, Orders
  <2>2. suspect' \subseteq Symbols /\ exitInFlight' \subseteq Symbols
    BY <1>facts, <1>args DEF BeginExit, TypeOK
  <2> QED
    BY <2>1, <2>2, <1>new, <1>facts DEF BeginExit, TypeOK, durable, bounds
<1>2. StagesOK'
  <2>1. StageOK(t)'
    BY <1>new, <1>args DEF StageOK, Id, NoRow
  <2>2. ASSUME NEW u \in Threads, u # t, Active(u)' PROVE StageOK(u)'
    <3>1. Active(u) /\ call'[u] = call[u]
      BY <2>2, <1>new DEF Active
    <3> QED
      BY <3>1, <2>2, <1>calls, <1>args, <1>facts DEF StagesOK, StageOK
  <2> QED
    BY <2>1, <2>2 DEF StagesOK
<1>3. \A id \in Orders : OrderOK(id)'
  <2>1. ASSUME NEW id \in Orders, id = issued + 1 PROVE OrderOK(id)'
    <3>1. attempts'[id].st \notin Final /\ attempts'[id].filled = 0 /\ exch'[id].st # "live"
      BY <2>1, <1>new, <1>args DEF Final, NoRow
    <3> QED
      BY <3>1 DEF OrderOK
  <2>2. ASSUME NEW id \in Orders, id # issued + 1 PROVE OrderOK(id)'
    BY <2>2, <1>new, <1>args, <1>facts DEF OrderOK
  <2> QED
    BY <2>1, <2>2, <1>new
<1>4. OneExitPerSymbol'
  <2>1. \A u \in Threads, x \in Symbols : u # t => (Exiting(u, x)' <=> Exiting(u, x))
    BY <1>new, <1>calls DEF Exiting, CallOn, Id, Active
  <2>2. \A x \in Symbols : ~Exiting(t, x) /\ (Exiting(t, x)' <=> x = s)
    BY <1>new, <1>args DEF Exiting, CallOn, Id
  <2>3. \A u \in Threads : ~Exiting(u, s)
    BY <1>facts, <1>args DEF OneExitPerSymbol
  <2> QED
    BY <2>1, <2>2, <2>3, <1>facts, <1>args DEF OneExitPerSymbol
<1> QED
  BY <1>calls, <1>1, <1>2, <1>3, <1>4 DEF IInv

-----------------------------------------------------------------------------
\* A fill or a cancellation at the exchange keeps the invariant: it can
\* only happen to an order no resolved row speaks of.
LEMMA ExchangeInvariant ==
  ASSUME IInv, NEW id \in Orders, Fill(id) \/ Stop(id)
  PROVE  IInv'
<1>facts. TypeOK /\ FreshOK /\ CallsOK /\ StagesOK /\ OneExitPerSymbol
          /\ OrderOK(id) /\ \A other \in Orders : OrderOK(other)
  BY DEF IInv
<1>frame. /\ UNCHANGED <<up, ticking, issued, order, call, memory, durable, alerted, history, bounds>>
          /\ exch[id].st = "live" /\ exch[id] \in ExchangeOrder
  BY <1>facts DEF Fill, Stop, TypeOK
<1>books. /\ exitInFlight' = exitInFlight /\ openPositions' = openPositions
          /\ suspect' = suspect /\ revived' = revived
          /\ attempts' = attempts /\ positions' = positions
          /\ crashes' = crashes /\ faults' = faults
  BY <1>frame DEF memory, durable, history, bounds
<1>exch. /\ exch' \in [Orders -> ExchangeOrder]
         /\ exch'[id].st \in {"live", "done"}
         /\ \A other \in Orders : other # id => exch'[other] = exch[other]
  <2>1. CASE Fill(id)
    <3>1. order[id].qty \in 0..MaxQty /\ exch[id].filled \in 0..MaxQty
      BY <1>facts, <1>frame DEF TypeOK, Ask, ExchangeOrder
    <3>2. exch[id].filled + 1 \in 0..MaxQty
      BY <3>1, <2>1, TradingEngineAssumption DEF Fill
    <3>3. PICK n \in 0..MaxQty, st \in {"live", "done"} :
             exch' = [exch EXCEPT ![id] = [st |-> st, filled |-> n]]
      BY <3>2, <2>1 DEF Fill
    <3>4. [st |-> st, filled |-> n] \in ExchangeOrder
      BY DEF ExchangeOrder
    <3> QED
      BY <3>3, <3>4, <1>facts DEF TypeOK
  <2>2. CASE Stop(id)
    BY <2>2, <1>facts, <1>frame DEF Stop, TypeOK, ExchangeOrder
  <2> QED
    BY <2>1, <2>2
<1>notfinal. attempts[id].st \notin Final
  BY <1>facts, <1>frame DEF OrderOK
<1>1. TypeOK'
  BY <1>facts, <1>frame, <1>books, <1>exch DEF TypeOK
<1>2. FreshOK'
  <2>1. ~(id > issued)
    BY <1>facts, <1>frame DEF FreshOK, NoRow
  <2> QED
    BY <2>1, <1>facts, <1>frame, <1>books, <1>exch DEF FreshOK
<1>3. CallsOK'
  BY <1>facts, <1>frame DEF CallsOK, Active, Id, Sym
<1>4. StagesOK'
  <2>1. ASSUME NEW t \in Threads, Active(t) PROVE StageOK(t)'
    <3>1. StageOK(t) /\ Id(t) \in Orders /\ Id(t)' = Id(t) /\ Sym(t)' = Sym(t)
      BY <2>1, <1>facts, <1>frame, CallFacts DEF StagesOK, Id, Sym
    <3>2. CASE Id(t) # id
      BY <3>1, <3>2, <1>frame, <1>books, <1>exch DEF StageOK
    <3>3. CASE Id(t) = id
      <4>1. call[t].at \notin {"record", "open", "send", "resolve", "row", "reject"}
        BY <3>1, <3>3, <1>frame DEF StageOK, NoRow
      <4> QED
        BY <4>1, <3>1, <3>3, <1>frame, <1>books, <1>exch DEF StageOK
    <3> QED
      BY <3>2, <3>3
  <2> QED
    BY <2>1, <1>frame DEF StagesOK, Active
<1>5. \A other \in Orders : OrderOK(other)'
  <2>1. ASSUME NEW other \in Orders, other # id PROVE OrderOK(other)'
    BY <2>1, <1>facts, <1>frame, <1>books, <1>exch DEF OrderOK
  <2>2. OrderOK(id)'
    BY <1>facts, <1>frame, <1>books, <1>notfinal DEF OrderOK
  <2> QED
    BY <2>1, <2>2
<1>6. OneExitPerSymbol'
  BY <1>facts, <1>frame, <1>books DEF OneExitPerSymbol, Exiting, CallOn, Id
<1> QED
  BY <1>1, <1>2, <1>3, <1>4, <1>5, <1>6 DEF IInv

\* A crash keeps the invariant: the journal and the exchange survive it.
LEMMA CrashInvariant ==
  ASSUME IInv, Crash
  PROVE  IInv'
<1>facts. TypeOK /\ FreshOK /\ \A id \in Orders : OrderOK(id)
  BY DEF IInv
<1>idle. \A t \in Threads : ~Active(t)'
  BY DEF Crash, Active, Idle
<1>1. TypeOK'
  <2>1. Idle \in Call
    BY TradingEngineAssumption DEF Idle, Call, Stages
  <2>2. call' \in [Threads -> Call] /\ openPositions' \in [Symbols -> 0..MaxQty]
    BY <2>1, TradingEngineAssumption DEF Crash
  <2>3. crashes' \in 0..MaxCrashes
    BY <1>facts, TradingEngineAssumption DEF Crash, TypeOK
  <2> QED
    BY <2>2, <2>3, <1>facts DEF Crash, TypeOK, durable, history
<1>2. FreshOK' /\ \A id \in Orders : OrderOK(id)'
  BY <1>facts DEF Crash, durable, FreshOK, OrderOK
<1>3. CallsOK' /\ StagesOK'
  BY <1>idle DEF CallsOK, StagesOK
<1>4. OneExitPerSymbol'
  <2>1. \A t \in Threads, s \in Symbols : ~Exiting(t, s)'
    BY <1>idle DEF Exiting, CallOn, Active
  <2>2. exitInFlight' = {}
    BY DEF Crash
  <2> QED
    BY <2>1, <2>2 DEF OneExitPerSymbol
<1> QED
  BY <1>1, <1>2, <1>3, <1>4 DEF IInv

\* A start keeps the invariant, accepted mismatch or not.
LEMMA StartInvariant ==
  ASSUME IInv, NEW acceptReconcile \in BOOLEAN, Start(acceptReconcile)
  PROVE  IInv'
<1>facts. /\ TypeOK /\ FreshOK /\ CallsOK /\ StagesOK /\ OneExitPerSymbol
          /\ \A id \in Orders : OrderOK(id)
  BY DEF IInv
<1>frame. /\ UNCHANGED <<issued, order, call, exitInFlight, attempts, positions, exch, alerted,
                         revived>>
          /\ up' = TRUE
  BY DEF Start, durable
<1>idle. \A t \in Threads : ~Active(t)
  BY <1>facts DEF CallsOK, Start
<1>1. TypeOK'
  <2>1. openPositions' \in [Symbols -> 0..MaxQty] /\ suspect' \subseteq Symbols
    BY <1>facts DEF Start, Restored, TypeOK
  <2>2. ticking' \in BOOLEAN /\ (StoreFails \/ UNCHANGED bounds)
    BY DEF Start
  <2>3. crashes' \in 0..MaxCrashes /\ faults' \in 0..MaxFaults
    BY <2>2, <1>facts, TradingEngineAssumption DEF StoreFails, bounds, TypeOK
  <2> QED
    BY <2>1, <2>2, <2>3, <1>facts, <1>frame DEF TypeOK
<1>2. FreshOK' /\ \A id \in Orders : OrderOK(id)'
  BY <1>facts, <1>frame DEF FreshOK, OrderOK
<1>3. CallsOK' /\ StagesOK'
  BY <1>idle, <1>frame DEF CallsOK, StagesOK, Active
<1>4. OneExitPerSymbol'
  BY <1>facts, <1>frame DEF OneExitPerSymbol, Exiting, CallOn, Id
<1> QED
  BY <1>1, <1>2, <1>3, <1>4 DEF IInv

\* The second restore keeps the invariant: it touches the risk book only.
LEMMA RestoreInvariant ==
  ASSUME IInv, RestoreAgain
  PROVE  IInv'
<1>facts. /\ TypeOK /\ FreshOK /\ CallsOK /\ StagesOK /\ OneExitPerSymbol
          /\ \A id \in Orders : OrderOK(id)
  BY DEF IInv
<1>frame. /\ UNCHANGED <<issued, order, call, exitInFlight, attempts, positions, exch, alerted,
                         suspect>>
          /\ up' = up
  BY DEF RestoreAgain, durable
<1>1. TypeOK'
  <2>1. openPositions' \in [Symbols -> 0..MaxQty] /\ revived' \subseteq Symbols
    BY <1>facts DEF RestoreAgain, Restored, TypeOK
  <2>2. ticking' \in BOOLEAN /\ (StoreFails \/ UNCHANGED bounds)
    BY DEF RestoreAgain
  <2>3. crashes' \in 0..MaxCrashes /\ faults' \in 0..MaxFaults
    BY <2>2, <1>facts, TradingEngineAssumption DEF StoreFails, bounds, TypeOK
  <2> QED
    BY <2>1, <2>2, <2>3, <1>facts, <1>frame DEF TypeOK
<1>2. FreshOK' /\ \A id \in Orders : OrderOK(id)'
  BY <1>facts, <1>frame DEF FreshOK, OrderOK
<1>3. CallsOK' /\ StagesOK'
  BY <1>facts, <1>frame DEF CallsOK, StagesOK, StageOK, Active, Id, Sym
<1>4. OneExitPerSymbol'
  BY <1>facts, <1>frame DEF OneExitPerSymbol, Exiting, CallOn, Id
<1> QED
  BY <1>1, <1>2, <1>3, <1>4 DEF IInv

\* The invariant holds of a process that never traded.
LEMMA InitInvariant == Init => IInv
<1> SUFFICES ASSUME Init PROVE IInv
  OBVIOUS
<1>1. TypeOK
  BY TradingEngineAssumption
     DEF Init, TypeOK, Ask, Attempt, Row, ExchangeOrder, Call, Stages, Idle
<1>2. FreshOK /\ CallsOK /\ StagesOK
  BY DEF Init, FreshOK, CallsOK, StagesOK, Active, Idle, NoRow
<1>3. \A id \in Orders : OrderOK(id)
  BY DEF Init, OrderOK, Final
<1>4. OneExitPerSymbol
  BY DEF Init, OneExitPerSymbol, Exiting, CallOn, Idle
<1> QED
  BY <1>1, <1>2, <1>3, <1>4 DEF IInv

\* The invariant speaks of no other variable.
LEMMA StutterInvariant ==
  ASSUME IInv, UNCHANGED vars
  PROVE  IInv'
BY DEF IInv, vars, memory, durable, history, bounds, TypeOK, FreshOK, CallsOK, StagesOK, StageOK,
       OrderOK, OneExitPerSymbol, Exiting, CallOn, Active, Id, Sym

-----------------------------------------------------------------------------
\* The invariant is inductive.
LEMMA NextInvariant == IInv /\ [Next]_vars => IInv'
<1> SUFFICES ASSUME IInv, [Next]_vars PROVE IInv'
  OBVIOUS
<1>1. ASSUME NEW t \in Threads, NEW s \in Symbols, NEW q \in 1..MaxQty, BeginEntry(t, s, q)
      PROVE  IInv'
  BY <1>1, BeginEntryInvariant
<1>2. ASSUME NEW t \in Threads, NEW s \in Symbols, NEW row \in Rows(s) \cup {0},
             BeginExit(t, s, row)
      PROVE  IInv'
  BY <1>2, BeginExitInvariant
<1>3. ASSUME NEW t \in Threads, CallStep(t) PROVE IInv'
  BY <1>3, CallStepInvariant
<1>4. ASSUME NEW id \in Orders, Fill(id) \/ Stop(id) PROVE IInv'
  BY <1>4, ExchangeInvariant
<1>5. ASSUME Crash PROVE IInv'
  BY <1>5, CrashInvariant
<1>6. ASSUME NEW acceptReconcile \in BOOLEAN, Start(acceptReconcile) PROVE IInv'
  BY <1>6, StartInvariant
<1>7. ASSUME RestoreAgain PROVE IInv'
  BY <1>7, RestoreInvariant
<1>8. ASSUME UNCHANGED vars PROVE IInv'
  BY <1>8, StutterInvariant
<1> QED
  BY <1>1, <1>2, <1>3, <1>4, <1>5, <1>6, <1>7, <1>8 DEF Next

(***************************************************************************)
(* The inductive invariant holds in every behaviour, for any number of     *)
(* symbols, threads, orders, crashes and failed writes.                    *)
(***************************************************************************)
THEOREM Invariant == Spec => []IInv
<1>1. Init => IInv
  BY InitInvariant
<1>2. IInv /\ [Next]_vars => IInv'
  BY NextInvariant
<1> QED
  BY <1>1, <1>2, PTL DEF Spec

(***************************************************************************)
(* Every variable keeps its type, whatever the interleaving.               *)
(***************************************************************************)
THEOREM TypeCorrect == Spec => []TypeOK
<1>1. IInv => TypeOK
  BY DEF IInv
<1> QED
  BY <1>1, Invariant, PTL

(***************************************************************************)
(* A resolved order attempt never lies: the exchange is done with the      *)
(* order and the recorded quantity is the one that filled                  *)
(* (MarkOrderResolved at engine.go's every exit).                          *)
(***************************************************************************)
THEOREM JournalIsTruthful == Spec => []JournalTruthful
<1>1. IInv => JournalTruthful
  BY DEF IInv, OrderOK, JournalTruthful
<1> QED
  BY <1>1, Invariant, PTL

(***************************************************************************)
(* An entry live at the exchange always has an unresolved attempt, which   *)
(* the start gate of main.go finds after a crash; an exit may lack one     *)
(* only after an alert.                                                    *)
(***************************************************************************)
THEOREM NoOrderIsLost == Spec => []NoLostOrder
<1>1. IInv => NoLostOrder
  BY DEF IInv, OrderOK, NoLostOrder
<1> QED
  BY <1>1, Invariant, PTL

(***************************************************************************)
(* At most one thread has an exit of a symbol in progress and              *)
(* exitInFlight says exactly which symbols are being exited (audit R3).    *)
(***************************************************************************)
THEOREM ExitsExclude == Spec => []OneExitPerSymbol
<1>1. IInv => OneExitPerSymbol
  BY DEF IInv
<1> QED
  BY <1>1, Invariant, PTL

-----------------------------------------------------------------------------
\* The start of PlaceEntryOrder is the journal's Record of an entry.
LEMMA BeginEntryJournals ==
  ASSUME IInv, NEW t \in Threads, NEW s \in Symbols, NEW q \in 1..MaxQty, BeginEntry(t, s, q)
  PROVE  Journal!Next
<1>1. issued + 1 \in Orders /\ order[issued + 1].kind = "none"
  BY TradingEngineAssumption DEF BeginEntry, IssueOrder, IInv, TypeOK, FreshOK, Orders
<1>2. order \in [Orders -> Ask]
  BY DEF IInv, TypeOK
<1>3. order' = [order EXCEPT ![issued + 1] = [kind |-> "entry", sym |-> s, qty |-> q]]
  BY DEF BeginEntry, IssueOrder
<1>4. [id \in Orders |-> order'[id].kind]
        = [[id \in Orders |-> order[id].kind] EXCEPT ![issued + 1] = "entry"]
  BY <1>1, <1>2, <1>3
<1>5. Journal!Record(issued + 1, "entry")
  BY <1>1, <1>4 DEF Journal!Record, BeginEntry
<1> QED
  BY <1>1, <1>5 DEF Journal!Next, Journal!Orders, Journal!Kinds, Orders

\* The start of PlaceExitOrder is the journal's Issue of an exit.
LEMMA BeginExitJournals ==
  ASSUME IInv, NEW t \in Threads, NEW s \in Symbols, NEW row, BeginExit(t, s, row)
  PROVE  Journal!Next
<1>1. issued + 1 \in Orders /\ order[issued + 1].kind = "none"
  BY TradingEngineAssumption DEF BeginExit, IssueOrder, IInv, TypeOK, FreshOK, Orders
<1>2. order \in [Orders -> Ask]
  BY DEF IInv, TypeOK
<1>3. order' = [order EXCEPT ![issued + 1] =
                  [kind |-> "exit", sym |-> s, qty |-> openPositions[s]]]
  BY DEF BeginExit, IssueOrder
<1>4. [id \in Orders |-> order'[id].kind]
        = [[id \in Orders |-> order[id].kind] EXCEPT ![issued + 1] = "exit"]
  BY <1>1, <1>2, <1>3
<1>5. PICK id \in Journal!Orders : id = issued + 1
  BY <1>1 DEF Journal!Orders, Orders
<1>6. Journal!Issue(id)
  BY <1>1, <1>4, <1>5 DEF Journal!Issue, BeginExit, durable
<1> QED
  BY <1>6 DEF Journal!Next

\* A step of a call is one of the journal's steps on its order, or none.
LEMMA CallStepJournals ==
  ASSUME IInv, NEW t \in Threads, CallStep(t)
  PROVE  Journal!Next \/ UNCHANGED Journal!vars
<1>facts. /\ Active(t) /\ up /\ Id(t) \in Orders /\ Id(t) \in Journal!Orders
          /\ attempts \in [Orders -> Attempt] /\ exch \in [Orders -> ExchangeOrder]
          /\ attempts[Id(t)] \in Attempt /\ exch[Id(t)] \in ExchangeOrder
          /\ StageOK(t) /\ OrderOK(Id(t)) /\ Sym(t) = order[Id(t)].sym
          /\ Id(t) = call[t].id /\ order' = order
  <2>1. TypeOK /\ CallsOK /\ Active(t) /\ up
    BY StepActive DEF IInv
  <2>2. Id(t) \in Orders /\ Id(t) \in Journal!Orders
    BY <2>1, CallFacts DEF Orders, Journal!Orders
  <2>3. order' = order
    BY CallStepFrame
  <2> QED
    BY <2>1, <2>2, <2>3, CallFacts DEF IInv, StagesOK, TypeOK
<1>kind. /\ [id \in Orders |-> order'[id].kind] = [id \in Orders |-> order[id].kind]
         /\ [id \in Orders |-> order[id].kind][Id(t)] = order[Id(t)].kind
  BY <1>facts
<1>same. attempts' = attempts /\ exch' = exch => UNCHANGED Journal!vars
  BY <1>kind DEF Journal!vars
<1>1. CASE OpenRisk(t) \/ MarginLockFails(t) \/ EntryFilled(t) \/ EntryFailed(t)
           \/ SaveEntry(t) \/ ExitFilled(t) \/ ExitFailed(t) \/ CloseExit(t)
           \/ OutcomeUnknown(t)
  <2>1. attempts' = attempts /\ exch' = exch
    BY <1>1 DEF OpenRisk, MarginLockFails, EntryFilled, EntryFailed, SaveEntry, ExitFilled,
                ExitFailed, CloseExit, OutcomeUnknown, durable
  <2> QED
    BY <2>1, <1>same
<1>2. CASE ResolveEntry(t)
  <2>1. CASE attempts' = attempts
    BY <2>1, <1>2, <1>same DEF ResolveEntry
  <2>2. CASE attempts' # attempts
    <3>1. attempts[Id(t)].st = "intent" /\ exch[Id(t)].st = "done" /\ exch[Id(t)].filled > 0
      BY <1>2, <1>facts DEF ResolveEntry, At, StageOK
    <3>2. PICK st \in {"partial", "filled"} :
             attempts' = [attempts EXCEPT ![Id(t)] = [st |-> st, filled |-> exch[Id(t)].filled]]
      BY <2>2, <1>2 DEF ResolveEntry
    <3>3. exch' = exch
      BY <1>2 DEF ResolveEntry
    <3>4. st \in Journal!Final /\ st # "rejected" /\ exch[Id(t)].filled # 0
      BY <3>1, <1>facts DEF Journal!Final, ExchangeOrder
    <3>5. Journal!Resolve(Id(t))
      BY <3>1, <3>2, <3>3, <3>4, <1>kind DEF Journal!Resolve
    <3> QED
      BY <3>5, <1>facts DEF Journal!Next
  <2> QED
    BY <2>1, <2>2
<1>3. CASE ResolveExit(t)
  <2>1. CASE attempts' = attempts
    BY <2>1, <1>3, <1>same DEF ResolveExit
  <2>2. CASE attempts' # attempts
    <3>1. attempts[Id(t)].st = "intent" /\ exch[Id(t)].st = "done" /\ exch[Id(t)].filled > 0
      BY <2>2, <1>3, <1>facts DEF ResolveExit, At, StageOK
    <3>2. attempts' = [attempts EXCEPT ![Id(t)] = [st |-> "filled", filled |-> exch[Id(t)].filled]]
      BY <2>2, <1>3 DEF ResolveExit
    <3>3. exch' = exch
      BY <1>3 DEF ResolveExit
    <3>4. Journal!Resolve(Id(t))
      BY <3>1, <3>2, <3>3, <1>kind, <1>facts DEF Journal!Resolve, Journal!Final, ExchangeOrder
    <3> QED
      BY <3>4, <1>facts DEF Journal!Next
  <2> QED
    BY <2>1, <2>2
<1>4. CASE RecordExit(t)
  <2>1. CASE attempts' = attempts
    BY <2>1, <1>4, <1>same DEF RecordExit
  <2>2. CASE attempts' # attempts
    <3>1. /\ order[Id(t)].kind = "exit" /\ attempts[Id(t)].st = "none"
          /\ exch[Id(t)].st = "none"
      BY <1>4, <1>facts DEF RecordExit, At, StageOK, NoRow
    <3>2. attempts' = [attempts EXCEPT ![Id(t)].st = "intent"] /\ exch' = exch
      BY <2>2, <1>4 DEF RecordExit
    <3>3. Journal!RecordLate(Id(t))
      BY <3>1, <3>2, <1>kind DEF Journal!RecordLate
    <3> QED
      BY <3>3, <1>facts DEF Journal!Next
  <2> QED
    BY <2>1, <2>2
<1>5. CASE Send(t)
  <2>1. CASE exch' = exch
    BY <2>1, <1>5, <1>same DEF Send, durable
  <2>2. CASE exch' # exch
    <3>1. /\ exch[Id(t)].st = "none"
          /\ \/ attempts[Id(t)].st = "intent"
             \/ attempts[Id(t)].st = "none" /\ order[Id(t)].kind = "exit"
      BY <1>5, <1>facts DEF Send, StageOK, NoRow
    <3>2. exch' = [exch EXCEPT ![Id(t)].st = "live"] /\ attempts' = attempts
      BY <2>2, <1>5 DEF Send, durable
    <3>3. Journal!Accept(Id(t))
      BY <3>1, <3>2, <1>kind DEF Journal!Accept
    <3> QED
      BY <3>3, <1>facts DEF Journal!Next
  <2> QED
    BY <2>1, <2>2
<1>6. CASE MarkUnfilled(t)
  <2>1. CASE attempts' = attempts
    BY <2>1, <1>6, <1>same DEF MarkUnfilled
  <2>2. CASE attempts' # attempts
    <3>1. /\ attempts[Id(t)].st = "intent" /\ attempts[Id(t)].filled = 0
          /\ exch' = exch
      <4>1. call[t].at \in {"reject", "unknown"} /\ attempts[Id(t)].st # "none"
        BY <2>2, <1>6 DEF MarkUnfilled
      <4>2. attempts[Id(t)].st = "intent"
        BY <4>1, <1>facts DEF StageOK
      <4> QED
        BY <4>2, <1>6, <1>facts DEF MarkUnfilled, OrderOK, Unresolved
    <3>2. CASE call[t].at = "reject"
      <4>1. exch[Id(t)].st # "live" /\ exch[Id(t)].filled = 0
        BY <3>2, <1>facts DEF StageOK
      <4>2. attempts' = [attempts EXCEPT ![Id(t)] = [st |-> "rejected", filled |-> exch[Id(t)].filled]]
        BY <4>1, <3>2, <2>2, <1>6 DEF MarkUnfilled
      <4>3. Journal!Resolve(Id(t))
        BY <3>1, <4>1, <4>2, <1>kind DEF Journal!Resolve, Journal!Final
      <4> QED
        BY <4>3, <1>facts DEF Journal!Next
    <3>3. CASE call[t].at = "unknown"
      <4>1. attempts' = [attempts EXCEPT ![Id(t)] = [st |-> "indeterminate", filled |-> 0]]
        BY <3>3, <2>2, <1>6 DEF MarkUnfilled
      <4>2. [attempts[Id(t)] EXCEPT !.st = "indeterminate"] = [st |-> "indeterminate", filled |-> 0]
        BY <3>1, <1>facts DEF Attempt
      <4>3. Journal!MarkIndeterminate(Id(t))
        BY <3>1, <4>1, <4>2, <1>kind DEF Journal!MarkIndeterminate
      <4> QED
        BY <4>3, <1>facts DEF Journal!Next
    <3> QED
      BY <3>2, <3>3, <1>6 DEF MarkUnfilled
  <2> QED
    BY <2>1, <2>2
<1> QED
  BY <1>1, <1>2, <1>3, <1>4, <1>5, <1>6 DEF CallStep, EntryStep, ExitStep

\* The exchange's steps are the journal's, one unit of quantity at a time.
LEMMA ExchangeJournals ==
  ASSUME IInv, NEW id \in Orders, Fill(id) \/ Stop(id)
  PROVE  Journal!Next
<1>facts. /\ id \in Journal!Orders /\ order \in [Orders -> Ask]
          /\ order[id] \in Ask /\ exch[id] \in ExchangeOrder
  BY DEF IInv, TypeOK, Orders, Journal!Orders
<1>frame. order' = order /\ attempts' = attempts
  BY DEF Fill, Stop, durable
<1>1. CASE Fill(id)
  <2>1. exch[id].filled + 1 \in (exch[id].filled + 1)..MaxQty
    BY <1>1, <1>facts, TradingEngineAssumption DEF Fill, Ask, ExchangeOrder
  <2>2. PICK st \in {"live", "done"} :
           exch' = [exch EXCEPT ![id] = [st |-> st, filled |-> exch[id].filled + 1]]
    BY <1>1 DEF Fill
  <2>3. Journal!Fill(id)
    BY <1>1, <2>1, <2>2, <1>frame DEF Fill, Journal!Fill
  <2> QED
    BY <2>3, <1>facts DEF Journal!Next
<1>2. CASE Stop(id)
  <2>1. Journal!Stop(id)
    BY <1>2, <1>frame DEF Stop, Journal!Stop
  <2> QED
    BY <2>1, <1>facts DEF Journal!Next
<1> QED
  BY <1>1, <1>2

\* Every step of the engine is a step of the journal or a stutter.
LEMMA StepJournals ==
  IInv /\ [Next]_vars => [Journal!Next]_(Journal!vars)
<1> SUFFICES ASSUME IInv, [Next]_vars PROVE Journal!Next \/ UNCHANGED Journal!vars
  OBVIOUS
<1>1. ASSUME NEW t \in Threads, NEW s \in Symbols, NEW q \in 1..MaxQty, BeginEntry(t, s, q)
      PROVE  Journal!Next
  BY <1>1, BeginEntryJournals
<1>2. ASSUME NEW t \in Threads, NEW s \in Symbols, NEW row, BeginExit(t, s, row)
      PROVE  Journal!Next
  BY <1>2, BeginExitJournals
<1>3. ASSUME NEW t \in Threads, CallStep(t) PROVE Journal!Next \/ UNCHANGED Journal!vars
  BY <1>3, CallStepJournals
<1>4. ASSUME NEW id \in Orders, Fill(id) \/ Stop(id) PROVE Journal!Next
  BY <1>4, ExchangeJournals
<1>5. ASSUME \/ Crash \/ RestoreAgain \/ UNCHANGED vars
             \/ \E acceptReconcile \in BOOLEAN : Start(acceptReconcile)
      PROVE  UNCHANGED Journal!vars
  <2>1. order' = order /\ attempts' = attempts /\ exch' = exch
    BY <1>5 DEF Crash, Start, RestoreAgain, durable, vars
  <2> QED
    BY <2>1 DEF Journal!vars
<1> QED
  BY <1>1, <1>2, <1>3, <1>4, <1>5 DEF Next

(***************************************************************************)
(* The engine implements OrderJournal: whatever its threads, crashes and   *)
(* failed writes do, the durable journal relates to the exchange as the    *)
(* write-ahead protocol of models.OrderAttempt promises.                   *)
(***************************************************************************)
THEOREM ImplementsJournal == Spec => JournalSpec
<1>1. Init => Journal!Init
  <2> SUFFICES ASSUME Init PROVE Journal!Init
    OBVIOUS
  <2>1. [id \in Orders |-> order[id].kind] = [id \in Orders |-> "none"]
    BY DEF Init
  <2> QED
    BY <2>1 DEF Init, Journal!Init, Journal!NoAttempt, Journal!NoOrder, Journal!Orders, Orders
<1>2. IInv /\ [Next]_vars => [Journal!Next]_(Journal!vars)
  BY StepJournals
<1> QED
  BY <1>1, <1>2, Invariant, PTL DEF Spec, JournalSpec, Journal!Spec

-----------------------------------------------------------------------------
(***************************************************************************)
(* The positions table.  What a row says rests on who may write it: the    *)
(* entry that took its id, once it is filled, and later an exit that was   *)
(* begun while the row was open.                                           *)
(***************************************************************************)

\* A row belongs to an issued entry and, while it is open, holds something;
\* the exchange never fills more than was asked for.
RowOK(id) ==
    /\ id > issued => positions[id].st = "none"
    /\ positions[id].st = "open" => positions[id].qty > 0
    /\ exch[id].filled <= order[id].qty

\* An entry in progress has no row yet; the row an exit in progress was
\* given is an earlier entry's of its symbol.
CallRowOK(t) ==
    /\ order[Id(t)].kind = "entry" => positions[Id(t)].st = "none"
    /\ call[t].row # 0 =>
          /\ call[t].row \in 1..issued
          /\ order[call[t].row].kind = "entry"
          /\ order[call[t].row].sym = Sym(t)
          /\ positions[call[t].row].st # "none"

RowsOK ==
    /\ \A id \in Orders : RowOK(id)
    /\ \A t \in Threads : Active(t) => CallRowOK(t)
    /\ ~up => \A s \in Symbols : openPositions[s] = 0

\* The issued ids are orders.
LEMMA IssuedOrders ==
  ASSUME TypeOK
  PROVE  issued \in Nat /\ issued <= MaxOrders /\ 1..issued \subseteq Orders
<1>1. issued \in Nat /\ issued <= MaxOrders
  BY TradingEngineAssumption DEF TypeOK
<1>2. ASSUME NEW id \in 1..issued PROVE id \in Orders
  BY <1>1, TradingEngineAssumption DEF Orders
<1> QED
  BY <1>1, <1>2

\* What a step of a call leaves alone: the risk book of other symbols, the
\* rows of other symbols and the fills at the exchange.
LEMMA CallStepBooks ==
  ASSUME IInv, RowsOK, NEW t \in Threads, CallStep(t)
  PROVE  /\ \A s \in Symbols : s # Sym(t) => openPositions'[s] = openPositions[s]
         /\ \A id \in Orders : order[id].sym # Sym(t) => positions'[id] = positions[id]
         /\ \A id \in Orders : exch'[id].filled = exch[id].filled
         /\ alerted \subseteq alerted' /\ suspect \subseteq suspect' /\ revived' = revived
         /\ call'[t].at # "idle" => call'[t].row = call[t].row
         /\ call'[t].at = "idle" \/ positions' = positions
<1>facts. /\ TypeOK /\ CallsOK /\ Active(t) /\ Id(t) \in Orders /\ Sym(t) \in Symbols
          /\ exch[Id(t)] \in ExchangeOrder /\ call[t] \in Call /\ Id(t) = call[t].id
          /\ Sym(t) = order[Id(t)].sym
          /\ call \in [Threads -> Call] /\ openPositions \in [Symbols -> 0..MaxQty]
          /\ positions \in [Orders -> Row] /\ exch \in [Orders -> ExchangeOrder]
  <2>1. TypeOK /\ CallsOK /\ Active(t)
    BY StepActive DEF IInv
  <2> QED
    BY <2>1, CallFacts DEF TypeOK
<1>goto. \A stage \in Stages : Goto(t, stage) =>
            call'[t].row = call[t].row
  BY <1>facts DEF Goto, Call
<1>stages. {"open", "send", "wait", "resolve", "reject", "unknown", "row"} \subseteq Stages
  BY DEF Stages
<1>idle. Return(t) => call'[t].at = "idle"
  BY <1>facts DEF Return, Idle
<1>1. CASE OpenRisk(t)
  BY <1>1, <1>facts, <1>goto, <1>stages DEF OpenRisk, durable
<1>2. CASE MarginLockFails(t)
  BY <1>2, <1>facts, <1>idle DEF MarginLockFails, memory, durable, history
<1>3. CASE EntryFilled(t)
  BY <1>3, <1>facts, <1>goto, <1>stages DEF EntryFilled, durable, history
<1>4. CASE EntryFailed(t)
  BY <1>4, <1>facts, <1>goto, <1>stages DEF EntryFailed, durable, history
<1>5. CASE ResolveEntry(t)
  BY <1>5, <1>facts, <1>goto, <1>stages DEF ResolveEntry, memory, history
<1>6. CASE SaveEntry(t)
  BY <1>6, <1>facts, <1>idle DEF SaveEntry, memory, history
<1>7. CASE RecordExit(t)
  BY <1>7, <1>facts, <1>goto, <1>stages DEF RecordExit, memory, history
<1>8. CASE ExitFilled(t)
  BY <1>8, <1>facts, <1>goto, <1>stages DEF ExitFilled, durable
<1>9. CASE ExitFailed(t)
  BY <1>9, <1>facts, <1>goto, <1>stages DEF ExitFailed, memory, durable, history
<1>10. CASE ResolveExit(t)
  BY <1>10, <1>facts, <1>goto, <1>stages DEF ResolveExit, memory, history
<1>11. CASE CloseExit(t)
  <2>1. \A id \in Orders : order[id].sym # Sym(t) => positions'[id] = positions[id]
    <3>1. CASE call[t].row = 0
      BY <3>1, <1>11 DEF CloseExit
    <3>2. CASE call[t].row # 0
      <4>1. order[call[t].row].sym = Sym(t)
        BY <3>2, <1>facts DEF RowsOK, CallRowOK
      <4> QED
        BY <4>1, <1>11, <1>facts DEF CloseExit
    <3> QED
      BY <3>1, <3>2
  <2> QED
    BY <2>1, <1>11, <1>facts, <1>idle DEF CloseExit
<1>12. CASE Send(t)
  <2>1. \A id \in Orders : exch'[id].filled = exch[id].filled
    BY <1>12, <1>facts DEF Send, ExchangeOrder
  <2> QED
    BY <2>1, <1>12, <1>facts, <1>goto, <1>stages DEF Send, memory, durable, history
<1>13. CASE OutcomeUnknown(t)
  BY <1>13, <1>facts, <1>goto, <1>stages DEF OutcomeUnknown, memory, durable
<1>14. CASE MarkUnfilled(t)
  BY <1>14, <1>facts, <1>idle DEF MarkUnfilled, history
<1> QED
  BY <1>1, <1>2, <1>3, <1>4, <1>5, <1>6, <1>7, <1>8, <1>9, <1>10, <1>11, <1>12, <1>13, <1>14
     DEF CallStep, EntryStep, ExitStep

\* Only a filled entry writes its own row and only an exit at its last stage
\* the row it was given.
LEMMA CallStepRows ==
  ASSUME IInv, RowsOK, NEW t \in Threads, CallStep(t)
  PROVE  RowsOK'
<1>facts. /\ TypeOK /\ CallsOK /\ StagesOK /\ Active(t) /\ Id(t) \in Orders /\ Id(t) \in 1..issued
          /\ Sym(t) \in Symbols
          /\ exch[Id(t)] \in ExchangeOrder /\ call[t] \in Call /\ Id(t) = call[t].id
          /\ call \in [Threads -> Call] /\ positions \in [Orders -> Row] /\ StageOK(t)
          /\ issued \in Nat /\ issued <= MaxOrders /\ 1..issued \subseteq Orders
  <2>1. TypeOK /\ CallsOK /\ Active(t) /\ StagesOK
    BY StepActive DEF IInv
  <2>2. issued \in Nat /\ issued <= MaxOrders /\ 1..issued \subseteq Orders
    BY <2>1, IssuedOrders
  <2> QED
    BY <2>1, <2>2, CallFacts DEF TypeOK, StagesOK
<1>frame. /\ up' /\ issued' = issued /\ order' = order
          /\ \A u \in Threads \ {t} : call'[u] = call[u]
          /\ call'[t].at # "idle" => call'[t].id = call[t].id /\ call'[t].row = call[t].row
          /\ \A id \in Orders : exch'[id].filled = exch[id].filled
  BY CallStepFrame, CallStepBooks
<1>rowIn. call[t].row # 0 => call[t].row \in Orders
  BY <1>facts DEF RowsOK, CallRowOK
\* The rows after the step: the same, but for one written.
<1>change. \/ positions' = positions
           \/ /\ order[Id(t)].kind = "entry" /\ call[t].at = "row" /\ ~Active(t)'
              /\ positions' = [positions EXCEPT ![Id(t)] =
                                  [st |-> "open", qty |-> exch[Id(t)].filled]]
           \/ /\ call[t].row # 0 /\ ~Active(t)'
              /\ positions' = [positions EXCEPT ![call[t].row].st = "closed"]
  BY <1>facts DEF CallStep, EntryStep, ExitStep, OpenRisk, MarginLockFails, EntryFilled,
     EntryFailed,
       ResolveEntry, SaveEntry, RecordExit, ExitFilled, ExitFailed, ResolveExit, CloseExit,
       Send, OutcomeUnknown, MarkUnfilled, durable, At, Return, Idle, Active
<1>others. ASSUME NEW u \in Threads, Active(u)'
           PROVE  Active(u) /\ Id(u)' = Id(u) /\ Sym(u)' = Sym(u) /\ call'[u].row = call[u].row
  <2>1. CASE u = t
    BY <2>1, <1>others, <1>facts, <1>frame DEF Active, Id, Sym
  <2>2. CASE u # t
    BY <2>2, <1>others, <1>frame DEF Active, Id, Sym
  <2> QED
    BY <2>1, <2>2
<1>1. CASE positions' = positions
  <2>1. \A id \in Orders : RowOK(id)'
    BY <1>1, <1>frame DEF RowsOK, RowOK
  <2>2. \A u \in Threads : Active(u)' => CallRowOK(u)'
    BY <1>1, <1>frame, <1>others DEF RowsOK, CallRowOK
  <2> QED
    BY <2>1, <2>2, <1>frame DEF RowsOK
<1>2. CASE /\ order[Id(t)].kind = "entry" /\ call[t].at = "row" /\ ~Active(t)'
           /\ positions' = [positions EXCEPT ![Id(t)] =
                               [st |-> "open", qty |-> exch[Id(t)].filled]]
  <2>1. exch[Id(t)].filled > 0
    BY <1>2, <1>facts DEF StageOK
  <2>2. ASSUME NEW id \in Orders PROVE RowOK(id)'
    <3>1. CASE id = Id(t)
      <4>1. positions'[id] = [st |-> "open", qty |-> exch[Id(t)].filled]
        BY <3>1, <1>2, <1>facts
      <4>2. ~(id > issued')
        BY <3>1, <1>facts, <1>frame
      <4> QED
        BY <4>1, <4>2, <3>1, <2>1, <1>frame, <1>facts DEF RowsOK, RowOK
    <3>2. CASE id # Id(t)
      <4>1. positions'[id] = positions[id]
        BY <3>2, <1>2, <1>facts
      <4> QED
        BY <4>1, <1>frame DEF RowsOK, RowOK
    <3> QED
      BY <3>1, <3>2
  <2>3. ASSUME NEW u \in Threads, Active(u)' PROVE CallRowOK(u)'
    <3>1. /\ u # t /\ Active(u) /\ Id(u)' = Id(u) /\ Sym(u)' = Sym(u)
          /\ call'[u].row = call[u].row /\ CallRowOK(u)
      BY <2>3, <1>2, <1>others DEF RowsOK
    <3>2. Id(u) # Id(t)
      BY <3>1, <1>facts DEF CallsOK
    <3>3. order[Id(u)].kind = "entry" => positions'[Id(u)] = positions[Id(u)]
      BY <3>2, <1>2
    <3>4. call[u].row # 0 => call[u].row \in Orders
      BY <3>1, <1>facts DEF CallRowOK
    <3>5. call[u].row # 0 => positions'[call[u].row].st # "none"
      <4>1. CASE call[u].row = Id(t)
        BY <4>1, <1>2, <1>facts
      <4>2. CASE call[u].row # Id(t)
        BY <4>2, <3>1, <1>2 DEF CallRowOK
      <4> QED
        BY <4>1, <4>2
    <3> QED
      BY <3>1, <3>3, <3>5, <1>frame DEF CallRowOK
  <2> QED
    BY <2>2, <2>3, <1>frame DEF RowsOK
<1>3. CASE /\ call[t].row # 0 /\ ~Active(t)'
           /\ positions' = [positions EXCEPT ![call[t].row].st = "closed"]
  <2>1. /\ call[t].row \in Orders /\ positions[call[t].row].st # "none"
        /\ positions'[call[t].row].st = "closed"
        /\ ~(call[t].row > issued)
    BY <1>3, <1>facts, <1>rowIn DEF RowsOK, CallRowOK, Row
  <2>2. ASSUME NEW id \in Orders PROVE RowOK(id)'
    <3>1. CASE id = call[t].row
      BY <3>1, <2>1, <1>frame DEF RowsOK, RowOK
    <3>2. CASE id # call[t].row
      <4>1. positions'[id] = positions[id]
        BY <3>2, <1>3, <1>facts
      <4> QED
        BY <4>1, <1>frame DEF RowsOK, RowOK
    <3> QED
      BY <3>1, <3>2
  <2>3. ASSUME NEW u \in Threads, Active(u)' PROVE CallRowOK(u)'
    <3>1. /\ Active(u) /\ Id(u)' = Id(u) /\ Sym(u)' = Sym(u)
          /\ call'[u].row = call[u].row /\ CallRowOK(u)
      BY <2>3, <1>others DEF RowsOK
    <3>2. order[Id(u)].kind = "entry" => positions'[Id(u)] = positions[Id(u)]
      BY <3>1, <2>1, <1>3 DEF CallRowOK
    <3>3. call[u].row # 0 => call[u].row \in Orders
      BY <3>1, <1>facts DEF CallRowOK
    <3>4. call[u].row # 0 => positions'[call[u].row].st # "none"
      <4>1. CASE call[u].row = call[t].row
        BY <4>1, <2>1
      <4>2. CASE call[u].row # call[t].row
        BY <4>2, <3>1, <1>3 DEF CallRowOK
      <4> QED
        BY <4>1, <4>2
    <3> QED
      BY <3>1, <3>2, <3>4, <1>frame DEF CallRowOK
  <2> QED
    BY <2>2, <2>3, <1>frame DEF RowsOK
<1> QED
  BY <1>change, <1>1, <1>2, <1>3

\* A new order has no row, and the row an exit is given is one of its symbol.
LEMMA IssueRows ==
  ASSUME IInv, RowsOK, NEW t \in Threads, NEW s \in Symbols,
         NEW row \in Rows(s) \cup {0},
         up' = up, up, positions' = positions, exch' = exch,
         issued + 1 \in Orders, issued' = issued + 1, exch[issued + 1] = NoRow,
         order'[issued + 1].sym = s, order'[issued + 1].qty >= 0,
         order'[issued + 1].kind = "entry" => row = 0,
         \A id \in Orders : id # issued + 1 => order'[id] = order[id],
         call'[t].id = issued + 1, call'[t].row = row,
         \A u \in Threads : u # t => call'[u] = call[u]
  PROVE  RowsOK'
<1>facts. /\ TypeOK /\ CallsOK /\ issued \in Nat /\ 1..issued \subseteq Orders
          /\ issued + 1 \notin 1..issued /\ issued + 1 > issued
          /\ \A i \in 1..issued : i \in 1..issued'
  BY IssuedOrders DEF IInv
<1>new. positions[issued + 1].st = "none"
  BY <1>facts DEF RowsOK, RowOK
<1>1. ASSUME NEW id \in Orders PROVE RowOK(id)'
  <2>1. id > issued' => id > issued
    <3>1. PICK i \in Nat : i = id
      BY TradingEngineAssumption DEF Orders
    <3> QED
      BY <3>1, <1>facts
  <2>2. exch'[id].filled <= order'[id].qty
    <3>1. CASE id = issued + 1
      BY <3>1 DEF NoRow
    <3>2. CASE id # issued + 1
      BY <3>2 DEF RowsOK, RowOK
    <3> QED
      BY <3>1, <3>2
  <2> QED
    BY <2>1, <2>2 DEF RowsOK, RowOK
<1>2. ASSUME NEW u \in Threads, Active(u)' PROVE CallRowOK(u)'
  <2>1. CASE u = t
    <3>1. Id(t)' = issued + 1 /\ Sym(t)' = s /\ call'[t].row = row
      BY DEF Id, Sym
    <3>2. row # 0 => /\ row \in Orders /\ order[row].kind = "entry" /\ order[row].sym = s
                     /\ positions[row].st # "none"
      BY DEF Rows, OrdersOn
    <3>3. row # 0 => row \in 1..issued
      <4>1. row # 0 => ~(row > issued)
        BY <3>2 DEF RowsOK, RowOK
      <4>2. row # 0 => row \in Nat /\ row >= 1
        BY <3>2, TradingEngineAssumption DEF Orders
      <4> QED
        BY <4>1, <4>2, <1>facts
    <3>4. row # 0 => order'[row] = order[row] /\ row \in 1..issued'
      BY <3>2, <3>3, <1>facts
    <3> QED
      BY <2>1, <3>1, <3>2, <3>4, <1>new DEF CallRowOK
  <2>2. CASE u # t
    <3>1. Active(u) /\ Id(u)' = Id(u) /\ call'[u] = call[u] /\ Id(u) \in 1..issued
      BY <2>2, <1>2, <1>facts DEF Active, Id, CallsOK
    <3>2. order'[Id(u)] = order[Id(u)] /\ Sym(u)' = Sym(u) /\ CallRowOK(u)
      BY <3>1, <1>facts DEF RowsOK, Sym
    <3>3. call[u].row # 0 => /\ call[u].row \in 1..issued /\ call[u].row \in 1..issued'
                             /\ order'[call[u].row] = order[call[u].row]
      BY <3>2, <1>facts DEF CallRowOK
    <3> QED
      BY <3>1, <3>2, <3>3 DEF CallRowOK
  <2> QED
    BY <2>1, <2>2
<1> QED
  BY <1>1, <1>2 DEF RowsOK

\* What BeginEntry and BeginExit issue, in the shape of IssueRows.
LEMMA BeginEntryIssues ==
  ASSUME IInv, NEW t \in Threads, NEW s \in Symbols, NEW q \in 1..MaxQty, BeginEntry(t, s, q)
  PROVE  /\ up /\ up' = up /\ positions' = positions /\ exch' = exch /\ q \in 0..MaxQty
         /\ openPositions' = openPositions /\ call[t].at = "idle"
         /\ issued + 1 \in Orders /\ issued' = issued + 1 /\ exch[issued + 1] = NoRow
         /\ order[issued + 1].kind = "none" /\ attempts[issued + 1] = NoRow
         /\ order'[issued + 1].kind = "entry"
         /\ order'[issued + 1].sym = s /\ order'[issued + 1].qty = q
         /\ \A id \in Orders : id # issued + 1 => order'[id] = order[id]
         /\ \A id \in Orders : id # issued + 1 => attempts'[id] = attempts[id]
         /\ call'[t].at = "open" /\ call'[t].id = issued + 1 /\ call'[t].row = 0
         /\ \A u \in Threads : u # t => call'[u] = call[u]
<1>1. /\ q \in 0..MaxQty /\ 0 \in 0..MaxOrders /\ "open" \in Stages \ {"idle"}
      /\ up /\ up' = up /\ call[t].at = "idle" /\ exch' = exch /\ positions' = positions
      /\ IssueOrder(t, "entry", s, q, 0, "open") /\ openPositions' = openPositions
  BY TradingEngineAssumption DEF BeginEntry, Free, Stages, memory
<1>2. \A id \in Orders : id # issued + 1 => attempts'[id] = attempts[id]
  BY DEF BeginEntry, IInv, TypeOK
<1>3. "entry" \in {"entry", "exit"}
  OBVIOUS
<1>4. /\ issued + 1 \in Orders /\ issued' = issued + 1 /\ exch[issued + 1] = NoRow
      /\ order[issued + 1].kind = "none" /\ attempts[issued + 1] = NoRow
      /\ order'[issued + 1] = [kind |-> "entry", sym |-> s, qty |-> q]
      /\ \A id \in Orders : id # issued + 1 => order'[id] = order[id]
      /\ call'[t] = [at |-> "open", id |-> issued + 1, row |-> 0]
      /\ \A u \in Threads : u # t => call'[u] = call[u]
  BY <1>1, <1>3, IssueFacts
<1> QED
  BY <1>1, <1>2, <1>4

\* The same of BeginExit.
LEMMA BeginExitIssues ==
  ASSUME IInv, NEW t \in Threads, NEW s \in Symbols, NEW row \in Rows(s) \cup {0},
         BeginExit(t, s, row)
  PROVE  /\ up /\ up' = up /\ positions' = positions /\ exch' = exch /\ attempts' = attempts
         /\ openPositions' = openPositions /\ call[t].at = "idle" /\ openPositions[s] \in 0..MaxQty
         /\ issued + 1 \in Orders /\ issued' = issued + 1 /\ exch[issued + 1] = NoRow
         /\ order[issued + 1].kind = "none" /\ attempts[issued + 1] = NoRow
         /\ order'[issued + 1].kind = "exit"
         /\ order'[issued + 1].sym = s /\ order'[issued + 1].qty = openPositions[s]
         /\ \A id \in Orders : id # issued + 1 => order'[id] = order[id]
         /\ call'[t].at = "record" /\ call'[t].id = issued + 1 /\ call'[t].row = row
         /\ \A u \in Threads : u # t => call'[u] = call[u]
<1>1. /\ openPositions[s] \in 0..MaxQty /\ row \in 0..MaxOrders
      /\ "record" \in Stages \ {"idle"} /\ positions' = positions
      /\ up /\ up' = up /\ call[t].at = "idle" /\ exch' = exch /\ attempts' = attempts
      /\ IssueOrder(t, "exit", s, openPositions[s], row, "record")
      /\ openPositions' = openPositions
  BY TradingEngineAssumption
     DEF IInv, BeginExit, Free, Stages, durable, Rows, OrdersOn, Orders, TypeOK
<1>2. "exit" \in {"entry", "exit"}
  OBVIOUS
<1>3. /\ issued + 1 \in Orders /\ issued' = issued + 1 /\ exch[issued + 1] = NoRow
      /\ order[issued + 1].kind = "none" /\ attempts[issued + 1] = NoRow
      /\ order'[issued + 1] = [kind |-> "exit", sym |-> s, qty |-> openPositions[s]]
      /\ \A id \in Orders : id # issued + 1 => order'[id] = order[id]
      /\ call'[t] = [at |-> "record", id |-> issued + 1, row |-> row]
      /\ \A u \in Threads : u # t => call'[u] = call[u]
  BY <1>1, <1>2, IssueFacts
<1> QED
  BY <1>1, <1>3

\* The rows of the positions table stay what RowsOK says in every step.
LEMMA RowsStep ==
  ASSUME IInv, RowsOK, [Next]_vars
  PROVE  RowsOK'
<1>facts. TypeOK /\ CallsOK /\ issued \in Nat /\ 1..issued \subseteq Orders
  BY IssuedOrders DEF IInv
<1>1. ASSUME NEW t \in Threads, NEW s \in Symbols, NEW q \in 1..MaxQty, BeginEntry(t, s, q)
      PROVE  RowsOK'
  <2>1. 0 \in Rows(s) \cup {0}
    OBVIOUS
  <2>q. q >= 0
    OBVIOUS
  <2>2. /\ up' = up /\ up /\ positions' = positions /\ exch' = exch
        /\ issued + 1 \in Orders /\ issued' = issued + 1 /\ exch[issued + 1] = NoRow
        /\ order'[issued + 1].sym = s /\ order'[issued + 1].qty >= 0
        /\ \A id \in Orders : id # issued + 1 => order'[id] = order[id]
        /\ call'[t].id = issued + 1 /\ call'[t].row = 0
        /\ \A u \in Threads : u # t => call'[u] = call[u]
    BY <1>1, <2>q, BeginEntryIssues
  <2> QED
    BY <2>1, <2>2, IssueRows
<1>2. ASSUME NEW t \in Threads, NEW s \in Symbols, NEW row \in Rows(s) \cup {0},
             BeginExit(t, s, row)
      PROVE  RowsOK'
  <2>q. openPositions[s] >= 0
    BY <1>facts, TradingEngineAssumption DEF TypeOK
  <2>1. /\ up' = up /\ up /\ positions' = positions /\ exch' = exch
        /\ issued + 1 \in Orders /\ issued' = issued + 1 /\ exch[issued + 1] = NoRow
        /\ order'[issued + 1].sym = s /\ order'[issued + 1].qty >= 0
        /\ order'[issued + 1].kind # "entry"
        /\ \A id \in Orders : id # issued + 1 => order'[id] = order[id]
        /\ call'[t].id = issued + 1 /\ call'[t].row = row
        /\ \A u \in Threads : u # t => call'[u] = call[u]
    BY <1>2, <2>q, BeginExitIssues
  <2> QED
    BY <2>1, IssueRows
<1>3. ASSUME NEW t \in Threads, CallStep(t) PROVE RowsOK'
  BY <1>3, CallStepRows
<1>4. ASSUME NEW id \in Orders, Fill(id) \/ Stop(id) PROVE RowsOK'
  <2>1. /\ UNCHANGED <<up, issued, order, call, positions, openPositions>>
        /\ \A other \in Orders : other # id => exch'[other] = exch[other]
    BY <1>4, <1>facts DEF Fill, Stop, durable, memory, TypeOK
  <2>2. exch'[id].filled <= order[id].qty
    <3>1. CASE Fill(id)
      BY <3>1, <1>facts, TradingEngineAssumption DEF Fill, TypeOK, ExchangeOrder, Ask
    <3>2. CASE Stop(id)
      BY <3>2, <1>facts DEF Stop, TypeOK, ExchangeOrder, RowsOK, RowOK
    <3> QED
      BY <1>4, <3>1, <3>2
  <2>3. \A other \in Orders : RowOK(other)'
    <3>1. ASSUME NEW other \in Orders, other # id PROVE RowOK(other)'
      BY <3>1, <2>1 DEF RowsOK, RowOK
    <3>2. RowOK(id)'
      BY <2>1, <2>2 DEF RowsOK, RowOK
    <3> QED
      BY <3>1, <3>2
  <2> QED
    BY <2>1, <2>3 DEF RowsOK, CallRowOK, Active, Id, Sym
<1>5. ASSUME Crash PROVE RowsOK'
  <2>1. UNCHANGED <<issued, order, positions, exch>> /\ \A t \in Threads : ~Active(t)'
    BY <1>5 DEF Crash, durable, Active, Idle
  <2>2. \A s \in Symbols : openPositions'[s] = 0
    BY <1>5 DEF Crash
  <2> QED
    BY <2>1, <2>2 DEF RowsOK, RowOK
<1>6. ASSUME NEW acceptReconcile \in BOOLEAN, Start(acceptReconcile) PROVE RowsOK'
  <2>1. UNCHANGED <<issued, order, positions, exch, call>> /\ up' /\ \A t \in Threads : ~Active(t)
    BY <1>6, <1>facts DEF Start, durable, CallsOK
  <2> QED
    BY <2>1 DEF RowsOK, RowOK, Active
<1>7. ASSUME RestoreAgain PROVE RowsOK'
  <2>1. UNCHANGED <<issued, order, positions, exch, call>> /\ up' /\ up
    BY <1>7, <1>facts DEF RestoreAgain, durable
  <2> QED
    BY <2>1 DEF RowsOK, RowOK, CallRowOK, Active, Id, Sym
<1>8. ASSUME UNCHANGED vars PROVE RowsOK'
  BY <1>8 DEF vars, memory, durable, RowsOK, RowOK, CallRowOK, Active, Id, Sym
<1> QED
  BY <1>1, <1>2, <1>3, <1>4, <1>5, <1>6, <1>7, <1>8 DEF Next

-----------------------------------------------------------------------------
(***************************************************************************)
(* What the exchange holds and what the table says, through one change.    *)
(***************************************************************************)

\* A symbol's orders are finitely many, and each filled a whole quantity.
LEMMA OrdersFinite ==
  ASSUME NEW e, e \in [Orders -> ExchangeOrder], NEW S \in SUBSET Orders
  PROVE  IsFiniteSet(S) /\ \A id \in S : [x \in Orders |-> e[x].filled][id] \in Int
<1>1. IsFiniteSet(Orders)
  BY TradingEngineAssumption, FS_Interval DEF Orders
<1>2. ASSUME NEW id \in S PROVE [x \in Orders |-> e[x].filled][id] \in Int
  <2>1. e[id] \in ExchangeOrder /\ id \in Orders
    OBVIOUS
  <2> QED
    BY <2>1, TradingEngineAssumption DEF ExchangeOrder
<1> QED
  BY <1>1, <1>2, FS_Subset

\* What is held is a whole number, below zero when an exit reversed it.
LEMMA HeldInt ==
  ASSUME TypeOK, NEW s
  PROVE  Held(s) \in Int
<1>1. exch \in [Orders -> ExchangeOrder]
  BY DEF TypeOK
<1>2. ASSUME NEW S \in SUBSET Orders PROVE FilledBy(S) \in Int
  <2>1. IsFiniteSet(S) /\ \A id \in S : [x \in Orders |-> exch[x].filled][id] \in Int
    BY <1>1, OrdersFinite
  <2> QED
    BY <2>1, SumInt DEF FilledBy
<1>3. OrdersOn(s, "entry") \in SUBSET Orders /\ OrdersOn(s, "exit") \in SUBSET Orders
  BY DEF OrdersOn
<1> QED
  BY <1>2, <1>3 DEF Held

\* Nothing filled and no order issued: the same is held.
LEMMA HeldSame ==
  ASSUME TypeOK, NEW s, order' = order,
         \A id \in Orders : order[id].sym = s => exch'[id].filled = exch[id].filled
  PROVE  Held(s)' = Held(s)
<1> DEFINE f == [x \in Orders |-> exch[x].filled]
           g == [x \in Orders |-> exch'[x].filled]
<1>1. ASSUME NEW k PROVE FilledBy(OrdersOn(s, k))' = FilledBy(OrdersOn(s, k))
  <2>1. OrdersOn(s, k)' = OrdersOn(s, k) /\ OrdersOn(s, k) \in SUBSET Orders
    BY DEF OrdersOn
  <2>2. IsFiniteSet(OrdersOn(s, k))
    BY <2>1, OrdersFinite DEF TypeOK
  <2>3. \A id \in OrdersOn(s, k) : g[id] = f[id]
    BY DEF OrdersOn
  <2>4. /\ FilledBy(OrdersOn(s, k)) = SumFunctionOnSet(f, OrdersOn(s, k))
        /\ FilledBy(OrdersOn(s, k))' = SumFunctionOnSet(g, OrdersOn(s, k))
    BY <2>1 DEF FilledBy
  <2> HIDE DEF f, g
  <2> QED
    BY <2>2, <2>3, <2>4, SumSame
<1> QED
  BY <1>1 DEF Held

\* An order that was just issued has filled nothing.
LEMMA HeldIssued ==
  ASSUME TypeOK, NEW s, NEW n \in Orders, exch[n].filled = 0, exch' = exch,
         \A id \in Orders : id # n => order'[id] = order[id]
  PROVE  Held(s)' = Held(s)
<1> DEFINE f == [x \in Orders |-> exch[x].filled]
<1>1. ASSUME NEW k PROVE FilledBy(OrdersOn(s, k))' = FilledBy(OrdersOn(s, k))
  <2>1. OrdersOn(s, k)' \in SUBSET Orders /\ OrdersOn(s, k) \in SUBSET Orders
    BY DEF OrdersOn
  <2>2. OrdersOn(s, k)' \ {n} = OrdersOn(s, k) \ {n}
    BY DEF OrdersOn
  <2>3. /\ IsFiniteSet(OrdersOn(s, k)') /\ IsFiniteSet(OrdersOn(s, k))
        /\ \A id \in OrdersOn(s, k)' \cup OrdersOn(s, k) : f[id] \in Int
    BY <2>1, OrdersFinite DEF TypeOK
  <2>4. f[n] = 0
    OBVIOUS
  <2>5. FilledBy(OrdersOn(s, k))' = SumFunctionOnSet(f, OrdersOn(s, k)')
    BY DEF FilledBy
  <2>6. FilledBy(OrdersOn(s, k)) = SumFunctionOnSet(f, OrdersOn(s, k))
    BY DEF FilledBy
  <2> HIDE DEF f
  <2> QED
    BY <2>2, <2>3, <2>4, <2>5, <2>6, SumIgnores
<1> QED
  BY <1>1 DEF Held

\* One order filled: its symbol's holding moves by what it filled.
LEMMA HeldMoves ==
  ASSUME TypeOK, TypeOK', NEW s, NEW id \in Orders, order' = order, order[id].sym = s,
         \A other \in Orders : other # id => exch'[other].filled = exch[other].filled
  PROVE  /\ order[id].kind = "entry" =>
               Held(s)' = Held(s) + exch'[id].filled - exch[id].filled
         /\ order[id].kind = "exit" =>
               Held(s)' = Held(s) - exch'[id].filled + exch[id].filled
         /\ order[id].kind \notin {"entry", "exit"} => Held(s)' = Held(s)
<1> DEFINE f == [x \in Orders |-> exch[x].filled]
           g == [x \in Orders |-> exch'[x].filled]
<1>1. ASSUME NEW k
      PROVE  /\ OrdersOn(s, k)' = OrdersOn(s, k) /\ OrdersOn(s, k) \in SUBSET Orders
             /\ IsFiniteSet(OrdersOn(s, k))
             /\ \A x \in OrdersOn(s, k) : f[x] \in Int /\ g[x] \in Int
             /\ FilledBy(OrdersOn(s, k)) = SumFunctionOnSet(f, OrdersOn(s, k))
             /\ FilledBy(OrdersOn(s, k))' = SumFunctionOnSet(g, OrdersOn(s, k))
             /\ SumFunctionOnSet(f, OrdersOn(s, k)) \in Int
  <2>1. OrdersOn(s, k)' = OrdersOn(s, k) /\ OrdersOn(s, k) \in SUBSET Orders
    BY DEF OrdersOn
  <2>2. exch \in [Orders -> ExchangeOrder] /\ exch' \in [Orders -> ExchangeOrder]
    BY DEF TypeOK
  <2>3. IsFiniteSet(OrdersOn(s, k)) /\ \A x \in OrdersOn(s, k) : f[x] \in Int /\ g[x] \in Int
    BY <2>1, <2>2, OrdersFinite
  <2>4. /\ FilledBy(OrdersOn(s, k)) = SumFunctionOnSet(f, OrdersOn(s, k))
        /\ FilledBy(OrdersOn(s, k))' = SumFunctionOnSet(g, OrdersOn(s, k))
    BY <2>1 DEF FilledBy
  <2> HIDE DEF f, g
  <2>5. SumFunctionOnSet(f, OrdersOn(s, k)) \in Int
    BY <2>3, SumInt
  <2> QED
    BY <2>1, <2>3, <2>4, <2>5
<1>2. ASSUME NEW k, order[id].kind = k
      PROVE  FilledBy(OrdersOn(s, k))' = FilledBy(OrdersOn(s, k)) + g[id] - f[id]
  <2>1. id \in OrdersOn(s, k) /\ \A x \in OrdersOn(s, k) \ {id} : f[x] = g[x]
    BY <1>2 DEF OrdersOn
  <2> HIDE DEF f, g
  <2>2. SumFunctionOnSet(g, OrdersOn(s, k)) = SumFunctionOnSet(f, OrdersOn(s, k)) + g[id] - f[id]
    BY <1>1, <2>1, SumMoves
  <2> QED
    BY <1>1, <2>2
<1>3. ASSUME NEW k, order[id].kind # k
      PROVE  FilledBy(OrdersOn(s, k))' = FilledBy(OrdersOn(s, k))
  <2>1. \A x \in OrdersOn(s, k) : f[x] = g[x]
    BY <1>3 DEF OrdersOn
  <2> HIDE DEF f, g
  <2>2. SumFunctionOnSet(g, OrdersOn(s, k)) = SumFunctionOnSet(f, OrdersOn(s, k))
    BY <1>1, <2>1, SumSame
  <2> QED
    BY <1>1, <2>2
<1>4. /\ f[id] = exch[id].filled /\ g[id] = exch'[id].filled
      /\ exch[id].filled \in Int /\ exch'[id].filled \in Int
  BY DEF TypeOK, ExchangeOrder
<1>5. FilledBy(OrdersOn(s, "entry")) \in Int /\ FilledBy(OrdersOn(s, "exit")) \in Int
  BY <1>1
<1> HIDE DEF f, g
<1>6. CASE order[id].kind = "entry"
  BY <1>6, <1>2, <1>3, <1>4, <1>5 DEF Held
<1>7. CASE order[id].kind = "exit"
  BY <1>7, <1>2, <1>3, <1>4, <1>5 DEF Held
<1>8. CASE order[id].kind \notin {"entry", "exit"}
  BY <1>8, <1>3 DEF Held
<1> QED
  BY <1>6, <1>7, <1>8

\* The open rows of a symbol are at most one and hold q.
Rowed(s, q) ==
    \/ OpenRows(s) = {} /\ q = 0
    \/ \E r \in OpenRows(s) : OpenRows(s) = {r} /\ positions[r].qty = q

\* Then the table's quantity of the symbol is q.
LEMMA RowedQty ==
  ASSUME TypeOK, NEW s, NEW q, Rowed(s, q)
  PROVE  RowQty(s) = q
<1>1. CASE OpenRows(s) = {} /\ q = 0
  BY <1>1, SumEmpty DEF RowQty
<1>2. CASE \E r \in OpenRows(s) : OpenRows(s) = {r} /\ positions[r].qty = q
  <2>1. PICK r \in OpenRows(s) : OpenRows(s) = {r} /\ positions[r].qty = q
    BY <1>2
  <2> DEFINE f == [id \in Orders |-> positions[id].qty]
  <2>2. r \in Orders /\ f[r] = q /\ f[r] \in Int
    BY <2>1, TradingEngineAssumption DEF OpenRows, OrdersOn, TypeOK, Row
  <2>3. RowQty(s) = SumFunctionOnSet(f, {r})
    BY <2>1 DEF RowQty
  <2> HIDE DEF f
  <2> QED
    BY <2>2, <2>3, SumOne
<1> QED
  BY <1>1, <1>2 DEF Rowed

-----------------------------------------------------------------------------
(***************************************************************************)
(* The three books.  At rest they agree; between the stages of a call they *)
(* differ by exactly what the call has yet to write.                       *)
(***************************************************************************)
Filled(t) == exch[Id(t)].filled

\* Nothing the code is known to mishandle has happened to the symbol.
Clean(s) == s \notin suspect \cup revived \cup alerted

AtRest(s) == openPositions[s] = Held(s) /\ Rowed(s, Held(s))

\* PlaceEntryOrder: nothing was held before it; while the broker works the
\* risk book has the whole quantity, and afterwards what filled.
EntryBooks(t, s) ==
    \/ call[t].at \in {"open", "reject"} /\ AtRest(s)
    \/ /\ call[t].at \in {"send", "wait"}
       /\ OpenRows(s) = {}
       /\ openPositions[s] = Qty(t)
       /\ Held(s) = Filled(t)
    \/ /\ call[t].at \in {"resolve", "row"}
       /\ OpenRows(s) = {}
       /\ openPositions[s] = Filled(t)
       /\ Held(s) = Filled(t)

\* PlaceExitOrder: it asks for what the risk book and the table both have,
\* and the row it was given stays open until its last stage.
ExitBooks(t, s) ==
    /\ call[t].row # 0 => call[t].row \in OpenRows(s)
    /\ \/ call[t].at = "reject" /\ AtRest(s)
       \/ /\ call[t].at \in {"record", "send", "wait"}
          /\ openPositions[s] = Qty(t)
          /\ Rowed(s, Qty(t))
          /\ Held(s) + Filled(t) = Qty(t)
       \/ /\ call[t].at \in {"resolve", "row"}
          /\ openPositions[s] = 0
          /\ Held(s) = 0

CallBooks(t, s) ==
    \/ order[Id(t)].kind = "entry" /\ EntryBooks(t, s)
    \/ order[Id(t)].kind = "exit" /\ ExitBooks(t, s)

SingleRow(s) == \A a, b \in OpenRows(s) : a = b
SingleCall(s) == \A t, u \in Threads : CallOn(t, s) /\ CallOn(u, s) => t = u

\* Some call waits for every order that works at the exchange.
Awaited(s) ==
    \A id \in Orders : order[id].sym = s /\ exch[id].st = "live" =>
        \E t \in Threads : Active(t) /\ Id(t) = id

BooksOK(s) ==
    Clean(s) =>
        /\ SingleRow(s)
        /\ SingleCall(s)
        /\ up => Awaited(s)
        /\ up /\ ~Busy(s) => AtRest(s)
        /\ \A t \in Threads : CallOn(t, s) => CallBooks(t, s)

\* A symbol whose books, orders and calls a step leaves alone.
LEMMA BooksFrame ==
  ASSUME NEW s, BooksOK(s), Clean(s)' => Clean(s), up' = up,
         openPositions'[s] = openPositions[s], Held(s)' = Held(s), OpenRows(s)' = OpenRows(s),
         \A id \in OpenRows(s) : positions'[id] = positions[id],
         \A id \in Orders : order'[id].sym = s /\ exch'[id].st = "live" =>
                               order[id].sym = s /\ exch[id].st = "live",
         \A t \in Threads : CallOn(t, s)' <=> CallOn(t, s),
         \A t \in Threads : CallOn(t, s) =>
            call'[t] = call[t] /\ order'[Id(t)] = order[Id(t)] /\ exch'[Id(t)] = exch[Id(t)]
  PROVE  BooksOK(s)'
<1> SUFFICES ASSUME Clean(s)'
             PROVE  /\ SingleRow(s)' /\ SingleCall(s)' /\ (up => Awaited(s))'
                    /\ (up /\ ~Busy(s) => AtRest(s))'
                    /\ \A t \in Threads : CallOn(t, s)' => CallBooks(t, s)'
  BY DEF BooksOK
<1>1. /\ SingleRow(s) /\ SingleCall(s) /\ (up => Awaited(s)) /\ (up /\ ~Busy(s) => AtRest(s))
      /\ \A t \in Threads : CallOn(t, s) => CallBooks(t, s)
  BY DEF BooksOK
<1>2. SingleRow(s)' /\ SingleCall(s)'
  BY <1>1 DEF SingleRow, SingleCall
<1>3. (up => Awaited(s))'
  <2> SUFFICES ASSUME up, NEW id \in Orders, order'[id].sym = s, exch'[id].st = "live"
               PROVE  \E t \in Threads : Active(t)' /\ Id(t)' = id
    BY DEF Awaited
  <2>1. PICK t \in Threads : Active(t) /\ Id(t) = id
    BY <1>1 DEF Awaited
  <2>2. CallOn(t, s)
    BY <2>1 DEF CallOn, Active, Id
  <2> QED
    BY <2>1, <2>2 DEF Active, Id
<1>4. \A q : Rowed(s, q)' <=> Rowed(s, q)
  BY DEF Rowed
<1>5. AtRest(s)' <=> AtRest(s)
  BY <1>4 DEF AtRest
<1>6. Busy(s)' <=> Busy(s)
  BY DEF Busy
<1>7. ASSUME NEW t \in Threads, CallOn(t, s)' PROVE CallBooks(t, s)'
  <2>1. /\ Id(t)' = Id(t) /\ Qty(t)' = Qty(t) /\ Filled(t)' = Filled(t) /\ call'[t] = call[t]
        /\ order'[Id(t)] = order[Id(t)] /\ CallBooks(t, s)
    BY <1>1, <1>7 DEF Id, Qty, Filled
  <2>2. EntryBooks(t, s) => EntryBooks(t, s)'
    BY <2>1, <1>5 DEF EntryBooks
  <2>3. ExitBooks(t, s) => ExitBooks(t, s)'
    BY <2>1, <1>4, <1>5 DEF ExitBooks
  <2> QED
    BY <2>1, <2>2, <2>3 DEF CallBooks
<1> QED
  BY <1>1, <1>2, <1>3, <1>5, <1>6, <1>7

\* A call leaves the books of the other symbols alone.
LEMMA OtherBooks ==
  ASSUME IInv, RowsOK, NEW t \in Threads, CallStep(t), NEW s \in Symbols, s # Sym(t), BooksOK(s)
  PROVE  BooksOK(s)'
<1>facts. /\ TypeOK /\ CallsOK /\ Active(t) /\ up /\ Id(t) = call[t].id
          /\ \A u \in Threads : Active(u) => Id(u) \in Orders
  <2>1. TypeOK /\ CallsOK /\ Active(t) /\ up
    BY StepActive DEF IInv
  <2> QED
    BY <2>1, CallFacts
<1>frame. /\ up' /\ order' = order
          /\ \A u \in Threads \ {t} : call'[u] = call[u]
          /\ \A id \in Orders \ {Id(t)} : exch'[id] = exch[id]
          /\ call'[t].at # "idle" => call'[t].id = call[t].id
          /\ \A x \in Symbols : x # Sym(t) => openPositions'[x] = openPositions[x]
          /\ \A id \in Orders : order[id].sym # Sym(t) => positions'[id] = positions[id]
          /\ \A id \in Orders : exch'[id].filled = exch[id].filled
          /\ alerted \subseteq alerted' /\ suspect \subseteq suspect' /\ revived' = revived
  BY CallStepFrame, CallStepBooks
<1>1. Clean(s)' => Clean(s)
  BY <1>frame DEF Clean
<1>2. Held(s)' = Held(s)
  BY <1>facts, <1>frame, HeldSame
<1>3. OpenRows(s)' = OpenRows(s) /\ \A id \in OpenRows(s) : positions'[id] = positions[id]
  BY <1>frame DEF OpenRows, OrdersOn
<1>4. ASSUME NEW id \in Orders, order'[id].sym = s, exch'[id].st = "live"
      PROVE  order[id].sym = s /\ exch[id].st = "live"
  <2>1. id # Id(t)
    BY <1>4, <1>frame DEF Sym
  <2> QED
    BY <2>1, <1>4, <1>frame
<1>5. \A u \in Threads : CallOn(u, s)' <=> CallOn(u, s)
  <2>1. ~CallOn(t, s) /\ ~CallOn(t, s)'
    BY <1>facts, <1>frame DEF CallOn, Sym
  <2> QED
    BY <2>1, <1>frame DEF CallOn
<1>6. ASSUME NEW u \in Threads, CallOn(u, s)
      PROVE  call'[u] = call[u] /\ order'[Id(u)] = order[Id(u)] /\ exch'[Id(u)] = exch[Id(u)]
  <2>1. u # t /\ Active(u)
    BY <1>6, <1>facts DEF CallOn, Sym, Active
  <2>2. Id(u) # Id(t) /\ Id(u) \in Orders
    BY <2>1, <1>facts DEF CallsOK
  <2> QED
    BY <2>1, <2>2, <1>frame
<1> QED
  BY <1>facts, <1>frame, <1>1, <1>2, <1>3, <1>4, <1>5, <1>6, BooksFrame

\* What a call on a clean symbol finds: the books its stage says, no other
\* call on the symbol, and a holding that its own step does not move.
LEMMA OwnFacts ==
  ASSUME IInv, RowsOK, NEW t \in Threads, CallStep(t), NEW s \in Symbols, s = Sym(t),
         BooksOK(s), Clean(s)'
  PROVE  /\ up /\ up' /\ Active(t) /\ StageOK(t) /\ Clean(s) /\ SingleRow(s) /\ Awaited(s)
         /\ CallBooks(t, s) /\ CallRowOK(t)
         /\ \A u \in Threads : u # t => ~CallOn(u, s)
         /\ openPositions[s] \in Nat /\ Filled(t) \in Nat /\ Qty(t) \in Nat /\ Held(s) \in Int
         /\ Filled(t) <= Qty(t)
         /\ Held(s)' = Held(s)
         /\ call'[t].at # "idle" =>
               /\ Id(t)' = Id(t) /\ Filled(t)' = Filled(t) /\ Qty(t)' = Qty(t)
               /\ order'[Id(t)'] = order[Id(t)] /\ call'[t].row = call[t].row
               /\ OpenRows(s)' = OpenRows(s) /\ positions' = positions
         /\ positions' = positions =>
               /\ OpenRows(s)' = OpenRows(s)
               /\ \A q : Rowed(s, q)' <=> Rowed(s, q)
         /\ \A r \in OpenRows(s) : positions[r].qty > 0
<1>1. /\ TypeOK /\ CallsOK /\ StagesOK /\ Active(t) /\ up /\ Id(t) = call[t].id /\ Id(t) \in Orders
      /\ Qty(t) \in 0..MaxQty /\ exch[Id(t)] \in ExchangeOrder
  <2>1. TypeOK /\ CallsOK /\ StagesOK /\ Active(t) /\ up
    BY StepActive DEF IInv
  <2> QED
    BY <2>1, CallFacts
<1>2. /\ up' /\ order' = order
      /\ call'[t].at # "idle" =>
            call'[t].id = call[t].id /\ call'[t].row = call[t].row /\ positions' = positions
      /\ \A id \in Orders : exch'[id].filled = exch[id].filled
      /\ alerted \subseteq alerted' /\ suspect \subseteq suspect' /\ revived' = revived
  BY CallStepFrame, CallStepBooks
<1>3. Clean(s)
  BY <1>2 DEF Clean
<1>4. CallOn(t, s)
  BY <1>1 DEF CallOn, Active, Sym
<1>5. /\ SingleRow(s) /\ Awaited(s) /\ CallBooks(t, s)
      /\ \A u \in Threads : u # t => ~CallOn(u, s)
  BY <1>1, <1>3, <1>4 DEF BooksOK, SingleCall
<1>6. StageOK(t) /\ CallRowOK(t) /\ Filled(t) <= Qty(t)
  BY <1>1 DEF StagesOK, RowsOK, RowOK, Filled, Qty
<1>7. openPositions[s] \in Nat /\ Filled(t) \in Nat /\ Qty(t) \in Nat
  BY <1>1, TradingEngineAssumption DEF TypeOK, Filled, ExchangeOrder
<1>8. Held(s) \in Int /\ Held(s)' = Held(s)
  BY <1>1, <1>2, HeldInt, HeldSame
<1>9. positions' = positions =>
         OpenRows(s)' = OpenRows(s) /\ \A q : Rowed(s, q)' <=> Rowed(s, q)
  BY <1>2 DEF OpenRows, OrdersOn, Rowed
<1>10. call'[t].at # "idle" =>
               /\ Id(t)' = Id(t) /\ Filled(t)' = Filled(t) /\ Qty(t)' = Qty(t)
               /\ order'[Id(t)'] = order[Id(t)]
  BY <1>1, <1>2 DEF Id, Filled, Qty
<1>11. \A r \in OpenRows(s) : positions[r].qty > 0
  BY DEF OpenRows, OrdersOn, RowsOK, RowOK
<1> QED
  BY <1>1, <1>2, <1>3, <1>5, <1>6, <1>7, <1>8, <1>9, <1>10, <1>11

\* It is enough to look at the call that moved.
LEMMA OwnBooksSuffice ==
  ASSUME IInv, RowsOK, NEW t \in Threads, CallStep(t), NEW s \in Symbols, s = Sym(t),
         BooksOK(s), Clean(s)',
         call'[t].at = "idle" => AtRest(s)' /\ exch'[Id(t)].st # "live",
         call'[t].at # "idle" => CallBooks(t, s)'
  PROVE  BooksOK(s)'
<1>facts. /\ up' /\ SingleRow(s) /\ Awaited(s) /\ Id(t) = call[t].id /\ CallsOK /\ Active(t)
          /\ \A u \in Threads : u # t => ~CallOn(u, s)
          /\ call'[t].at # "idle" => Id(t)' = Id(t) /\ OpenRows(s)' = OpenRows(s)
  BY OwnFacts DEF IInv, Id
<1>frame. /\ order' = order /\ \A u \in Threads \ {t} : call'[u] = call[u]
          /\ \A id \in Orders \ {Id(t)} : exch'[id] = exch[id]
  BY CallStepFrame
<1>1. \A u \in Threads : u # t => ~CallOn(u, s)'
  BY <1>facts, <1>frame DEF CallOn
<1>2. CallOn(t, s)' <=> call'[t].at # "idle"
  BY <1>facts, <1>frame DEF CallOn, Sym, Id
<1>3. SingleRow(s)'
  <2>1. CASE call'[t].at = "idle"
    BY <2>1 DEF AtRest, Rowed, SingleRow
  <2>2. CASE call'[t].at # "idle"
    BY <2>2, <1>facts DEF SingleRow
  <2> QED
    BY <2>1, <2>2
<1>4. SingleCall(s)'
  BY <1>1 DEF SingleCall
<1>5. Awaited(s)'
  <2> SUFFICES ASSUME NEW id \in Orders, order'[id].sym = s, exch'[id].st = "live"
               PROVE  \E u \in Threads : Active(u)' /\ Id(u)' = id
    BY DEF Awaited
  <2>1. CASE id = Id(t)
    <3>1. call'[t].at # "idle"
      BY <2>1
    <3> QED
      BY <3>1, <2>1, <1>facts DEF Active
  <2>2. CASE id # Id(t)
    <3>1. PICK u \in Threads : Active(u) /\ Id(u) = id
      BY <2>2, <1>facts, <1>frame DEF Awaited
    <3>2. u # t
      BY <3>1, <2>2
    <3> QED
      BY <3>1, <3>2, <1>frame DEF Active, Id
  <2> QED
    BY <2>1, <2>2
<1>6. ~Busy(s)' => AtRest(s)'
  BY <1>2 DEF Busy
<1>7. \A u \in Threads : CallOn(u, s)' => CallBooks(u, s)'
  BY <1>1, <1>2
<1> QED
  BY <1>facts, <1>3, <1>4, <1>5, <1>6, <1>7 DEF BooksOK

\* A step of PlaceEntryOrder keeps the books of its symbol in step.
LEMMA EntryKeepsBooks ==
  ASSUME IInv, RowsOK, NEW t \in Threads, EntryStep(t), NEW s \in Symbols, s = Sym(t),
         BooksOK(s), Clean(s)'
  PROVE  BooksOK(s)'
<1>step. CallStep(t)
  BY DEF CallStep
<1>facts. /\ up /\ up' /\ Active(t) /\ StageOK(t) /\ CallBooks(t, s) /\ CallRowOK(t)
          /\ openPositions[s] \in Nat /\ Filled(t) \in Nat /\ Qty(t) \in Nat /\ Held(s) \in Int
          /\ Filled(t) <= Qty(t)
          /\ Held(s)' = Held(s)
          /\ call'[t].at # "idle" =>
               /\ Id(t)' = Id(t) /\ Filled(t)' = Filled(t) /\ Qty(t)' = Qty(t)
               /\ order'[Id(t)'] = order[Id(t)]
               /\ OpenRows(s)' = OpenRows(s)
          /\ positions' = positions =>
               /\ OpenRows(s)' = OpenRows(s)
               /\ \A q : Rowed(s, q)' <=> Rowed(s, q)
          /\ \A r \in OpenRows(s) : positions[r].qty > 0
  BY <1>step, OwnFacts
<1>types. /\ Id(t) \in Orders /\ exch \in [Orders -> ExchangeOrder] /\ call \in [Threads -> Call]
          /\ openPositions \in [Symbols -> 0..MaxQty] /\ positions \in [Orders -> Row]
          /\ Id(t) = call[t].id /\ order[Id(t)].sym = s
  <2>1. TypeOK /\ CallsOK
    BY DEF IInv
  <2> QED
    BY <2>1, <1>facts, CallFacts DEF TypeOK
<1>goto. \A stage \in Stages : Goto(t, stage) => call'[t].at = stage
  BY <1>types DEF Goto
<1>return. Return(t) => call'[t].at = "idle"
  BY <1>types DEF Return, Idle
<1>stages. {"open", "send", "wait", "resolve", "reject", "unknown", "row"} \subseteq Stages
  BY DEF Stages
<1>kind. order[Id(t)].kind = "entry" /\ EntryBooks(t, s)
  BY <1>facts DEF EntryStep, OpenRisk, MarginLockFails, EntryFilled, EntryFailed, ResolveEntry,
                  SaveEntry, At, Id, CallBooks
<1>1. CASE OpenRisk(t)
  <2>1. call[t].at = "open" /\ call'[t].at = "send" /\ positions' = positions
    BY <1>1, <1>goto, <1>stages DEF OpenRisk, At, durable
  <2>2. openPositions[s] = 0 /\ openPositions'[s] = Qty(t)
    <3>1. openPositions[s] > 0 => s \in suspect'
      BY <1>1 DEF OpenRisk
    <3> QED
      BY <3>1, <1>1, <1>facts, <1>types DEF OpenRisk, Clean
  <2>3. AtRest(s) /\ Filled(t) = 0
    BY <2>1, <1>kind, <1>facts DEF EntryBooks, StageOK, NoRow, Filled
  <2>4. Held(s) = 0 /\ OpenRows(s) = {}
    <3>1. Held(s) = 0 /\ Rowed(s, 0)
      BY <2>2, <2>3 DEF AtRest
    <3> QED
      BY <3>1, <1>facts DEF Rowed
  <2>5. EntryBooks(t, s)'
    BY <2>1, <2>2, <2>3, <2>4, <1>facts DEF EntryBooks
  <2> QED
    BY <2>1, <2>5, <1>step, <1>kind, <1>facts, OwnBooksSuffice DEF CallBooks
<1>2. CASE MarginLockFails(t)
  <2>1. /\ call[t].at = "open" /\ call'[t].at = "idle" /\ positions' = positions
        /\ openPositions' = openPositions /\ exch' = exch
    BY <1>2, <1>return DEF MarginLockFails, At, durable, memory
  <2>2. AtRest(s)' /\ exch'[Id(t)].st # "live"
    BY <2>1, <1>kind, <1>facts DEF EntryBooks, AtRest, StageOK, NoRow
  <2> QED
    BY <2>1, <2>2, <1>step, OwnBooksSuffice
<1>3. CASE EntryFilled(t)
  <2>1. call[t].at = "wait" /\ call'[t].at = "resolve" /\ Filled(t) > 0
    BY <1>3, <1>goto, <1>stages DEF EntryFilled, At, Filled
  <2>2. openPositions[s] = Qty(t) /\ Qty(t) > 0 /\ OpenRows(s) = {} /\ Held(s) = Filled(t)
    BY <2>1, <1>kind, <1>facts DEF EntryBooks
  <2>3. openPositions'[s] = Filled(t)
    BY <2>2, <1>3, <1>types DEF EntryFilled, Filled
  <2>4. EntryBooks(t, s)'
    BY <2>1, <2>2, <2>3, <1>facts DEF EntryBooks
  <2> QED
    BY <2>1, <2>4, <1>step, <1>kind, <1>facts, OwnBooksSuffice DEF CallBooks
<1>4. CASE EntryFailed(t)
  <2>1. /\ call[t].at = "wait" /\ call'[t].at = "reject" /\ Filled(t) = 0
        /\ positions' = positions
    BY <1>4, <1>goto, <1>stages DEF EntryFailed, At, Filled, durable
  <2>2. OpenRows(s) = {} /\ Held(s) = 0 /\ openPositions'[s] = 0
    BY <2>1, <1>4, <1>kind, <1>types DEF EntryBooks, EntryFailed
  <2>3. Rowed(s, 0)
    BY <2>2 DEF Rowed
  <2>4. AtRest(s)'
    BY <2>1, <2>2, <2>3, <1>facts DEF AtRest
  <2>5. EntryBooks(t, s)'
    BY <2>1, <2>4 DEF EntryBooks
  <2> QED
    BY <2>1, <2>5, <1>step, <1>kind, <1>facts, OwnBooksSuffice DEF CallBooks
<1>5. CASE ResolveEntry(t)
  <2>1. call[t].at = "resolve" /\ call'[t].at = "row" /\ openPositions' = openPositions
    BY <1>5, <1>goto, <1>stages DEF ResolveEntry, At, memory
  <2>2. EntryBooks(t, s)'
    BY <2>1, <1>kind, <1>facts DEF EntryBooks
  <2> QED
    BY <2>1, <2>2, <1>step, <1>kind, <1>facts, OwnBooksSuffice DEF CallBooks
<1>6. CASE SaveEntry(t)
  <2>1. /\ call[t].at = "row" /\ call'[t].at = "idle" /\ openPositions' = openPositions
        /\ order' = order /\ exch' = exch
    BY <1>6, <1>return DEF SaveEntry, At, memory
  <2>2. positions' = [positions EXCEPT ![Id(t)] = [st |-> "open", qty |-> Filled(t)]]
    BY <1>6 DEF SaveEntry, Clean, Filled
  <2>3. OpenRows(s) = {} /\ openPositions[s] = Filled(t) /\ Held(s) = Filled(t)
    BY <2>1, <1>kind DEF EntryBooks
  <2>4. OpenRows(s)' = {Id(t)} /\ positions'[Id(t)].qty = Filled(t)
    <3>1. Id(t) \in OpenRows(s)'
      BY <2>1, <2>2, <1>kind, <1>types DEF OpenRows, OrdersOn
    <3>2. ASSUME NEW r \in OpenRows(s)', r # Id(t) PROVE r \in OpenRows(s)
      BY <3>2, <2>1, <2>2, <1>types DEF OpenRows, OrdersOn
    <3> QED
      BY <3>1, <3>2, <2>2, <2>3, <1>types
  <2>5. AtRest(s)'
    BY <2>1, <2>3, <2>4, <1>facts DEF AtRest, Rowed
  <2>6. exch'[Id(t)].st # "live"
    BY <2>1, <1>facts DEF StageOK
  <2> QED
    BY <2>1, <2>5, <2>6, <1>step, OwnBooksSuffice
<1> QED
  BY <1>1, <1>2, <1>3, <1>4, <1>5, <1>6 DEF EntryStep

\* So does a step of PlaceExitOrder: a fill that is not the whole quantity
\* and an exit without a row make the symbol suspect.
LEMMA ExitKeepsBooks ==
  ASSUME IInv, RowsOK, NEW t \in Threads, ExitStep(t), NEW s \in Symbols, s = Sym(t),
         BooksOK(s), Clean(s)'
  PROVE  BooksOK(s)'
<1>step. CallStep(t)
  BY DEF CallStep
<1>facts. /\ up /\ up' /\ Active(t) /\ StageOK(t) /\ CallBooks(t, s) /\ CallRowOK(t)
          /\ openPositions[s] \in Nat /\ Filled(t) \in Nat /\ Qty(t) \in Nat /\ Held(s) \in Int
          /\ Filled(t) <= Qty(t) /\ SingleRow(s)
          /\ Held(s)' = Held(s)
          /\ call'[t].at # "idle" =>
               /\ Id(t)' = Id(t) /\ Filled(t)' = Filled(t) /\ Qty(t)' = Qty(t)
               /\ order'[Id(t)'] = order[Id(t)] /\ call'[t].row = call[t].row
               /\ OpenRows(s)' = OpenRows(s) /\ positions' = positions
          /\ positions' = positions =>
               /\ OpenRows(s)' = OpenRows(s)
               /\ \A q : Rowed(s, q)' <=> Rowed(s, q)
  BY <1>step, OwnFacts
<1>types. /\ Id(t) \in Orders /\ exch \in [Orders -> ExchangeOrder] /\ call \in [Threads -> Call]
          /\ openPositions \in [Symbols -> 0..MaxQty] /\ positions \in [Orders -> Row]
          /\ Id(t) = call[t].id /\ order[Id(t)].sym = s
  <2>1. TypeOK /\ CallsOK
    BY DEF IInv
  <2> QED
    BY <2>1, <1>facts, CallFacts DEF TypeOK
<1>goto. \A stage \in Stages : Goto(t, stage) => call'[t].at = stage
  BY <1>types DEF Goto
<1>return. Return(t) => call'[t].at = "idle"
  BY <1>types DEF Return, Idle
<1>stages. {"open", "send", "wait", "resolve", "reject", "unknown", "row"} \subseteq Stages
  BY DEF Stages
<1>kind. order[Id(t)].kind = "exit" /\ ExitBooks(t, s)
  BY <1>facts DEF ExitStep, RecordExit, ExitFilled, ExitFailed, ResolveExit, CloseExit,
                  At, Id, CallBooks
<1>1. CASE RecordExit(t)
  <2>1. call[t].at = "record" /\ call'[t].at = "send" /\ openPositions' = openPositions
    BY <1>1, <1>goto, <1>stages DEF RecordExit, At, memory
  <2>2. ExitBooks(t, s)'
    BY <2>1, <1>kind, <1>facts DEF ExitBooks
  <2> QED
    BY <2>1, <2>2, <1>step, <1>kind, <1>facts, OwnBooksSuffice DEF CallBooks
<1>2. CASE ExitFilled(t)
  <2>1. call[t].at = "wait" /\ call'[t].at = "resolve" /\ openPositions'[s] = 0
    BY <1>2, <1>goto, <1>stages, <1>types DEF ExitFilled, At
  <2>2. Filled(t) = Qty(t)
    <3>1. Filled(t) < Qty(t) => s \in suspect'
      BY <1>2 DEF ExitFilled, Filled
    <3> QED
      BY <3>1, <1>facts DEF Clean
  <2>3. Held(s) = 0
    <3>1. Held(s) + Filled(t) = Qty(t)
      BY <2>1, <1>kind DEF ExitBooks
    <3> QED
      BY <3>1, <2>2, <1>facts
  <2>4. ExitBooks(t, s)'
    BY <2>1, <2>3, <1>kind, <1>facts DEF ExitBooks
  <2> QED
    BY <2>1, <2>4, <1>step, <1>kind, <1>facts, OwnBooksSuffice DEF CallBooks
<1>3. CASE ExitFailed(t)
  <2>1. /\ call[t].at = "wait" /\ call'[t].at = "reject" /\ openPositions' = openPositions
        /\ Filled(t) = 0
    BY <1>3, <1>goto, <1>stages DEF ExitFailed, At, Filled, memory
  <2>2. openPositions[s] = Qty(t) /\ Rowed(s, Qty(t)) /\ Held(s) + Filled(t) = Qty(t)
    BY <2>1, <1>kind DEF ExitBooks
  <2>3. Held(s) = Qty(t)
    BY <2>1, <2>2, <1>facts
  <2>4. AtRest(s)'
    BY <2>1, <2>2, <2>3, <1>facts DEF AtRest
  <2>5. ExitBooks(t, s)'
    BY <2>1, <2>4, <1>kind, <1>facts DEF ExitBooks
  <2> QED
    BY <2>1, <2>5, <1>step, <1>kind, <1>facts, OwnBooksSuffice DEF CallBooks
<1>4. CASE ResolveExit(t)
  <2>1. call[t].at = "resolve" /\ call'[t].at = "row" /\ openPositions' = openPositions
    BY <1>4, <1>goto, <1>stages DEF ResolveExit, At, memory
  <2>2. ExitBooks(t, s)'
    BY <2>1, <1>kind, <1>facts DEF ExitBooks
  <2> QED
    BY <2>1, <2>2, <1>step, <1>kind, <1>facts, OwnBooksSuffice DEF CallBooks
<1>5. CASE CloseExit(t)
  <2>1. /\ call[t].at = "row" /\ call'[t].at = "idle" /\ openPositions' = openPositions
        /\ order' = order /\ exch' = exch
    BY <1>5, <1>return DEF CloseExit, At
  <2>2. /\ call[t].row # 0
        /\ positions' = [positions EXCEPT ![call[t].row].st = "closed"]
    BY <1>5 DEF CloseExit, Clean
  <2>3. /\ OpenRows(s) = {call[t].row} /\ call[t].row \in Orders
        /\ openPositions[s] = 0 /\ Held(s) = 0
    BY <2>1, <2>2, <1>kind, <1>facts DEF ExitBooks, SingleRow, OpenRows, OrdersOn
  <2>4. OpenRows(s)' = {}
    <3>1. ASSUME NEW r \in OpenRows(s)' PROVE FALSE
      <4>1. CASE r = call[t].row
        BY <4>1, <3>1, <2>2, <2>3, <1>types DEF OpenRows
      <4>2. CASE r # call[t].row
        BY <4>2, <3>1, <2>1, <2>2, <2>3, <1>types DEF OpenRows, OrdersOn
      <4> QED
        BY <4>1, <4>2
    <3> QED
      BY <3>1
  <2>5. AtRest(s)'
    BY <2>1, <2>3, <2>4, <1>facts DEF AtRest, Rowed
  <2>6. exch'[Id(t)].st # "live"
    BY <2>1, <1>facts DEF StageOK
  <2> QED
    BY <2>1, <2>5, <2>6, <1>step, OwnBooksSuffice
<1> QED
  BY <1>1, <1>2, <1>3, <1>4, <1>5 DEF ExitStep

\* And the broker call, whoever makes it.
LEMMA BrokerKeepsBooks ==
  ASSUME IInv, RowsOK, NEW t \in Threads, Send(t) \/ OutcomeUnknown(t) \/ MarkUnfilled(t),
         NEW s \in Symbols, s = Sym(t), BooksOK(s), Clean(s)'
  PROVE  BooksOK(s)'
<1>step. CallStep(t)
  BY DEF CallStep
<1>facts. /\ up /\ up' /\ Active(t) /\ StageOK(t) /\ CallBooks(t, s)
          /\ openPositions[s] \in Nat /\ Filled(t) \in Nat /\ Qty(t) \in Nat /\ Held(s) \in Int
          /\ Held(s)' = Held(s)
          /\ call'[t].at # "idle" =>
               /\ Id(t)' = Id(t) /\ Filled(t)' = Filled(t) /\ Qty(t)' = Qty(t)
               /\ order'[Id(t)'] = order[Id(t)] /\ call'[t].row = call[t].row
               /\ OpenRows(s)' = OpenRows(s) /\ positions' = positions
          /\ positions' = positions =>
               /\ OpenRows(s)' = OpenRows(s)
               /\ \A q : Rowed(s, q)' <=> Rowed(s, q)
  BY <1>step, OwnFacts
<1>types. call \in [Threads -> Call]
  BY DEF IInv, TypeOK
<1>goto. \A stage \in Stages : Goto(t, stage) => call'[t].at = stage
  BY <1>types DEF Goto
<1>return. Return(t) => call'[t].at = "idle"
  BY <1>types DEF Return, Idle
<1>stages. {"open", "send", "wait", "resolve", "reject", "unknown", "row"} \subseteq Stages
  BY DEF Stages
<1>1. CASE Send(t)
  <2>1. call[t].at = "send" /\ call'[t].at = "wait" /\ openPositions' = openPositions
    BY <1>1, <1>goto, <1>stages DEF Send, memory
  <2>2. order[Id(t)].kind = "entry" /\ EntryBooks(t, s) => EntryBooks(t, s)'
    BY <2>1, <1>facts DEF EntryBooks
  <2>3. order[Id(t)].kind = "exit" /\ ExitBooks(t, s) => ExitBooks(t, s)'
    BY <2>1, <1>facts DEF ExitBooks
  <2> QED
    BY <2>1, <2>2, <2>3, <1>step, <1>facts, OwnBooksSuffice DEF CallBooks
<1>2. CASE OutcomeUnknown(t)
  BY <1>2 DEF OutcomeUnknown, Clean
<1>3. CASE MarkUnfilled(t)
  <2>1. /\ call[t].at \in {"reject", "unknown"} /\ call'[t].at = "idle"
        /\ openPositions' = openPositions /\ positions' = positions /\ exch' = exch
    BY <1>3, <1>return DEF MarkUnfilled
  <2>2. call[t].at = "reject" /\ AtRest(s)
    BY <2>1, <1>facts DEF CallBooks, EntryBooks, ExitBooks
  <2>3. AtRest(s)' /\ exch'[Id(t)].st # "live"
    BY <2>1, <2>2, <1>facts DEF AtRest, StageOK
  <2> QED
    BY <2>1, <2>3, <1>step, OwnBooksSuffice
<1> QED
  BY <1>1, <1>2, <1>3

\* Taking an order id changes no book of any symbol and nobody else's call.
LEMMA IssueBooks ==
  ASSUME IInv, RowsOK, NEW t \in Threads, NEW s \in Symbols,
         up, positions' = positions, exch' = exch, openPositions' = openPositions,
         call[t].at = "idle",
         issued + 1 \in Orders, exch[issued + 1] = NoRow, order'[issued + 1].sym = s,
         order[issued + 1].kind = "none",
         \A id \in Orders : id # issued + 1 => order'[id] = order[id],
         call'[t].id = issued + 1,
         \A u \in Threads : u # t => call'[u] = call[u]
  PROVE  /\ \A x \in Symbols : Held(x)' = Held(x) /\ OpenRows(x)' = OpenRows(x)
         /\ \A u \in Threads, x \in Symbols : u # t =>
               /\ CallOn(u, x)' <=> CallOn(u, x)
               /\ CallOn(u, x) => /\ call'[u] = call[u] /\ order'[Id(u)] = order[Id(u)]
                                  /\ exch'[Id(u)] = exch[Id(u)]
         /\ \A x \in Symbols : ~CallOn(t, x) /\ (CallOn(t, x)' => x = s)
         /\ \A id \in Orders : exch[id].st = "live" => order'[id] = order[id]
<1>facts. /\ TypeOK /\ CallsOK /\ issued \in Nat /\ 1..issued \subseteq Orders
          /\ issued + 1 \notin 1..issued /\ ~(issued + 1 <= issued)
  BY IssuedOrders DEF IInv
<1>1. ASSUME NEW x \in Symbols PROVE Held(x)' = Held(x) /\ OpenRows(x)' = OpenRows(x)
  <2>1. Held(x)' = Held(x)
    BY <1>facts, HeldIssued DEF NoRow
  <2>2. positions[issued + 1].st = "none"
    BY <1>facts DEF RowsOK, RowOK
  <2>3. OpenRows(x)' = OpenRows(x)
    BY <2>2 DEF OpenRows, OrdersOn
  <2> QED
    BY <2>1, <2>3
<1>2. ASSUME NEW u \in Threads, NEW x \in Symbols, u # t
      PROVE  /\ CallOn(u, x)' <=> CallOn(u, x)
             /\ CallOn(u, x) => /\ call'[u] = call[u] /\ order'[Id(u)] = order[Id(u)]
                                /\ exch'[Id(u)] = exch[Id(u)]
  <2>1. CASE call[u].at = "idle"
    BY <2>1, <1>2 DEF CallOn
  <2>2. CASE call[u].at # "idle"
    <3>1. Id(u) \in 1..issued /\ Id(u) = call[u].id
      BY <2>2, <1>facts DEF CallsOK, Active, Id
    <3>2. order'[Id(u)] = order[Id(u)]
      BY <3>1, <1>facts
    <3> QED
      BY <3>1, <3>2, <1>2 DEF CallOn
  <2> QED
    BY <2>1, <2>2
<1>3. ASSUME NEW x \in Symbols PROVE ~CallOn(t, x) /\ (CallOn(t, x)' => x = s)
  BY DEF CallOn
<1>4. \A id \in Orders : exch[id].st = "live" => order'[id] = order[id]
  BY DEF NoRow
<1> QED
  BY <1>1, <1>2, <1>3, <1>4

\* The start of a call: it finds its symbol at rest, or makes it suspect.
LEMMA IssueKeepsBooks ==
  ASSUME IInv, RowsOK, NEW t \in Threads, NEW s \in Symbols,
         up, up' = up, positions' = positions, exch' = exch, openPositions' = openPositions,
         call[t].at = "idle",
         issued + 1 \in Orders, exch[issued + 1] = NoRow, order'[issued + 1].sym = s,
         order[issued + 1].kind = "none",
         \A id \in Orders : id # issued + 1 => order'[id] = order[id],
         call'[t].id = issued + 1,
         \A u \in Threads : u # t => call'[u] = call[u],
         alerted' = alerted, revived' = revived, suspect \subseteq suspect',
         Overlaps(t, s) => s \in suspect',
         AtRest(s) /\ s \notin suspect' => CallBooks(t, s)',
         NEW x \in Symbols, BooksOK(x)
  PROVE  BooksOK(x)'
<1>frame. /\ \A z \in Symbols : Held(z)' = Held(z) /\ OpenRows(z)' = OpenRows(z)
          /\ \A u \in Threads, z \in Symbols : u # t =>
               /\ CallOn(u, z)' <=> CallOn(u, z)
               /\ CallOn(u, z) => /\ call'[u] = call[u] /\ order'[Id(u)] = order[Id(u)]
                                  /\ exch'[Id(u)] = exch[Id(u)]
          /\ \A z \in Symbols : ~CallOn(t, z) /\ (CallOn(t, z)' => z = s)
          /\ \A id \in Orders : exch[id].st = "live" => order'[id] = order[id]
  BY IssueBooks
<1>clean. Clean(x)' => Clean(x)
  BY DEF Clean
<1>1. CASE x # s
  <2>1. \A u \in Threads : CallOn(u, x)' <=> CallOn(u, x)
    BY <1>1, <1>frame
  <2>2. \A u \in Threads : CallOn(u, x) =>
            call'[u] = call[u] /\ order'[Id(u)] = order[Id(u)] /\ exch'[Id(u)] = exch[Id(u)]
    BY <1>frame
  <2>3. \A id \in Orders : order'[id].sym = x /\ exch'[id].st = "live" =>
                               order[id].sym = x /\ exch[id].st = "live"
    BY <1>frame
  <2>4. /\ Held(x)' = Held(x) /\ OpenRows(x)' = OpenRows(x)
        /\ \A id \in OpenRows(x) : positions'[id] = positions[id]
    BY <1>frame
  <2> QED
    BY <2>1, <2>2, <2>3, <2>4, <1>clean, BooksFrame
<1>2. CASE x = s
  <2> SUFFICES ASSUME Clean(s)' PROVE BooksOK(s)'
    BY <1>2 DEF BooksOK
  <2>1. ~Overlaps(t, s) /\ Clean(s)
    BY <1>2, <1>clean DEF Clean
  <2>2. \A u \in Threads : u # t => ~CallOn(u, s)
    BY <2>1 DEF Overlaps
  <2>3. ~Busy(s)
    BY <2>2, <1>frame DEF Busy
  <2>4. AtRest(s) /\ SingleRow(s) /\ Awaited(s)
    BY <1>2, <2>1, <2>3 DEF BooksOK
  <2>5. SingleRow(s)'
    BY <2>4, <1>frame DEF SingleRow
  <2>6. SingleCall(s)'
    BY <2>2, <1>frame DEF SingleCall
  <2>7. Awaited(s)'
    <3> SUFFICES ASSUME NEW id \in Orders, order'[id].sym = s, exch'[id].st = "live"
                 PROVE  \E u \in Threads : Active(u)' /\ Id(u)' = id
      BY DEF Awaited
    <3>1. PICK u \in Threads : Active(u) /\ Id(u) = id
      BY <2>4, <1>frame DEF Awaited
    <3>2. u # t
      BY <3>1 DEF Active
    <3> QED
      BY <3>1, <3>2 DEF Active, Id
  <2>8. CallOn(t, s)' => CallBooks(t, s)'
    BY <2>4 DEF Clean
  <2>9. \A u \in Threads : u # t => ~CallOn(u, s)'
    BY <2>2, <1>frame
  <2>10. (~Busy(s))' => AtRest(s)'
    BY <2>4, <1>frame DEF AtRest, Rowed
  <2> QED
    BY <2>5, <2>6, <2>7, <2>8, <2>9, <2>10 DEF BooksOK
<1> QED
  BY <1>1, <1>2

\* PlaceEntryOrder begins from books at rest.
LEMMA BeginEntryKeepsBooks ==
  ASSUME IInv, RowsOK, NEW t \in Threads, NEW s \in Symbols, NEW q \in 1..MaxQty,
         BeginEntry(t, s, q), NEW x \in Symbols, BooksOK(x)
  PROVE  BooksOK(x)'
<1>1. /\ up /\ up' = up /\ positions' = positions /\ exch' = exch
      /\ openPositions' = openPositions /\ call[t].at = "idle"
      /\ issued + 1 \in Orders /\ exch[issued + 1] = NoRow
      /\ order[issued + 1].kind = "none"
      /\ order'[issued + 1].kind = "entry" /\ order'[issued + 1].sym = s
      /\ \A id \in Orders : id # issued + 1 => order'[id] = order[id]
      /\ call'[t].at = "open" /\ call'[t].id = issued + 1
      /\ \A u \in Threads : u # t => call'[u] = call[u]
  BY BeginEntryIssues
<1>2. /\ alerted' = alerted /\ revived' = revived /\ suspect \subseteq suspect'
      /\ Overlaps(t, s) => s \in suspect'
  BY DEF BeginEntry
<1>3. Held(s)' = Held(s) /\ OpenRows(s)' = OpenRows(s)
  BY <1>1, IssueBooks
<1>4. AtRest(s) => AtRest(s)'
  BY <1>1, <1>3 DEF AtRest, Rowed
<1>5. AtRest(s) => CallBooks(t, s)'
  BY <1>1, <1>4 DEF CallBooks, EntryBooks, Id
<1> QED
  BY <1>1, <1>2, <1>5, IssueKeepsBooks

\* PlaceExitOrder asks for what the books at rest hold.
LEMMA BeginExitKeepsBooks ==
  ASSUME IInv, RowsOK, NEW t \in Threads, NEW s \in Symbols, NEW row \in Rows(s) \cup {0},
         BeginExit(t, s, row), NEW x \in Symbols, BooksOK(x)
  PROVE  BooksOK(x)'
<1>1. /\ up /\ up' = up /\ positions' = positions /\ exch' = exch
      /\ openPositions' = openPositions /\ call[t].at = "idle"
      /\ issued + 1 \in Orders /\ exch[issued + 1] = NoRow
      /\ order[issued + 1].kind = "none"
      /\ order'[issued + 1].kind = "exit" /\ order'[issued + 1].sym = s
      /\ order'[issued + 1].qty = openPositions[s]
      /\ \A id \in Orders : id # issued + 1 => order'[id] = order[id]
      /\ call'[t].at = "record" /\ call'[t].id = issued + 1 /\ call'[t].row = row
      /\ \A u \in Threads : u # t => call'[u] = call[u]
  BY BeginExitIssues
<1>2. /\ alerted' = alerted /\ revived' = revived /\ suspect \subseteq suspect'
      /\ Overlaps(t, s) => s \in suspect'
      /\ s \notin suspect' => row = 0 \/ row \in OpenRows(s)
  BY DEF BeginExit, ClosedAlready
<1>3. Held(s)' = Held(s) /\ OpenRows(s)' = OpenRows(s) /\ Held(s) \in Int
  BY <1>1, IssueBooks, HeldInt DEF IInv
<1>4. AtRest(s) /\ s \notin suspect' => ExitBooks(t, s)'
  <2> SUFFICES ASSUME AtRest(s), s \notin suspect' PROVE ExitBooks(t, s)'
    OBVIOUS
  <2>1. Filled(t)' = 0 /\ Qty(t)' = openPositions[s]
    BY <1>1 DEF Filled, Qty, Id, NoRow
  <2>2. Held(s)' + Filled(t)' = Qty(t)'
    BY <2>1, <1>3 DEF AtRest
  <2>3. Rowed(s, openPositions[s])'
    BY <1>1, <1>3 DEF AtRest, Rowed
  <2> QED
    BY <2>1, <2>2, <2>3, <1>1, <1>2, <1>3 DEF ExitBooks, Rowed
<1>5. AtRest(s) /\ s \notin suspect' => CallBooks(t, s)'
  BY <1>1, <1>4 DEF CallBooks, Id
<1> QED
  BY <1>1, <1>2, <1>5, IssueKeepsBooks

\* An order works at the exchange only while its call waits for the answer.
LEMMA LiveWaits ==
  ASSUME IInv, NEW t \in Threads, Active(t), exch[Id(t)].st = "live"
  PROVE  call[t].at \in {"wait", "unknown"}
<1>1. StageOK(t) /\ call[t] \in Call
  BY CallFacts DEF IInv, StagesOK
<1> QED
  BY <1>1 DEF StageOK, NoRow, Call, Stages, Active

\* What fills or stops at the exchange of a clean symbol is what its call
\* waits for, and the call will read the outcome.
LEMMA ExchangeKeepsBooks ==
  ASSUME IInv, IInv', RowsOK, NEW id \in Orders, Fill(id) \/ Stop(id),
         NEW s \in Symbols, BooksOK(s)
  PROVE  BooksOK(s)'
<1>facts. TypeOK /\ TypeOK' /\ CallsOK /\ \A t \in Threads : Active(t) => Id(t) \in Orders
  BY CallFacts DEF IInv
<1>frame. /\ UNCHANGED <<up, order, call, positions, openPositions, alerted, suspect, revived>>
          /\ \A other \in Orders : other # id => exch'[other] = exch[other]
          /\ exch[id].st = "live"
          /\ exch'[id].st = "live" => exch[id].st = "live"
  BY <1>facts DEF Fill, Stop, durable, memory, history, TypeOK
<1>rows. /\ OpenRows(s)' = OpenRows(s) /\ \A q : Rowed(s, q)' <=> Rowed(s, q)
         /\ \A t \in Threads : /\ CallOn(t, s)' <=> CallOn(t, s)
                               /\ Id(t)' = Id(t) /\ Qty(t)' = Qty(t)
  BY <1>frame DEF OpenRows, OrdersOn, Rowed, CallOn, Id, Qty
<1>clean. Clean(s)' <=> Clean(s)
  BY <1>frame DEF Clean
<1>1. CASE order[id].sym # s
  <2>1. \A other \in Orders : order[other].sym = s => exch'[other] = exch[other]
    BY <1>1, <1>frame
  <2>2. Held(s)' = Held(s)
    BY <1>facts, <1>frame, <2>1, HeldSame
  <2>3. \A t \in Threads : CallOn(t, s) =>
          call'[t] = call[t] /\ order'[Id(t)] = order[Id(t)] /\ exch'[Id(t)] = exch[Id(t)]
    BY <1>facts, <1>frame, <2>1 DEF CallOn, Active, Id
  <2>4. \A other \in Orders : order'[other].sym = s /\ exch'[other].st = "live" =>
                               order[other].sym = s /\ exch[other].st = "live"
    BY <1>frame, <2>1
  <2> QED
    BY <2>2, <2>3, <2>4, <1>frame, <1>rows, <1>clean, BooksFrame
<1>2. CASE order[id].sym = s
  <2> SUFFICES ASSUME Clean(s)' PROVE BooksOK(s)'
    BY DEF BooksOK
  <2>1. /\ SingleRow(s) /\ SingleCall(s) /\ (up => Awaited(s)) /\ (up /\ ~Busy(s) => AtRest(s))
        /\ \A t \in Threads : CallOn(t, s) => CallBooks(t, s)
    BY <1>clean DEF BooksOK
  <2>2. SingleRow(s)' /\ SingleCall(s)'
    BY <2>1, <1>rows DEF SingleRow, SingleCall
  <2>3. (up => Awaited(s))'
    BY <2>1, <1>frame DEF Awaited, Active, Id
  <2>4. CASE ~up
    <3>1. \A t \in Threads : ~CallOn(t, s)'
      BY <2>4, <1>facts, <1>rows DEF CallsOK, CallOn, Active
    <3> QED
      BY <2>2, <2>3, <2>4, <3>1, <1>frame DEF BooksOK
  <2>5. CASE up
    <3>1. PICK t \in Threads : Active(t) /\ Id(t) = id
      BY <2>1, <2>5, <1>2, <1>frame DEF Awaited
    <3>2. CallOn(t, s)
      BY <3>1, <1>2 DEF CallOn, Active, Id
    <3>3. call[t].at = "wait" /\ CallBooks(t, s)
      BY <3>1, <3>2, <2>1, <1>frame, LiveWaits DEF CallBooks, EntryBooks, ExitBooks
    <3>4. Filled(t) \in Int /\ Filled(t)' \in Int /\ Held(s) \in Int /\ Qty(t) \in Int
      <4>1. exch[id] \in ExchangeOrder /\ exch'[id] \in ExchangeOrder /\ order[id] \in Ask
        BY <1>facts DEF TypeOK
      <4>2. /\ exch[id].filled \in Int /\ exch'[id].filled \in Int /\ order[id].qty \in Int
        BY <4>1, TradingEngineAssumption DEF ExchangeOrder, Ask
      <4>3. /\ Filled(t) = exch[id].filled /\ Filled(t)' = exch'[id].filled
            /\ Qty(t) = order[id].qty
        BY <3>1, <1>rows DEF Filled, Qty
      <4> QED
        BY <4>2, <4>3, <1>facts, HeldInt
    <3>5. /\ order[id].kind = "entry" => Held(s)' = Held(s) + Filled(t)' - Filled(t)
          /\ order[id].kind = "exit" => Held(s)' = Held(s) - Filled(t)' + Filled(t)
      <4>1. \A other \in Orders : other # id => exch'[other].filled = exch[other].filled
        BY <1>frame
      <4>2. Filled(t) = exch[id].filled /\ Filled(t)' = exch'[id].filled
        BY <3>1, <1>rows DEF Filled
      <4> QED
        BY <4>1, <4>2, <1>facts, <1>frame, <1>2, HeldMoves
    <3>6. ASSUME order[id].kind = "entry" PROVE CallBooks(t, s)'
      <4>1. OpenRows(s) = {} /\ openPositions[s] = Qty(t) /\ Held(s) = Filled(t)
        BY <3>1, <3>3, <3>6 DEF CallBooks, EntryBooks
      <4>2. Held(s)' = Filled(t)'
        BY <4>1, <3>4, <3>5, <3>6
      <4>3. EntryBooks(t, s)'
        BY <4>1, <4>2, <3>3, <1>frame, <1>rows DEF EntryBooks
      <4> QED
        BY <4>3, <3>1, <3>6, <1>frame, <1>rows DEF CallBooks
    <3>7. ASSUME order[id].kind = "exit" PROVE CallBooks(t, s)'
      <4>1. /\ openPositions[s] = Qty(t) /\ Rowed(s, Qty(t)) /\ Held(s) + Filled(t) = Qty(t)
            /\ call[t].row # 0 => call[t].row \in OpenRows(s)
        BY <3>1, <3>3, <3>7 DEF CallBooks, ExitBooks
      <4>2. Held(s)' + Filled(t)' = Qty(t)
        BY <4>1, <3>4, <3>5, <3>7
      <4>3. ExitBooks(t, s)'
        BY <4>1, <4>2, <3>3, <1>frame, <1>rows DEF ExitBooks
      <4> QED
        BY <4>3, <3>1, <3>7, <1>frame, <1>rows DEF CallBooks
    <3>8. CallBooks(t, s)'
      BY <3>1, <3>3, <3>6, <3>7 DEF CallBooks
    <3>9. \A u \in Threads : CallOn(u, s)' => u = t
      BY <3>2, <2>1, <1>rows DEF SingleCall
    <3>10. Busy(s)'
      BY <3>2, <1>rows DEF Busy
    <3> QED
      BY <2>2, <2>3, <3>8, <3>9, <3>10 DEF BooksOK
  <2> QED
    BY <2>4, <2>5
<1> QED
  BY <1>1, <1>2

\* A crash loses the calls and the risk book; the table and the exchange
\* survive it.
LEMMA CrashKeepsBooks ==
  ASSUME Crash, NEW s \in Symbols, BooksOK(s)
  PROVE  BooksOK(s)'
<1>1. \A t \in Threads : ~CallOn(t, s)'
  BY DEF Crash, CallOn, Idle
<1>2. ~up' /\ (Clean(s)' <=> Clean(s)) /\ (SingleRow(s)' <=> SingleRow(s))
  BY DEF Crash, Clean, history, SingleRow, OpenRows, OrdersOn, durable
<1> QED
  BY <1>1, <1>2 DEF BooksOK, SingleCall

\* A start restores the risk book from the table.  A symbol that stays clean
\* had table and exchange agree and no order left open.
LEMMA StartKeepsBooks ==
  ASSUME IInv, RowsOK, NEW acceptReconcile \in BOOLEAN, Start(acceptReconcile),
         NEW s \in Symbols, BooksOK(s)
  PROVE  BooksOK(s)'
<1> SUFFICES ASSUME Clean(s)' PROVE BooksOK(s)'
  BY DEF BooksOK
<1>facts. TypeOK /\ CallsOK /\ \A id \in Orders : OrderOK(id)
  BY DEF IInv
<1>frame. /\ UNCHANGED <<issued, order, call, exch, positions, attempts, alerted, revived>>
          /\ ~up /\ up'
  BY DEF Start, durable
<1>1. \/ s \notin {x \in Symbols : ~Agrees(x)} /\ Restored
      \/ /\ s \notin {x \in Symbols : ~Agrees(x)} /\ OpenRows(s) = {}
         /\ openPositions' = openPositions
  BY DEF Start, Clean
<1>2. Agrees(s) /\ Clean(s)
  <2>1. suspect \subseteq suspect'
    BY DEF Start
  <2> QED
    BY <1>1, <1>frame, <2>1 DEF Clean
<1>3. SingleRow(s)
  BY <1>2 DEF BooksOK
<1>4. /\ Held(s)' = Held(s) /\ OpenRows(s)' = OpenRows(s) /\ \A q : Rowed(s, q)' <=> Rowed(s, q)
      /\ SingleRow(s)'
  <2>1. Held(s)' = Held(s)
    BY <1>facts, <1>frame, HeldSame
  <2> QED
    BY <2>1, <1>3, <1>frame DEF OpenRows, OrdersOn, Rowed, SingleRow
<1>5. \A t \in Threads : ~CallOn(t, s)'
  BY <1>facts, <1>frame DEF CallsOK, CallOn, Active
<1>6. Awaited(s)'
  <2>1. ASSUME NEW id \in Orders, order[id].sym = s PROVE exch[id].st # "live"
    <3>1. attempts[id].st \notin Unresolved
      BY <2>1, <1>2 DEF Agrees, UnresolvedOn
    <3> QED
      BY <3>1, <2>1, <1>2, <1>facts DEF OrderOK, Clean
  <2> QED
    BY <2>1, <1>frame DEF Awaited
<1>7. Rowed(s, openPositions'[s])
  <2>1. CASE OpenRows(s) = {}
    <3>1. openPositions[s] = 0
      BY <1>frame DEF RowsOK
    <3>2. openPositions'[s] = openPositions[s]
      BY <2>1, <1>1 DEF Restored, Recovers
    <3> QED
      BY <2>1, <3>1, <3>2 DEF Rowed
  <2>2. CASE OpenRows(s) # {}
    <3>1. Recovers(s, openPositions'[s])
      BY <2>2, <1>1 DEF Restored
    <3>2. PICK id \in OpenRows(s) : openPositions'[s] = positions[id].qty
      BY <2>2, <3>1 DEF Recovers
    <3>3. OpenRows(s) = {id}
      BY <1>3 DEF SingleRow
    <3> QED
      BY <3>2, <3>3 DEF Rowed
  <2> QED
    BY <2>1, <2>2
<1>8. openPositions'[s] = Held(s)
  <2>1. PICK q : q = openPositions'[s]
    OBVIOUS
  <2>2. RowQty(s) = q
    BY <1>7, <2>1, <1>facts, RowedQty
  <2> QED
    BY <2>1, <2>2, <1>2 DEF Agrees
<1>9. AtRest(s)'
  BY <1>4, <1>7, <1>8 DEF AtRest, Rowed
<1> QED
  BY <1>4, <1>5, <1>6, <1>9 DEF BooksOK, SingleCall

\* The second restore either gives a symbol what it had or marks it revived.
LEMMA RestoreKeepsBooks ==
  ASSUME IInv, RestoreAgain, NEW s \in Symbols, BooksOK(s)
  PROVE  BooksOK(s)'
<1> SUFFICES ASSUME Clean(s)' PROVE BooksOK(s)'
  BY DEF BooksOK
<1>frame. /\ UNCHANGED <<up, issued, order, call, exch, positions, attempts, alerted, suspect>>
          /\ openPositions'[s] = openPositions[s] /\ revived \subseteq revived'
  BY DEF RestoreAgain, durable, Clean
<1>1. Held(s)' = Held(s)
  BY <1>frame, HeldSame DEF IInv
<1>2. Clean(s)' => Clean(s)
  BY <1>frame DEF Clean
<1>3. /\ OpenRows(s)' = OpenRows(s)
      /\ \A t \in Threads : CallOn(t, s)' <=> CallOn(t, s)
  BY <1>frame DEF OpenRows, OrdersOn, CallOn
<1> QED
  BY <1>frame, <1>1, <1>2, <1>3, BooksFrame

\* Every step keeps the books of every symbol as BooksOK says.
LEMMA BooksStep ==
  ASSUME IInv, IInv', RowsOK, [Next]_vars, NEW s \in Symbols, BooksOK(s)
  PROVE  BooksOK(s)'
<1>1. ASSUME NEW t \in Threads, NEW x \in Symbols, NEW q \in 1..MaxQty, BeginEntry(t, x, q)
      PROVE  BooksOK(s)'
  BY <1>1, BeginEntryKeepsBooks
<1>2. ASSUME NEW t \in Threads, NEW x \in Symbols, NEW row \in Rows(x) \cup {0},
             BeginExit(t, x, row)
      PROVE  BooksOK(s)'
  BY <1>2, BeginExitKeepsBooks
<1>3. ASSUME NEW t \in Threads, CallStep(t) PROVE BooksOK(s)'
  <2>1. CASE s # Sym(t)
    BY <1>3, <2>1, OtherBooks
  <2>2. CASE s = Sym(t) /\ Clean(s)'
    BY <1>3, <2>2, EntryKeepsBooks, ExitKeepsBooks, BrokerKeepsBooks DEF CallStep
  <2>3. CASE ~Clean(s)'
    BY <2>3 DEF BooksOK
  <2> QED
    BY <2>1, <2>2, <2>3
<1>4. ASSUME NEW id \in Orders, Fill(id) \/ Stop(id) PROVE BooksOK(s)'
  BY <1>4, ExchangeKeepsBooks
<1>5. ASSUME Crash PROVE BooksOK(s)'
  BY <1>5, CrashKeepsBooks
<1>6. ASSUME NEW acceptReconcile \in BOOLEAN, Start(acceptReconcile) PROVE BooksOK(s)'
  BY <1>6, StartKeepsBooks
<1>7. ASSUME RestoreAgain PROVE BooksOK(s)'
  BY <1>7, RestoreKeepsBooks
<1>8. ASSUME UNCHANGED vars PROVE BooksOK(s)'
  <2>1. UNCHANGED <<up, order, call, exch, positions, openPositions, alerted, suspect, revived>>
    BY <1>8 DEF vars, memory, durable, history
  <2>2. Held(s)' = Held(s)
    BY <2>1, HeldSame DEF IInv
  <2>3. /\ OpenRows(s)' = OpenRows(s) /\ (Clean(s)' <=> Clean(s))
        /\ \A t \in Threads : CallOn(t, s)' <=> CallOn(t, s)
    BY <2>1 DEF OpenRows, OrdersOn, CallOn, Clean
  <2> QED
    BY <2>1, <2>2, <2>3, BooksFrame
<1> QED
  BY <1>1, <1>2, <1>3, <1>4, <1>5, <1>6, <1>7, <1>8 DEF Next

\* Before the first trade all books are empty.
LEMMA InitBooks ==
  ASSUME Init
  PROVE  RowsOK /\ \A s \in Symbols : BooksOK(s)
<1>1. RowsOK
  BY DEF Init, RowsOK, RowOK, Active, Idle
<1>2. ASSUME NEW s \in Symbols PROVE BooksOK(s)
  <2>1. OpenRows(s) = {} /\ (\A t \in Threads : ~CallOn(t, s)) /\ Awaited(s)
    BY DEF Init, OpenRows, OrdersOn, CallOn, Idle, Awaited
  <2>2. Held(s) = 0
    <3>1. ASSUME NEW k PROVE OrdersOn(s, k) \in SUBSET Orders
      BY DEF OrdersOn
    <3>2. exch \in [Orders -> ExchangeOrder]
      BY InitInvariant DEF IInv, TypeOK
    <3>3. ASSUME NEW S \in SUBSET Orders PROVE FilledBy(S) = 0
      <4> DEFINE f == [id \in Orders |-> exch[id].filled]
      <4>1. IsFiniteSet(S) /\ \A id \in S : f[id] = 0
        BY <3>2, OrdersFinite DEF Init
      <4>2. FilledBy(S) = SumFunctionOnSet(f, S)
        BY DEF FilledBy
      <4> HIDE DEF f
      <4> QED
        BY <4>1, <4>2, SumZero
    <3> QED
      BY <3>1, <3>3 DEF Held
  <2>3. AtRest(s)
    BY <2>1, <2>2 DEF AtRest, Rowed, Init
  <2> QED
    BY <2>1, <2>3 DEF BooksOK, SingleRow, SingleCall
<1> QED
  BY <1>1, <1>2

(***************************************************************************)
(* The risk book, the positions table and the exchange agree on every      *)
(* symbol at rest that nothing disturbed, through partial entry fills,     *)
(* rejections, crashes and clean starts, for any number of symbols,        *)
(* threads and orders (PlaceEntryOrder, PlaceExitOrder, main.go's gate).   *)
(***************************************************************************)
THEOREM BooksAgree == Spec => []ThreeBooksAgree
<1> DEFINE Books == IInv /\ RowsOK /\ \A s \in Symbols : BooksOK(s)
<1>1. Init => Books
  BY InitInvariant, InitBooks
<1>2. Books /\ [Next]_vars => Books'
  <2> SUFFICES ASSUME Books, [Next]_vars PROVE Books'
    OBVIOUS
  <2>1. IInv'
    BY NextInvariant
  <2>2. RowsOK'
    BY RowsStep
  <2>3. \A s \in Symbols : BooksOK(s)'
    BY <2>1, BooksStep
  <2> QED
    BY <2>1, <2>2, <2>3
<1>3. Books => ThreeBooksAgree
  <2> SUFFICES ASSUME Books, NEW s \in Symbols \ (suspect \cup revived \cup alerted), up, ~Busy(s)
               PROVE  openPositions[s] = Held(s) /\ RowQty(s) = Held(s)
    BY DEF ThreeBooksAgree
  <2>1. AtRest(s)
    BY DEF BooksOK, Clean
  <2>2. Rowed(s, Held(s)) /\ openPositions[s] = Held(s)
    BY <2>1 DEF AtRest
  <2>3. PICK q : q = Held(s)
    OBVIOUS
  <2>4. RowQty(s) = q
    BY <2>2, <2>3, RowedQty DEF IInv
  <2> QED
    BY <2>2, <2>3, <2>4
<1> QED
  BY <1>1, <1>2, <1>3, PTL DEF Spec

-----------------------------------------------------------------------------
(***************************************************************************)
(* Exits reverse no position of a clean symbol.  While the process runs    *)
(* the books say so; after a crash an exit may still be filling, and what  *)
(* is held covers what it has left to sell (CoverOK).                      *)
(***************************************************************************)
Live(id, s) == order[id].sym = s /\ exch[id].st = "live"

CoverOK(s) ==
    Clean(s) =>
        /\ Held(s) >= 0
        /\ \A a, b \in Orders : Live(a, s) /\ Live(b, s) => a = b
        /\ \A id \in Orders : Live(id, s) /\ order[id].kind = "exit" =>
               Held(s) + exch[id].filled >= order[id].qty

(***************************************************************************)
(* Only a symbol that something marked can end up on the other side of the *)
(* market: an outcome that stayed unknown, an exit that filled in part or  *)
(* had no row, overlapping calls, a forced or blind start, a second        *)
(* restore that changed something, or a durable-write alert.               *)
(***************************************************************************)
OnlyMarkedReverse ==
    \A s \in Symbols \ (suspect \cup revived \cup alerted) : Held(s) >= 0

\* While the process runs, the books of a symbol cover its exits.
LEMMA BooksCover ==
  ASSUME IInv, RowsOK, NEW s \in Symbols, BooksOK(s), up
  PROVE  CoverOK(s)
<1> SUFFICES ASSUME Clean(s) PROVE CoverOK(s)
  BY DEF CoverOK
<1>facts. /\ TypeOK /\ CallsOK /\ SingleCall(s) /\ Awaited(s)
          /\ \A t \in Threads : CallOn(t, s) => CallBooks(t, s)
          /\ ~Busy(s) => AtRest(s)
  BY DEF IInv, BooksOK
<1>1. Held(s) \in Int /\ openPositions[s] \in Nat
  BY <1>facts, HeldInt, TradingEngineAssumption DEF TypeOK
<1>2. ASSUME NEW t \in Threads, CallOn(t, s)
      PROVE  /\ Id(t) \in Orders /\ Filled(t) \in Nat /\ Qty(t) \in Nat /\ Filled(t) <= Qty(t)
             /\ Active(t) /\ Qty(t) = order[Id(t)].qty
  <2>1. Active(t)
    BY <1>2 DEF CallOn, Active
  <2>2. /\ Id(t) \in Orders /\ Qty(t) \in 0..MaxQty /\ exch[Id(t)] \in ExchangeOrder
        /\ Qty(t) = order[Id(t)].qty
    BY <1>facts, <2>1, CallFacts
  <2>3. exch[Id(t)].filled \in 0..MaxQty
    BY <2>2 DEF ExchangeOrder
  <2>4. exch[Id(t)].filled <= Qty(t)
    BY <2>2 DEF RowsOK, RowOK
  <2> QED
    BY <2>1, <2>2, <2>3, <2>4, TradingEngineAssumption DEF Filled
<1>3. Held(s) >= 0
  <2>1. CASE ~Busy(s)
    BY <2>1, <1>facts, <1>1 DEF AtRest
  <2>2. CASE Busy(s)
    <3>1. PICK t \in Threads : CallOn(t, s)
      BY <2>2 DEF Busy
    <3>2. CallBooks(t, s) /\ Filled(t) \in Nat /\ Qty(t) \in Nat /\ Filled(t) <= Qty(t)
      BY <3>1, <1>2, <1>facts
    <3>3. CASE EntryBooks(t, s)
      BY <3>3, <3>2, <1>1 DEF EntryBooks, AtRest
    <3>4. CASE ExitBooks(t, s)
      <4>1. \/ openPositions[s] = Held(s)
            \/ Held(s) + Filled(t) = Qty(t)
            \/ Held(s) = 0
        BY <3>4 DEF ExitBooks, AtRest
      <4> QED
        BY <4>1, <3>2, <1>1
    <3> QED
      BY <3>2, <3>3, <3>4 DEF CallBooks
  <2> QED
    BY <2>1, <2>2
<1>4. ASSUME NEW id \in Orders, Live(id, s)
      PROVE  \E t \in Threads : CallOn(t, s) /\ Id(t) = id
  BY <1>4, <1>facts DEF Live, Awaited, CallOn, Active, Id
<1>5. ASSUME NEW a \in Orders, NEW b \in Orders, Live(a, s), Live(b, s)
      PROVE  a = b
  <2>1. PICK t \in Threads : CallOn(t, s) /\ Id(t) = a
    BY <1>4, <1>5
  <2>2. PICK u \in Threads : CallOn(u, s) /\ Id(u) = b
    BY <1>4, <1>5
  <2>3. t = u
    BY <2>1, <2>2, <1>facts DEF SingleCall
  <2> QED
    BY <2>1, <2>2, <2>3
<1>6. ASSUME NEW id \in Orders, Live(id, s), order[id].kind = "exit"
      PROVE  Held(s) + exch[id].filled >= order[id].qty
  <2>1. PICK t \in Threads : CallOn(t, s) /\ Id(t) = id
    BY <1>4, <1>6
  <2>2. /\ CallBooks(t, s) /\ Filled(t) \in Nat /\ Qty(t) \in Nat
        /\ Active(t) /\ Qty(t) = order[Id(t)].qty
    BY <2>1, <1>2, <1>facts
  <2>3. call[t].at \in {"wait", "unknown"}
    BY <1>6, <2>1, <2>2, LiveWaits DEF Live
  <2>4. Held(s) + Filled(t) = Qty(t)
    BY <1>6, <2>1, <2>2, <2>3 DEF CallBooks, ExitBooks
  <2> QED
    BY <2>1, <2>2, <2>4, <1>1 DEF Filled
<1> QED
  BY <1>3, <1>5, <1>6 DEF CoverOK

\* While it is down, the exchange fills the one order left, no further.
LEMMA ExchangeCovers ==
  ASSUME IInv, IInv', RowsOK, NEW id \in Orders, Fill(id) \/ Stop(id),
         NEW s \in Symbols, CoverOK(s), Clean(s)
  PROVE  CoverOK(s)'
<1>facts. TypeOK /\ TypeOK' /\ Held(s) \in Int
  BY HeldInt DEF IInv
<1>frame. /\ order' = order /\ exch[id].st = "live"
          /\ \A other \in Orders : other # id => exch'[other] = exch[other]
          /\ Held(s) >= 0
          /\ \A a, b \in Orders : Live(a, s) /\ Live(b, s) => a = b
  BY <1>facts DEF Fill, Stop, TypeOK, CoverOK
<1>1. \A a \in Orders : Live(a, s)' => Live(a, s)
  BY <1>frame DEF Live
<1>2. CASE order[id].sym = s /\ Fill(id)
  <2>1. /\ exch'[id].filled = exch[id].filled + 1 /\ exch[id].filled < order[id].qty
        /\ exch[id].filled \in Int /\ order[id].qty \in Int
    <3>1. exch[id] \in ExchangeOrder /\ order[id] \in Ask
      BY <1>facts DEF TypeOK
    <3>2. exch[id].filled \in Int /\ order[id].qty \in Int
      BY <3>1, TradingEngineAssumption DEF ExchangeOrder, Ask
    <3> QED
      BY <3>2, <1>2, <1>facts DEF Fill, TypeOK
  <2>2. Live(id, s)
    BY <1>2, <1>frame DEF Live
  <2>3. \A a \in Orders : Live(a, s)' => a = id
    BY <2>2, <1>1, <1>frame
  <2>4. /\ order[id].kind = "entry" => Held(s)' = Held(s) + 1
        /\ order[id].kind = "exit" => Held(s)' = Held(s) - 1
        /\ order[id].kind \notin {"entry", "exit"} => Held(s)' = Held(s)
    <3>1. \A other \in Orders : other # id => exch'[other].filled = exch[other].filled
      BY <1>frame
    <3>2. /\ order[id].kind = "entry" => Held(s)' = Held(s) + exch'[id].filled - exch[id].filled
          /\ order[id].kind = "exit" => Held(s)' = Held(s) - exch'[id].filled + exch[id].filled
          /\ order[id].kind \notin {"entry", "exit"} => Held(s)' = Held(s)
      BY <3>1, <1>2, <1>facts, <1>frame, HeldMoves
    <3> QED
      BY <3>2, <2>1, <1>facts
  <2>5. order[id].kind = "exit" => Held(s) + exch[id].filled >= order[id].qty
    BY <2>2 DEF CoverOK
  <2>6. Held(s)' >= 0
    BY <2>1, <2>4, <2>5, <1>facts, <1>frame
  <2>7. order[id].kind = "exit" => Held(s)' + exch'[id].filled >= order[id].qty
    BY <2>1, <2>4, <2>5, <1>facts
  <2> QED
    BY <2>3, <2>6, <2>7, <1>frame DEF CoverOK
<1>3. CASE order[id].sym # s \/ Stop(id)
  <2>1. \A a \in Orders : order[a].sym = s => exch'[a].filled = exch[a].filled
    <3>1. Stop(id) => exch'[id].filled = exch[id].filled
      BY <1>facts DEF Stop, TypeOK, ExchangeOrder
    <3> QED
      BY <3>1, <1>3, <1>frame
  <2>2. Held(s)' = Held(s)
    BY <2>1, <1>facts, <1>frame, HeldSame
  <2>3. \A a \in Orders : Live(a, s)' => exch'[a].filled = exch[a].filled
    BY <2>1, <1>frame DEF Live
  <2> QED
    BY <2>2, <2>3, <1>1, <1>frame DEF CoverOK
<1> QED
  BY <1>2, <1>3

\* A call's steps leave the process running.
LEMMA StepKeepsUp ==
  ASSUME NEW t \in Threads, CallStep(t)
  PROVE  up' = up
BY DEF CallStep, EntryStep, ExitStep, OpenRisk, MarginLockFails, EntryFilled,
       EntryFailed, ResolveEntry, SaveEntry, RecordExit, ExitFilled, ExitFailed,
       ResolveExit, CloseExit, Send, OutcomeUnknown, MarkUnfilled

\* Every step keeps the exits covered.
LEMMA CoverStep ==
  ASSUME IInv, IInv', RowsOK, RowsOK', [Next]_vars, NEW s \in Symbols,
         BooksOK(s)', CoverOK(s)
  PROVE  CoverOK(s)'
<1> SUFFICES ASSUME Clean(s)' PROVE CoverOK(s)'
  BY DEF CoverOK
<1>facts. TypeOK /\ TypeOK'
  BY DEF IInv
<1>1. CASE up'
  BY <1>1, BooksCover, PTL
<1>2. CASE ~up'
  <2>1. CASE UNCHANGED <<order, exch, alerted, suspect, revived>>
    <3>1. Held(s)' = Held(s)
      BY <2>1, <1>facts, HeldSame
    <3> QED
      BY <2>1, <3>1 DEF CoverOK, Clean, Live
  <2>2. ASSUME NEW id \in Orders, Fill(id) \/ Stop(id) PROVE CoverOK(s)'
    <3>1. Clean(s)
      BY <2>2 DEF Fill, Stop, Clean, history
    <3> QED
      BY <2>2, <3>1, ExchangeCovers
  <2>3. CASE Crash \/ UNCHANGED vars
    BY <2>3, <2>1 DEF Crash, vars, history
  <2>4. (\E id \in Orders : Fill(id) \/ Stop(id)) \/ Crash \/ UNCHANGED vars
    <3>1. \A t \in Threads : ~CallStep(t)
      BY <1>2, StepActive, StepKeepsUp
    <3> QED
      BY <1>2, <3>1 DEF Next, BeginEntry, BeginExit, Free, Start, RestoreAgain
  <2> QED
    BY <2>2, <2>3, <2>4
<1> QED
  BY <1>1, <1>2

\* PlaceExitOrder sells no more of a symbol than is held, unless something marked
\* the symbol: the reversal that reduce-only (broker.go) rules out needs one of
\* the marks of suspect, revived and alerted.
THEOREM OnlyMarkedOnesReverse == Spec => []OnlyMarkedReverse
<1> DEFINE Books == IInv /\ RowsOK /\ \A s \in Symbols : BooksOK(s)
           Covered == \A s \in Symbols : CoverOK(s)
<1>1. Init => Books /\ Covered
  <2> SUFFICES ASSUME Init PROVE Books /\ Covered
    OBVIOUS
  <2>1. Books
    BY InitInvariant, InitBooks
  <2>2. up
    BY DEF Init
  <2> QED
    BY <2>1, <2>2, BooksCover
<1>2. Books /\ Covered /\ [Next]_vars => (Books /\ Covered)'
  <2> SUFFICES ASSUME Books, Covered, [Next]_vars PROVE (Books /\ Covered)'
    OBVIOUS
  <2>1. IInv'
    BY NextInvariant
  <2>2. RowsOK'
    BY RowsStep
  <2>3. \A s \in Symbols : BooksOK(s)'
    BY <2>1, BooksStep
  <2>4. \A s \in Symbols : CoverOK(s)'
    BY <2>1, <2>2, <2>3, CoverStep
  <2> QED
    BY <2>1, <2>2, <2>3, <2>4
<1>3. Books /\ Covered => OnlyMarkedReverse
  BY DEF OnlyMarkedReverse, CoverOK, Clean
<1> QED
  BY <1>1, <1>2, <1>3, PTL DEF Spec

-----------------------------------------------------------------------------
(***************************************************************************)
(* The second restore is as harmless as main.go says but for the exits     *)
(* that run meanwhile: it changes the risk position of a clean symbol only *)
(* if an exit of it has filled and has not closed its row yet.             *)
(***************************************************************************)
ClosingExit(s) == \E t \in Threads : Exiting(t, s) /\ call[t].at \in {"resolve", "row"}

RestoreDisturbsClosingOnly ==
    [][RestoreAgain =>
          \A s \in Symbols \ (suspect \cup revived \cup alerted) :
              openPositions'[s] # openPositions[s] => ClosingExit(s)]_vars

\* Away from such an exit the table has what the risk book has.
LEMMA RowsOfRest ==
  ASSUME NEW s \in Symbols, BooksOK(s), Clean(s), up, ~ClosingExit(s), OpenRows(s) # {}
  PROVE  Rowed(s, openPositions[s])
<1>1. CASE ~Busy(s)
  BY <1>1 DEF BooksOK, AtRest
<1>2. CASE Busy(s)
  <2>1. PICK t \in Threads : CallOn(t, s)
    BY <1>2 DEF Busy
  <2>2. CallBooks(t, s)
    BY <2>1 DEF BooksOK
  <2>3. CASE EntryBooks(t, s)
    BY <2>3 DEF EntryBooks, AtRest
  <2>4. CASE order[Id(t)].kind = "exit" /\ ExitBooks(t, s)
    <3>1. call[t].at \notin {"resolve", "row"}
      BY <2>1, <2>4 DEF ClosingExit, Exiting
    <3> QED
      BY <2>4, <3>1 DEF ExitBooks, AtRest
  <2> QED
    BY <2>2, <2>3, <2>4 DEF CallBooks
<1> QED
  BY <1>1, <1>2

\* Restoring twice is harmless (main.go) unless an exit is just closing its
\* position: SecondRestoreChangesNothing fails in no other way.
THEOREM RestoreIsHarmless == Spec => RestoreDisturbsClosingOnly
<1> DEFINE Books == IInv /\ RowsOK /\ \A s \in Symbols : BooksOK(s)
           Harmless == RestoreAgain =>
                           \A s \in Symbols \ (suspect \cup revived \cup alerted) :
                               openPositions'[s] # openPositions[s] => ClosingExit(s)
<1>1. Init => Books
  BY InitInvariant, InitBooks
<1>2. Books /\ [Next]_vars => Books'
  <2> SUFFICES ASSUME Books, [Next]_vars PROVE Books'
    OBVIOUS
  <2>1. IInv'
    BY NextInvariant
  <2>2. RowsOK'
    BY RowsStep
  <2>3. \A s \in Symbols : BooksOK(s)'
    BY <2>1, BooksStep
  <2> QED
    BY <2>1, <2>2, <2>3
<1>3. Books => Harmless
  <2> SUFFICES ASSUME Books, RestoreAgain, NEW s \in Symbols, Clean(s), ~ClosingExit(s)
               PROVE  openPositions'[s] = openPositions[s]
    BY DEF Clean
  <2>1. up /\ (Restored \/ openPositions' = openPositions)
    BY DEF RestoreAgain
  <2>2. CASE Restored
    <3>1. Recovers(s, openPositions'[s])
      BY <2>2 DEF Restored
    <3>2. CASE OpenRows(s) # {}
      <4>1. Rowed(s, openPositions[s])
        BY <2>1, <3>2, RowsOfRest
      <4> QED
        BY <3>1, <3>2, <4>1 DEF Recovers, Rowed
    <3> QED
      BY <3>1, <3>2 DEF Recovers
  <2> QED
    BY <2>1, <2>2
<1> QED
  BY <1>1, <1>2, <1>3, PTL DEF Spec, RestoreDisturbsClosingOnly

-----------------------------------------------------------------------------
(***************************************************************************)
(* What the risk manager watches is backed by something durable.  A row    *)
(* that an exit is about to close and an attempt that an entry is about to *)
(* mark rejected back nothing any more: by then the call has taken the     *)
(* position out of the risk book.                                          *)
(***************************************************************************)
Closing(id) == \E t \in Threads : call[t].at \in {"resolve", "row"} /\ call[t].row = id
Failing(id) == \E t \in Threads : call[t].at = "reject" /\ Id(t) = id

BackingRow(s, id) == id \in OpenRows(s) /\ ~Closing(id)
BackingAttempt(s, id) ==
    id \in OrdersOn(s, "entry") /\ attempts[id].st \in Unresolved /\ ~Failing(id)
BackingCall(s, t) == CallOn(t, s) /\ call[t].at = "row" /\ order[Id(t)].kind = "entry"

Backed(s) ==
    \/ \E id \in Orders : BackingRow(s, id) \/ BackingAttempt(s, id)
    \/ \E t \in Threads : BackingCall(s, t)

BackedOK(s) == s \notin revived \cup alerted /\ up /\ openPositions[s] > 0 => Backed(s)

\* The call in progress of an entry has its attempt unresolved, and that
\* backs the position unless the entry failed.
LEMMA EntryBacks ==
  ASSUME IInv, IInv', NEW t \in Threads, Active(t)', order'[Id(t)'].kind = "entry",
         call'[t].at \in {"open", "send", "wait", "resolve", "unknown"},
         NEW s, s = Sym(t)'
  PROVE  Backed(s)'
<1>1. StageOK(t)' /\ CallsOK' /\ TypeOK'
  BY DEF IInv, StagesOK
<1>2. issued' \in 0..MaxOrders /\ Id(t)' \in 1..issued'
  BY <1>1 DEF CallsOK, TypeOK
<1>3. PICK id \in Orders : id = Id(t)'
  BY <1>2, TradingEngineAssumption DEF Orders
<1>4. attempts'[id].st \in Unresolved
  BY <1>1, <1>3 DEF StageOK, Unresolved
<1>5. ~Failing(id)'
  <2> SUFFICES ASSUME NEW u \in Threads, call'[u].at = "reject", Id(u)' = id PROVE FALSE
    BY DEF Failing
  <2>1. Active(u)'
    BY DEF Active
  <2>2. u = t
    BY <2>1, <1>1, <1>3 DEF CallsOK
  <2> QED
    BY <2>2
<1>6. BackingAttempt(s, id)'
  BY <1>3, <1>4, <1>5 DEF BackingAttempt, OrdersOn, Sym
<1> QED
  BY <1>6 DEF Backed

\* What a step of a call leaves of the backing of the other symbols.
LEMMA OtherBacking ==
  ASSUME IInv, RowsOK, NEW t \in Threads, CallStep(t), NEW s \in Symbols, s # Sym(t), BackedOK(s)
  PROVE  BackedOK(s)'
<1>facts. /\ TypeOK /\ CallsOK /\ Active(t) /\ up /\ Id(t) = call[t].id
          /\ call[t].row # 0 => order[call[t].row].sym = Sym(t)
  <2>1. TypeOK /\ CallsOK /\ Active(t) /\ up
    BY StepActive DEF IInv
  <2> QED
    BY <2>1, CallFacts DEF RowsOK, CallRowOK
<1>frame. /\ up' /\ order' = order
          /\ \A u \in Threads \ {t} : call'[u] = call[u]
          /\ \A id \in Orders \ {Id(t)} : attempts'[id] = attempts[id]
          /\ call'[t].at # "idle" => call'[t].id = call[t].id /\ call'[t].row = call[t].row
          /\ openPositions'[s] = openPositions[s]
          /\ \A id \in Orders : order[id].sym # Sym(t) => positions'[id] = positions[id]
          /\ alerted \subseteq alerted' /\ revived' = revived
  BY CallStepFrame, CallStepBooks
<1>1. ASSUME NEW id \in Orders, BackingRow(s, id) PROVE BackingRow(s, id)'
  <2>1. id \in OpenRows(s) /\ order[id].sym = s /\ ~Closing(id)
    BY <1>1 DEF BackingRow, OpenRows, OrdersOn
  <2>2. id \in OpenRows(s)'
    BY <2>1, <1>frame DEF OpenRows, OrdersOn
  <2>3. ~Closing(id)'
    <3> SUFFICES ASSUME NEW u \in Threads, call'[u].at \in {"resolve", "row"}, call'[u].row = id
                 PROVE  FALSE
      BY DEF Closing
    <3>1. CASE u = t
      <4>1. call[t].row = id /\ id # 0
        BY <3>1, <1>frame DEF Orders
      <4> QED
        BY <4>1, <2>1, <1>facts
    <3>2. CASE u # t
      BY <3>2, <2>1, <1>frame DEF Closing
    <3> QED
      BY <3>1, <3>2
  <2> QED
    BY <2>2, <2>3 DEF BackingRow
<1>2. ASSUME NEW id \in Orders, BackingAttempt(s, id) PROVE BackingAttempt(s, id)'
  <2>1. id # Id(t) /\ ~Failing(id)
    BY <1>2 DEF BackingAttempt, OrdersOn, Sym
  <2>2. ~Failing(id)'
    BY <2>1, <1>facts, <1>frame DEF Failing, Id
  <2> QED
    BY <1>2, <2>1, <2>2, <1>frame DEF BackingAttempt, OrdersOn
<1>3. ASSUME NEW u \in Threads, BackingCall(s, u) PROVE BackingCall(s, u)'
  <2>1. u # t
    BY <1>3 DEF BackingCall, CallOn, Sym, Id
  <2> QED
    BY <2>1, <1>3, <1>frame DEF BackingCall, CallOn, Id
<1> QED
  BY <1>facts, <1>frame, <1>1, <1>2, <1>3 DEF BackedOK, Backed

\* The backing a call leaves to its own symbol when it neither writes a row
\* nor takes the position out of the risk book.
LEMMA OwnBacking ==
  ASSUME IInv, RowsOK, NEW t \in Threads, CallStep(t), NEW s \in Symbols, s = Sym(t),
         BackedOK(s), openPositions'[s] = openPositions[s],
         \/ positions' = positions
         \/ /\ call[t].row # 0 /\ call[t].at = "row"
            /\ positions' = [positions EXCEPT ![call[t].row].st = "closed"],
         \* an exit, or an entry that only returns or was answered
         \/ order[Id(t)].kind = "exit"
         \/ /\ call[t].at # "row" /\ call'[t].at \notin {"resolve", "row", "reject"}
            /\ call[t].at # "reject" => \/ attempts'[Id(t)].st \in Unresolved
                                        \/ attempts' = attempts,
         call'[t].at \in {"resolve", "row"} => call[t].at \in {"resolve", "row"}
  PROVE  BackedOK(s)'
<1>facts. /\ TypeOK /\ CallsOK /\ Active(t) /\ up /\ Id(t) = call[t].id
          /\ positions \in [Orders -> Row]
  <2>1. TypeOK /\ CallsOK /\ Active(t) /\ up
    BY StepActive DEF IInv
  <2> QED
    BY <2>1, CallFacts DEF TypeOK
<1>frame. /\ up' /\ order' = order
          /\ \A u \in Threads \ {t} : call'[u] = call[u]
          /\ \A id \in Orders \ {Id(t)} : attempts'[id] = attempts[id]
          /\ call'[t].at # "idle" => call'[t].id = call[t].id /\ call'[t].row = call[t].row
          /\ alerted \subseteq alerted' /\ revived' = revived
  BY CallStepFrame, CallStepBooks
<1>1. ASSUME NEW id \in Orders, BackingRow(s, id) PROVE BackingRow(s, id)'
  <2>1. id \in OpenRows(s) /\ ~Closing(id)
    BY <1>1 DEF BackingRow
  <2>2. positions'[id] = positions[id]
    <3>1. call[t].at = "row" => call[t].row # id
      BY <2>1 DEF Closing
    <3> QED
      BY <3>1, <1>facts
  <2>3. id \in OpenRows(s)'
    BY <2>1, <2>2, <1>frame DEF OpenRows, OrdersOn
  <2>4. ~Closing(id)'
    BY <2>1, <1>frame DEF Closing
  <2> QED
    BY <2>3, <2>4 DEF BackingRow
<1>2. ASSUME NEW id \in Orders, BackingAttempt(s, id) PROVE BackingAttempt(s, id)'
  <2>1. id \in OrdersOn(s, "entry")' /\ attempts[id].st \in Unresolved /\ ~Failing(id)
    BY <1>2, <1>frame DEF BackingAttempt, OrdersOn
  <2>2. CASE id = Id(t)
    <3>1. order[Id(t)].kind = "entry" /\ call[t].at # "reject"
      BY <2>1, <2>2, <1>2 DEF BackingAttempt, OrdersOn, Failing
    <3>2. attempts'[id].st \in Unresolved /\ call'[t].at # "reject"
      BY <2>1, <2>2, <3>1
    <3>3. ~Failing(id)'
      BY <2>1, <3>2, <1>facts, <1>frame DEF Failing, Id
    <3> QED
      BY <2>1, <3>2, <3>3 DEF BackingAttempt
  <2>3. CASE id # Id(t)
    <3>1. ~Failing(id)'
      BY <2>1, <2>3, <1>facts, <1>frame DEF Failing, Id
    <3> QED
      BY <2>1, <2>3, <3>1, <1>frame DEF BackingAttempt
  <2> QED
    BY <2>2, <2>3
<1>3. ASSUME NEW u \in Threads, BackingCall(s, u) PROVE BackingCall(s, u)'
  <2>1. u # t
    BY <1>3 DEF BackingCall
  <2> QED
    BY <2>1, <1>3, <1>frame DEF BackingCall, CallOn, Id
<1> QED
  BY <1>facts, <1>frame, <1>1, <1>2, <1>3 DEF BackedOK, Backed

\* A call keeps its own symbol's position backed.
LEMMA OwnBackedStep ==
  ASSUME IInv, IInv', RowsOK, NEW t \in Threads, CallStep(t), NEW s \in Symbols, s = Sym(t),
         BackedOK(s)
  PROVE  BackedOK(s)'
<1>facts. /\ TypeOK /\ CallsOK /\ Active(t) /\ up /\ Id(t) = call[t].id /\ Id(t) \in Orders
          /\ call \in [Threads -> Call] /\ openPositions \in [Symbols -> 0..MaxQty]
          /\ positions \in [Orders -> Row] /\ attempts \in [Orders -> Attempt]
          /\ order[Id(t)].kind \in {"entry", "exit"} /\ order[Id(t)].sym = s
  <2>1. TypeOK /\ CallsOK /\ Active(t) /\ up
    BY StepActive DEF IInv
  <2> QED
    BY <2>1, CallFacts DEF TypeOK, CallsOK
<1>frame. /\ up' /\ order' = order
          /\ call'[t].at # "idle" => call'[t].id = call[t].id
  BY CallStepFrame
<1>same. call'[t].at # "idle" => /\ Id(t)' = Id(t) /\ s = Sym(t)' /\ order'[Id(t)'] = order[Id(t)]
                                 /\ Active(t)'
  BY <1>facts, <1>frame DEF Id, Sym, Active
<1>goto. \A stage \in Stages : Goto(t, stage) => call'[t].at = stage
  BY <1>facts DEF Goto
<1>return. Return(t) => call'[t].at = "idle"
  BY <1>facts DEF Return, Idle
<1>stages. {"open", "send", "wait", "resolve", "reject", "unknown", "row"} \subseteq Stages
  BY DEF Stages
<1>1. CASE OpenRisk(t) \/ EntryFilled(t)
  <2>1. order[Id(t)].kind = "entry" /\ call'[t].at \in {"send", "resolve"}
    BY <1>1, <1>goto, <1>stages DEF OpenRisk, EntryFilled, At, Id
  <2>2. Backed(s)'
    BY <2>1, <1>same, EntryBacks
  <2> QED
    BY <2>2 DEF BackedOK
<1>2. CASE MarginLockFails(t)
  <2>1. /\ call[t].at = "open" /\ call'[t].at = "idle" /\ positions' = positions
        /\ openPositions' = openPositions /\ attempts' = attempts
    BY <1>2, <1>return DEF MarginLockFails, At, durable, memory
  <2> QED
    BY <2>1, <1>facts, OwnBacking
<1>3. CASE EntryFailed(t) \/ ExitFilled(t)
  <2>1. openPositions'[s] = 0
    BY <1>3, <1>facts DEF EntryFailed, ExitFilled
  <2> QED
    BY <2>1 DEF BackedOK
<1>4. CASE ResolveEntry(t)
  <2>1. call'[t].at = "row" /\ order[Id(t)].kind = "entry"
    BY <1>4, <1>goto, <1>stages DEF ResolveEntry, At, Id
  <2>2. BackingCall(s, t)'
    BY <2>1, <1>same DEF BackingCall, CallOn, Sym, Id
  <2> QED
    BY <2>2 DEF BackedOK, Backed
<1>5. CASE SaveEntry(t)
  <2> SUFFICES ASSUME s \notin alerted' PROVE Backed(s)'
    BY DEF BackedOK
  <2>1. /\ positions' = [positions EXCEPT ![Id(t)] = [st |-> "open", qty |-> exch[Id(t)].filled]]
        /\ order[Id(t)].kind = "entry" /\ call'[t].at = "idle"
    BY <1>5, <1>return DEF SaveEntry, At, Id
  <2>2. PICK id \in Orders : id = Id(t)
    BY <1>facts
  <2>3. id \in OpenRows(s)'
    BY <2>1, <2>2, <1>facts, <1>frame DEF OpenRows, OrdersOn
  <2>4. ~Closing(id)'
    <3> SUFFICES ASSUME NEW u \in Threads, call'[u].at \in {"resolve", "row"}, call'[u].row = id
                 PROVE  FALSE
      BY DEF Closing
    <3>1. u # t /\ call'[u] = call[u]
      BY <2>1, CallStepFrame
    <3>2. Active(u) /\ call[u].row # 0
      BY <3>1, TradingEngineAssumption DEF Active, Orders
    <3>3. positions[id].st # "none" /\ positions[id].st = "none"
      BY <2>1, <2>2, <3>1, <3>2, <1>facts DEF RowsOK, CallRowOK
    <3> QED
      BY <3>3
  <2>5. BackingRow(s, id)'
    BY <2>3, <2>4 DEF BackingRow
  <2> QED
    BY <2>5 DEF Backed
<1>6. CASE RecordExit(t) \/ ExitFailed(t) \/ ResolveExit(t)
  <2>1. /\ order[Id(t)].kind = "exit" /\ positions' = positions /\ openPositions' = openPositions
        /\ call'[t].at \in {"resolve", "row"} => call[t].at \in {"resolve", "row"}
    BY <1>6, <1>goto, <1>stages DEF RecordExit, ExitFailed, ResolveExit, At, Id, memory, durable
  <2> QED
    BY <2>1, OwnBacking
<1>7. CASE CloseExit(t)
  <2>1. /\ order[Id(t)].kind = "exit" /\ openPositions' = openPositions
        /\ call[t].at = "row" /\ call'[t].at = "idle"
        /\ \/ positions' = positions
           \/ /\ call[t].row # 0
              /\ positions' = [positions EXCEPT ![call[t].row].st = "closed"]
    BY <1>7, <1>return DEF CloseExit, At, Id
  <2> QED
    BY <2>1, OwnBacking
<1>8. CASE Send(t) \/ OutcomeUnknown(t)
  <2>1. /\ call[t].at \in {"send", "wait"} /\ call'[t].at \in {"wait", "unknown"}
        /\ positions' = positions /\ openPositions' = openPositions /\ attempts' = attempts
    BY <1>8, <1>goto, <1>stages DEF Send, OutcomeUnknown, memory, durable
  <2> QED
    BY <2>1, <1>facts, OwnBacking
<1>9. CASE MarkUnfilled(t)
  <2>1. /\ call[t].at \in {"reject", "unknown"} /\ call'[t].at = "idle"
        /\ positions' = positions /\ openPositions' = openPositions
    BY <1>9, <1>return DEF MarkUnfilled
  <2>2. call[t].at # "reject" => attempts'[Id(t)].st \in Unresolved \/ attempts' = attempts
    BY <1>9, <1>facts DEF MarkUnfilled, Unresolved
  <2> QED
    BY <2>1, <2>2, <1>facts, OwnBacking
<1> QED
  BY <1>1, <1>2, <1>3, <1>4, <1>5, <1>6, <1>7, <1>8, <1>9 DEF CallStep, EntryStep, ExitStep

\* The start of a call takes no backing away.
LEMMA IssueKeepsBacked ==
  ASSUME IInv, RowsOK, NEW t \in Threads, NEW x \in Symbols,
         up, positions' = positions, exch' = exch, openPositions' = openPositions,
         call[t].at = "idle", call'[t].at \in {"open", "record"},
         issued + 1 \in Orders, exch[issued + 1] = NoRow, order'[issued + 1].sym = x,
         order[issued + 1].kind = "none",
         \A id \in Orders : id # issued + 1 => order'[id] = order[id],
         \A id \in Orders : id # issued + 1 => attempts'[id] = attempts[id],
         call'[t].id = issued + 1,
         \A u \in Threads : u # t => call'[u] = call[u],
         alerted' = alerted, revived' = revived,
         NEW s \in Symbols, BackedOK(s)
  PROVE  BackedOK(s)'
<1>frame. /\ OpenRows(s)' = OpenRows(s)
          /\ \A u \in Threads : u # t =>
               /\ CallOn(u, s)' <=> CallOn(u, s)
               /\ CallOn(u, s) => call'[u] = call[u] /\ order'[Id(u)] = order[Id(u)]
  BY IssueBooks
<1>1. ASSUME NEW id \in Orders PROVE Closing(id)' => Closing(id)
  BY DEF Closing
<1>2. ASSUME NEW id \in Orders PROVE Failing(id)' => Failing(id)
  BY DEF Failing, Id
<1>3. \A id \in Orders : BackingRow(s, id) => BackingRow(s, id)'
  BY <1>frame, <1>1 DEF BackingRow
<1>4. ASSUME NEW id \in Orders, BackingAttempt(s, id) PROVE BackingAttempt(s, id)'
  <2>1. id # issued + 1
    BY <1>4 DEF BackingAttempt, OrdersOn
  <2> QED
    BY <2>1, <1>2, <1>4 DEF BackingAttempt, OrdersOn
<1>5. ASSUME NEW u \in Threads, BackingCall(s, u) PROVE BackingCall(s, u)'
  <2>1. u # t
    BY <1>5 DEF BackingCall
  <2> QED
    BY <2>1, <1>5, <1>frame DEF BackingCall, Id
<1> QED
  BY <1>3, <1>4, <1>5 DEF BackedOK, Backed

\* A start restores positions from open rows that nobody is closing.
LEMMA StartKeepsBacked ==
  ASSUME IInv, RowsOK, NEW acceptReconcile \in BOOLEAN, Start(acceptReconcile), NEW s \in Symbols
  PROVE  BackedOK(s)'
<1> SUFFICES ASSUME openPositions'[s] > 0 PROVE Backed(s)'
  BY DEF BackedOK
<1>frame. /\ UNCHANGED <<order, call, positions>>
          /\ ~up /\ openPositions[s] = 0
          /\ Restored \/ openPositions' = openPositions
          /\ \A t \in Threads : call[t].at = "idle"
  BY DEF Start, durable, RowsOK, IInv, CallsOK, Active
<1>1. Recovers(s, openPositions'[s])
  BY <1>frame DEF Restored
<1>2. PICK id \in OpenRows(s) : TRUE
  BY <1>1, <1>frame DEF Recovers
<1>3. id \in Orders /\ BackingRow(s, id)'
  BY <1>2, <1>frame DEF BackingRow, OpenRows, OrdersOn, Closing
<1> QED
  BY <1>3 DEF Backed

\* Steps that change neither the table, the journal nor a call.
LEMMA BackedSame ==
  ASSUME UNCHANGED <<up, order, call, positions, attempts, alerted>>, revived \subseteq revived',
         NEW s, s \notin revived' => openPositions'[s] = openPositions[s], BackedOK(s)
  PROVE  BackedOK(s)'
<1>1. Backed(s)' <=> Backed(s)
  BY DEF Backed, BackingRow, BackingAttempt, BackingCall, OpenRows, OrdersOn, Closing, Failing,
         CallOn, Id
<1> QED
  BY <1>1 DEF BackedOK

\* Every step keeps every position backed.
LEMMA BackedStep ==
  ASSUME IInv, IInv', RowsOK, [Next]_vars, NEW s \in Symbols, BackedOK(s)
  PROVE  BackedOK(s)'
<1>1. ASSUME NEW t \in Threads, NEW x \in Symbols, NEW q \in 1..MaxQty, BeginEntry(t, x, q)
      PROVE  BackedOK(s)'
  <2>1. /\ up /\ positions' = positions /\ exch' = exch /\ openPositions' = openPositions
        /\ call[t].at = "idle" /\ call'[t].at = "open"
        /\ issued + 1 \in Orders /\ exch[issued + 1] = NoRow /\ order'[issued + 1].sym = x
        /\ order[issued + 1].kind = "none"
        /\ \A id \in Orders : id # issued + 1 => order'[id] = order[id]
        /\ \A id \in Orders : id # issued + 1 => attempts'[id] = attempts[id]
        /\ call'[t].id = issued + 1
        /\ \A u \in Threads : u # t => call'[u] = call[u]
    BY <1>1, BeginEntryIssues
  <2>2. alerted' = alerted /\ revived' = revived
    BY <1>1 DEF BeginEntry
  <2> QED
    BY <2>1, <2>2, IssueKeepsBacked
<1>2. ASSUME NEW t \in Threads, NEW x \in Symbols, NEW row \in Rows(x) \cup {0},
             BeginExit(t, x, row)
      PROVE  BackedOK(s)'
  <2>1. /\ up /\ positions' = positions /\ exch' = exch /\ openPositions' = openPositions
        /\ call[t].at = "idle" /\ call'[t].at = "record" /\ attempts' = attempts
        /\ issued + 1 \in Orders /\ exch[issued + 1] = NoRow /\ order'[issued + 1].sym = x
        /\ order[issued + 1].kind = "none"
        /\ \A id \in Orders : id # issued + 1 => order'[id] = order[id]
        /\ call'[t].id = issued + 1
        /\ \A u \in Threads : u # t => call'[u] = call[u]
    BY <1>2, BeginExitIssues
  <2>2. alerted' = alerted /\ revived' = revived
    BY <1>2 DEF BeginExit
  <2> QED
    BY <2>1, <2>2, IssueKeepsBacked
<1>3. ASSUME NEW t \in Threads, CallStep(t) PROVE BackedOK(s)'
  BY <1>3, OtherBacking, OwnBackedStep
<1>4. ASSUME NEW id \in Orders, Fill(id) \/ Stop(id) PROVE BackedOK(s)'
  <2>1. UNCHANGED <<up, order, call, positions, attempts, openPositions, alerted, revived>>
    BY <1>4 DEF Fill, Stop, durable, memory, history
  <2> QED
    BY <2>1, BackedSame
<1>5. ASSUME Crash PROVE BackedOK(s)'
  BY <1>5 DEF Crash, BackedOK
<1>6. ASSUME NEW acceptReconcile \in BOOLEAN, Start(acceptReconcile) PROVE BackedOK(s)'
  BY <1>6, StartKeepsBacked
<1>7. ASSUME RestoreAgain PROVE BackedOK(s)'
  <2>1. /\ UNCHANGED <<up, order, call, positions, attempts, alerted>> /\ revived \subseteq revived'
        /\ s \notin revived' => openPositions'[s] = openPositions[s]
    BY <1>7 DEF RestoreAgain, durable
  <2> QED
    BY <2>1, BackedSame
<1>8. ASSUME UNCHANGED vars PROVE BackedOK(s)'
  <2>1. UNCHANGED <<up, order, call, positions, attempts, openPositions, alerted, revived>>
    BY <1>8 DEF vars, memory, durable, history
  <2> QED
    BY <2>1, BackedSame
<1> QED
  BY <1>1, <1>2, <1>3, <1>4, <1>5, <1>6, <1>7, <1>8 DEF Next

(***************************************************************************)
(* What the risk manager watches at rest has an open row or an unresolved  *)
(* attempt that stops the next start, or the operator was alerted: no      *)
(* interleaving of calls, failed writes and crashes leaves a position      *)
(* whose loss at a crash nobody would notice.                              *)
(***************************************************************************)
THEOREM PositionsAreDurable == Spec => []RiskIsDurable
<1> DEFINE Durable == IInv /\ RowsOK /\ \A s \in Symbols : BackedOK(s)
<1>1. Init => Durable
  <2> SUFFICES ASSUME Init PROVE Durable
    OBVIOUS
  <2>1. \A s \in Symbols : BackedOK(s)
    BY DEF Init, BackedOK
  <2> QED
    BY <2>1, InitInvariant, InitBooks
<1>2. Durable /\ [Next]_vars => Durable'
  <2> SUFFICES ASSUME Durable, [Next]_vars PROVE Durable'
    OBVIOUS
  <2>1. IInv'
    BY NextInvariant
  <2>2. RowsOK'
    BY RowsStep
  <2>3. \A s \in Symbols : BackedOK(s)'
    BY <2>1, BackedStep
  <2> QED
    BY <2>1, <2>2, <2>3
<1>3. Durable => RiskIsDurable
  <2> SUFFICES ASSUME Durable, NEW s \in Symbols \ revived, up, ~Busy(s), openPositions[s] > 0,
                      s \notin alerted
               PROVE  OpenRows(s) # {} \/ UnresolvedOn(s)
    BY DEF RiskIsDurable
  <2>1. Backed(s)
    BY DEF BackedOK
  <2>2. \A t \in Threads : ~BackingCall(s, t)
    BY DEF BackingCall, Busy
  <2>3. PICK id \in Orders : BackingRow(s, id) \/ BackingAttempt(s, id)
    BY <2>1, <2>2 DEF Backed
  <2> QED
    BY <2>3 DEF BackingRow, BackingAttempt, UnresolvedOn, OrdersOn
<1> QED
  BY <1>1, <1>2, <1>3, PTL DEF Spec
=============================================================================
