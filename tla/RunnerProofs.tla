----------------------------- MODULE RunnerProofs -----------------------------
(***************************************************************************)
(* Proofs about Runner, for any number of underlyings, contracts, legs,    *)
(* calls and failures.                                                     *)
(*                                                                         *)
(* The proof is in layers.  Shape: what the two goroutines and the books   *)
(* look like, and how they keep out of each other's way.  Records and      *)
(* latches: what the database and the strategy know of a structure, by     *)
(* what the loop is doing to it.  Lots: what the exchange holds of a       *)
(* contract that no alert and no known mishap has marked.  Days: why the   *)
(* straddle does not signal over a position that it does not track.  Lots  *)
(* and days are proved together: that an entry starts without a position   *)
(* needs the signal of the day, and that the signal may be forgotten needs *)
(* the lots.  Types: what the shape leaves out of TypeOK.                  *)
(***************************************************************************)
EXTENDS Runner, Sums, SequenceTheorems

LegSet(u) == ToSet(LegsOf[u])
Traded == UNION {LegSet(u) : u \in Underlyings}
Syms(legs) == {legs[i].sym : i \in DOMAIN legs}

TLeg == [sym : Traded, row : 0..MaxEntries, stop : BOOLEAN]
TTicket == [sym : Traded, row : 0..MaxEntries]
TTask == [agenda : Seq(Jobs), part : {"structures", "contracts"},
          us : SUBSET Underlyings, cs : SUBSET Traded,
          act : {"none", "enter", "unwind", "exit", "single"},
          at : {"ready", "open", "sent", "record", "confirm"},
          u : Underlyings \cup {"none"}, legs : Seq(TLeg), done : Seq(TLeg), ok : BOOLEAN,
          time : Instants, allowed : BOOLEAN]
TLatch == [entered : BOOLEAN, pendingExit : BOOLEAN, signaledEntry : BOOLEAN, lastDate : Int]

-----------------------------------------------------------------------------
(***************************************************************************)
(* Shape.                                                                  *)
(***************************************************************************)
Types ==
    /\ process \in {"running", "crashed", "clean", "dirty"}
    /\ ticking \in BOOLEAN
    /\ now \in Instants
    /\ task \in [Threads -> TTask]
    /\ killSwitch \in BOOLEAN

BooksTyped ==
    /\ book \subseteq Traded
    /\ open \in [Underlyings -> Seq(TLeg)]
    /\ latch \in [Underlyings -> TLatch]
    /\ rows \subseteq TTicket /\ IsFiniteSet(rows)
    /\ legsRec \in [Underlyings -> Seq(Traded)]
    /\ stratRec \in [Underlyings -> TLatch]
    /\ held \in [Contracts -> Int]
    /\ stops \subseteq TTicket
    /\ entries \in 0..MaxEntries
    /\ restarts \in Nat
    /\ faults \in Nat

\* A structure is tracked, and recorded, with all its legs.
Whole ==
    \A u \in Underlyings :
        /\ open[u] # <<>> => Syms(open[u]) = LegSet(u)
        /\ legsRec[u] # <<>> => ToSet(legsRec[u]) = LegSet(u)

\* The API's goroutine works after a kill only, the loop once it ticks, and a
\* process that has stopped has nothing in memory.
Control ==
    /\ ~killSwitch => task["api"] = Idle
    /\ ~ticking => task["loop"] = Idle
    /\ ~Running => /\ ~ticking /\ ~killSwitch
                   /\ book = {} /\ \A u \in Underlyings : open[u] = <<>>

\* The legs of a call sequence, by what it is and by how far it is.
Distinct(legs) == \A i, j \in DOMAIN legs : legs[i].sym = legs[j].sym => i = j

Shaped(t, k) ==
    /\ k.act = "enter" =>
           /\ t = "loop" /\ k.u \in Underlyings
           /\ Syms(k.done) \cup Syms(k.legs) = LegSet(k.u)
           /\ Distinct(k.legs)
           /\ k.at \in {"open", "sent"} => k.legs # <<>>
           /\ k.at \in {"record", "confirm"} => k.legs = <<>>
    /\ k.act = "unwind" => t = "loop" /\ k.u \in Underlyings /\ Syms(k.legs) \subseteq LegSet(k.u)
    /\ k.act = "exit" =>
           /\ k.u \in Underlyings
           /\ Syms(k.legs) \subseteq LegSet(k.u)
           /\ k.at \in {"record", "confirm"} => k.legs = <<>>
           /\ k.at = "record" => k.ok
    /\ k.act \in Closing /\ k.at = "sent" => k.legs # <<>>

InShape == \A t \in Threads : Shaped(t, task[t])

\* Nobody closes what another goroutine is closing.
Closes(k, c) == k.act \in Closing /\ k.at = "sent" /\ Head(k.legs).sym = c

Claims ==
    \A t \in Threads : \A c \in Traded : Closes(task[t], c) =>
        c \in exitInFlight /\ \A o \in Threads : Closes(task[o], c) => o = t

\* What is being entered is not tracked yet, and what the API's goroutine is
\* exiting is not entered beyond the loop's intention.
Enters(k, u) == k.act = "enter" /\ k.u = u /\ k.at \in {"ready", "open", "sent"}
Exits(k, u) == k.act = "exit" /\ k.u = u

Apart ==
    \A u \in Underlyings : Enters(task["loop"], u) =>
        /\ open[u] = <<>>
        /\ Exits(task["api"], u) => task["loop"].at = "ready" /\ task["loop"].done = <<>>

Outside == \A c \in Contracts \ Traded : held[c] = 0

SInv ==
    /\ Types
    /\ BooksTyped
    /\ Whole
    /\ Control
    /\ InShape
    /\ Claims
    /\ Apart
    /\ Outside

-----------------------------------------------------------------------------
(***************************************************************************)
(* Lots.                                                                   *)
(***************************************************************************)
Clean(c) == c \notin alerted \cup excused
Fine(c) == c \notin excused /\ (c \in alerted => Latched)

\* The loop's entry of c is at the exchange, unanswered.
OnTheWay(k, c) == k.act = "enter" /\ k.at = "sent" /\ Head(k.legs).sym = c

\* One lot at most, of what the risk manager has or a structure tracks, and the
\* structure's record can be found again.
LotOK(u, c) ==
    /\ held[c] <= 1
    /\ held[c] = 1 => IF Running THEN c \in book \/ open[u] # <<>> ELSE legsRec[u] # <<>>
    /\ held[c] = 1 /\ open[u] # <<>> =>
           \/ legsRec[u] # <<>>
           \/ task["loop"].act = "enter" /\ task["loop"].at = "record" /\ task["loop"].u = u

\* A leg to be entered is not held, and the risk manager has it once its entry is
\* sent; of a structure that was closed while it was being recorded it has none.
EntersOK(u, c) ==
    /\ task["loop"].act = "enter" /\ c \in Syms(task["loop"].legs) =>
           held[c] <= 0 /\ (c \in book <=> OnTheWay(task["loop"], c))
    /\ task["loop"].act = "enter" /\ task["loop"].u = u /\ task["loop"].at \in {"record", "confirm"}
           /\ open[u] = <<>> => c \notin book

\* A leg that t's exit has closed is not held, and what t is closing is there.
ExitsOK(t, u, c) ==
    /\ Exits(task[t], u) /\ task[t].ok /\ c \notin Syms(task[t].legs) =>
           held[c] <= 0 /\ c \notin book
    /\ Closes(task[t], c) => c \in book /\ ~OnTheWay(task["loop"], c)

\* What the risk manager has is held or on its way, and is tracked or at hand.
BookOK(u, c) ==
    /\ held[c] >= 0
    /\ c \in book => held[c] = 1 \/ OnTheWay(task["loop"], c)
    /\ c \in book =>
           \/ open[u] # <<>>
           \/ task["loop"].act = "enter" /\ task["loop"].u = u
                 /\ (c \in Syms(task["loop"].done) \/ OnTheWay(task["loop"], c))
           \/ task["loop"].act = "unwind" /\ c \in Syms(task["loop"].legs)

Lots(u, c) ==
    /\ Fine(c) => LotOK(u, c) /\ EntersOK(u, c) /\ \A t \in Threads : ExitsOK(t, u, c)
    /\ Clean(c) => BookOK(u, c)

EInv == \A u \in Underlyings : \A c \in LegSet(u) : Lots(u, c)

-----------------------------------------------------------------------------
(***************************************************************************)
(* Days.                                                                   *)
(***************************************************************************)
SignaledToday(u) == latch[u].signaledEntry /\ latch[u].lastDate = Day(now)

\* The straddle has signaled the entry of what is not tracked and still in the
\* book, and an evaluation is of this day.
LInv == Latched =>
    /\ \A u \in Underlyings : \A c \in LegSet(u) \ excused :
           c \in book => open[u] # <<>> \/ (ticking /\ SignaledToday(u))
    /\ \A u \in Underlyings : Enters(task["loop"], u) => SignaledToday(u)

DInv == \A t \in Threads : "evaluate" \in ToSet(task[t].agenda) => Day(task[t].time) = Day(now)

-----------------------------------------------------------------------------
(***************************************************************************)
(* Records and latches, by what the loop is doing: k.                      *)
(***************************************************************************)
\* The record is behind the structure only between the two writes.
RecordOK(k, u, legs, rec) ==
    /\ rec = SymsOf(legs) \/ (k.act \in {"enter", "exit"} /\ k.at = "record" /\ k.u = u)
    /\ k.act = "enter" /\ k.at = "record" /\ k.u = u => legs = k.done
    /\ k.act = "exit" /\ k.at = "record" /\ k.u = u => legs = <<>>

RInv == Running /\ ~killSwitch /\ faults = 0 =>
    \A u \in Underlyings : RecordOK(task["loop"], u, open[u], legsRec[u])

\* The strategy's own latch is set after the structure, and reset after it.
LatchOK(k, u, legs, l) ==
    /\ l.entered \/ l.pendingExit =>
           Latched /\ (legs # <<>> \/ (Exits(k, u) /\ k.ok /\ k.at \in {"record", "confirm"}))
    /\ k.act = "enter" /\ k.at \in {"record", "confirm"} /\ k.u = u => legs # <<>>

MInv == Running /\ ~killSwitch /\ restarts = 0 =>
    ticking /\ \A u \in Underlyings : LatchOK(task["loop"], u, open[u], latch[u])

-----------------------------------------------------------------------------
(***************************************************************************)
(* Legs.                                                                   *)
(***************************************************************************)
\* Every underlying has legs of its own.
LEMMA LegsFacts ==
    ASSUME NEW u \in Underlyings
    PROVE  /\ LegsOf[u] \in Seq(Traded) /\ LegsOf[u] # <<>>
           /\ LegSet(u) \subseteq Traded
           /\ LegSet(u) \subseteq Contracts
           /\ \A i, j \in DOMAIN LegsOf[u] : LegsOf[u][i] = LegsOf[u][j] => i = j
  <1>1. LegsOf[u] \in Seq(Contracts) /\ LegsOf[u] # <<>>
    BY RunnerAssumption
  <1>2. LegSet(u) \subseteq Contracts
    BY <1>1 DEF LegSet, ToSet
  <1>3. LegSet(u) \subseteq Traded
    BY DEF Traded
  <1>4. LegsOf[u] \in Seq(Traded)
    BY <1>1, <1>3 DEF LegSet, ToSet
  <1> QED
    BY <1>1, <1>2, <1>3, <1>4, RunnerAssumption

\* An underlying has a leg.
LEMMA LegsSome ==
    ASSUME NEW u \in Underlyings
    PROVE  LegSet(u) # {}
  <1>1. LegsOf[u] \in Seq(Traded) /\ LegsOf[u] # <<>>
    BY LegsFacts
  <1>2. 1 \in DOMAIN LegsOf[u]
    BY <1>1, LenProperties, EmptySeq
  <1> QED
    BY <1>2 DEF LegSet, ToSet

\* A contract is a leg of one underlying.
LEMMA LegsApart ==
    ASSUME NEW u \in Underlyings, NEW v \in Underlyings, NEW c \in LegSet(u), c \in LegSet(v)
    PROVE  u = v
  BY RunnerAssumption DEF LegSet

\* What is traded is a contract.
LEMMA TradedFacts == Traded \subseteq Contracts
  BY LegsFacts DEF Traded

\* The first leg, and those after it.
LEMMA SymsTail ==
    ASSUME NEW legs \in Seq(TLeg), legs # <<>>
    PROVE  /\ Head(legs) \in TLeg /\ Tail(legs) \in Seq(TLeg)
           /\ Head(legs) = legs[1] /\ 1 \in DOMAIN legs
           /\ Syms(legs) = {Head(legs).sym} \cup Syms(Tail(legs))
           /\ Distinct(legs) => Distinct(Tail(legs)) /\ Head(legs).sym \notin Syms(Tail(legs))
  <1>1. /\ Head(legs) \in TLeg /\ Tail(legs) \in Seq(TLeg)
        /\ Len(legs) \in Nat /\ Len(legs) >= 1
        /\ Len(Tail(legs)) = Len(legs) - 1
        /\ \A i \in 1..Len(Tail(legs)) : Tail(legs)[i] = legs[i + 1]
        /\ Head(legs) = legs[1]
        /\ DOMAIN legs = 1..Len(legs) /\ DOMAIN Tail(legs) = 1..Len(Tail(legs))
    BY HeadTailProperties, LenProperties, EmptySeq
  <1> DEFINE rest == Tail(legs)
  <1>2. ASSUME NEW i \in DOMAIN legs
        PROVE  i = 1 \/ (i - 1 \in DOMAIN rest /\ rest[i - 1] = legs[i])
    BY <1>1
  <1>3. ASSUME NEW i \in DOMAIN rest
        PROVE  i + 1 \in DOMAIN legs /\ rest[i] = legs[i + 1] /\ i + 1 # 1
    BY <1>1
  <1>4. 1 \in DOMAIN legs
    BY <1>1
  <1>5. Syms(legs) = {Head(legs).sym} \cup Syms(rest)
    <2>1. ASSUME NEW c \in Syms(legs) PROVE c \in {Head(legs).sym} \cup Syms(rest)
      <3>1. PICK i \in DOMAIN legs : c = legs[i].sym
        BY <2>1 DEF Syms
      <3> QED
        BY <1>1, <1>2, <3>1 DEF Syms
    <2>2. ASSUME NEW c \in Syms(rest) PROVE c \in Syms(legs)
      BY <1>3, <2>2 DEF Syms
    <2>3. Head(legs).sym \in Syms(legs)
      BY <1>1, <1>4 DEF Syms
    <2> QED
      BY <2>1, <2>2, <2>3
  <1>6. ASSUME Distinct(legs)
        PROVE  Distinct(rest) /\ Head(legs).sym \notin Syms(rest)
    <2>1. ASSUME NEW i \in DOMAIN rest, NEW j \in DOMAIN rest, rest[i].sym = rest[j].sym
          PROVE  i = j
      <3>1. i + 1 = j + 1
        BY <1>3, <1>6, <2>1 DEF Distinct
      <3> QED
        BY <1>1, <3>1
    <2>2. ASSUME NEW i \in DOMAIN rest PROVE rest[i].sym # Head(legs).sym
      BY <1>1, <1>3, <1>4, <1>6 DEF Distinct
    <2> QED
      BY <2>1, <2>2 DEF Distinct, Syms
  <1> QED
    BY <1>1, <1>4, <1>5, <1>6

\* No leg is none of the contracts.
LEMMA SymsNone == Syms(<<>>) = {}
  BY DEF Syms

\* Any leg is one of the contracts.
LEMMA SymsSome ==
    ASSUME NEW legs \in Seq(TLeg)
    PROVE  /\ Syms(legs) \subseteq Traded
           /\ legs = <<>> <=> Syms(legs) = {}
           /\ ToSet(SymsOf(legs)) = Syms(legs)
           /\ SymsOf(legs) \in Seq(Traded)
           /\ SymsOf(legs) = <<>> <=> legs = <<>>
  <1>1. Len(legs) \in Nat /\ DOMAIN legs = 1..Len(legs) /\ \A i \in DOMAIN legs : legs[i] \in TLeg
    BY LenProperties, ElementOfSeq
  <1>2. Syms(legs) \subseteq Traded
    BY <1>1 DEF Syms, TLeg
  <1>3. legs = <<>> <=> Syms(legs) = {}
    BY SymsTail, SymsNone
  <1>4. ToSet(SymsOf(legs)) = Syms(legs)
    BY DEF ToSet, SymsOf, Syms
  <1>5. SymsOf(legs) \in Seq(Traded) /\ Len(SymsOf(legs)) = Len(legs)
    BY <1>1 DEF SymsOf, TLeg
  <1>6. SymsOf(legs) = <<>> <=> legs = <<>>
    BY <1>5, EmptySeq
  <1> QED
    BY <1>2, <1>3, <1>4, <1>5, <1>6

\* A leg more is its contract more.
LEMMA SymsAppend ==
    ASSUME NEW legs \in Seq(TLeg), NEW leg \in TLeg
    PROVE  /\ Append(legs, leg) \in Seq(TLeg)
           /\ Syms(Append(legs, leg)) = Syms(legs) \cup {leg.sym}
  <1> DEFINE more == Append(legs, leg)
  <1>1. /\ more \in Seq(TLeg) /\ Len(legs) \in Nat
        /\ DOMAIN legs = 1..Len(legs) /\ DOMAIN more = 1..(Len(legs) + 1)
        /\ \A i \in 1..Len(legs) : more[i] = legs[i]
        /\ more[Len(legs) + 1] = leg
    BY AppendProperties, LenProperties
  <1> HIDE DEF more
  <1>2. ASSUME NEW i \in DOMAIN more
        PROVE  i = Len(legs) + 1 \/ i \in DOMAIN legs
    BY <1>1
  <1>3. Len(legs) + 1 \in DOMAIN more /\ DOMAIN legs \subseteq DOMAIN more
    BY <1>1
  <1>4. Syms(more) = Syms(legs) \cup {leg.sym}
    <2>1. ASSUME NEW c \in Syms(more) PROVE c \in Syms(legs) \cup {leg.sym}
      <3>1. PICK i \in DOMAIN more : c = more[i].sym
        BY <2>1 DEF Syms
      <3> QED
        BY <1>1, <1>2, <3>1 DEF Syms
    <2>2. ASSUME NEW c \in Syms(legs) PROVE c \in Syms(more)
      <3>1. PICK i \in DOMAIN legs : c = legs[i].sym
        BY <2>2 DEF Syms
      <3> QED
        BY <1>1, <1>3, <3>1 DEF Syms
    <2>3. leg.sym \in Syms(more)
      BY <1>1, <1>3 DEF Syms
    <2> QED
      BY <2>1, <2>2, <2>3
  <1> QED
    BY <1>1, <1>4 DEF more

\* The legs to enter are the underlying's.
LEMMA LegsToEnter ==
    ASSUME NEW u \in Underlyings,
           NEW legs, legs = [i \in DOMAIN LegsOf[u] |-> Untracked(LegsOf[u][i])]
    PROVE  /\ legs \in Seq(TLeg) /\ legs # <<>>
           /\ Syms(legs) = LegSet(u) /\ Distinct(legs)
  <1>1. /\ LegsOf[u] \in Seq(Traded) /\ LegsOf[u] # <<>>
        /\ \A i, j \in DOMAIN LegsOf[u] : LegsOf[u][i] = LegsOf[u][j] => i = j
    BY LegsFacts
  <1>2. /\ Len(LegsOf[u]) \in Nat \ {0} /\ DOMAIN LegsOf[u] = 1..Len(LegsOf[u])
        /\ \A i \in DOMAIN LegsOf[u] : LegsOf[u][i] \in Traded
    BY <1>1, LenProperties, ElementOfSeq, EmptySeq
  <1>3. \A c \in Traded : Untracked(c) \in TLeg /\ Untracked(c).sym = c
    BY RunnerAssumption DEF Untracked, TLeg
  <1>4. /\ DOMAIN legs = DOMAIN LegsOf[u]
        /\ \A i \in DOMAIN legs : legs[i] \in TLeg /\ legs[i].sym = LegsOf[u][i]
    BY <1>2, <1>3
  <1>5. legs \in Seq(TLeg) /\ Len(legs) = Len(LegsOf[u])
    <2> DEFINE n == Len(LegsOf[u])
    <2>1. legs = [i \in 1..n |-> legs[i]] /\ \A i \in 1..n : legs[i] \in TLeg
      BY <1>2, <1>4
    <2>2. n \in Nat
      BY <1>2
    <2> HIDE DEF n
    <2>3. legs \in [1..n -> TLeg]
      BY <2>1
    <2>4. legs \in Seq(TLeg)
      BY <2>2, <2>3
    <2>5. Len(legs) = n
      BY <2>2, <2>3, <2>4, LenProperties
    <2> QED
      BY <2>4, <2>5 DEF n
  <1>6. legs # <<>>
    BY <1>2, <1>5, EmptySeq
  <1>7. Syms(legs) = LegSet(u)
    BY <1>4 DEF Syms, LegSet, ToSet
  <1>8. Distinct(legs)
    <2>1. ASSUME NEW i \in DOMAIN legs, NEW j \in DOMAIN legs, legs[i].sym = legs[j].sym
          PROVE  i = j
      <3>1. LegsOf[u][i] = LegsOf[u][j] /\ i \in DOMAIN LegsOf[u] /\ j \in DOMAIN LegsOf[u]
        BY <1>4, <2>1
      <3> QED
        BY <1>1, <3>1
    <2> QED
      BY <2>1 DEF Distinct
  <1> QED
    BY <1>5, <1>6, <1>7, <1>8

\* The same contracts in the same order.
LEMMA SameSyms ==
    ASSUME NEW legs \in Seq(TLeg), legs # <<>>, NEW new \in Seq(TLeg), Len(new) = Len(legs),
           \A i \in DOMAIN legs : new[i].sym = legs[i].sym
    PROVE  /\ new # <<>> /\ Head(new).sym = Head(legs).sym
           /\ Syms(new) = Syms(legs) /\ (Distinct(legs) => Distinct(new))
  <1>1. /\ Len(legs) \in Nat \ {0} /\ DOMAIN legs = 1..Len(legs) /\ DOMAIN new = DOMAIN legs
    BY LenProperties, EmptySeq
  <1>2. new # <<>> /\ Head(new) = new[1] /\ Head(legs) = legs[1] /\ 1 \in DOMAIN legs
    BY <1>1, EmptySeq
  <1>3. Syms(new) = Syms(legs)
    BY <1>1 DEF Syms
  <1>4. Distinct(legs) => Distinct(new)
    BY <1>1 DEF Distinct
  <1> QED
    BY <1>2, <1>3, <1>4

-----------------------------------------------------------------------------
(***************************************************************************)
(* What the goroutines do.                                                 *)
(***************************************************************************)
\* A goroutine that does nothing.
LEMMA IdleTyped == Idle \in TTask /\ Idle.act = "none" /\ Idle.agenda = <<>>
  <1>1. 0 \in Instants
    BY NineTwentyAssumption DEF Instants
  <1>2. <<>> \in Seq(Jobs) /\ <<>> \in Seq(TLeg)
    BY EmptySeq
  <1> QED
    BY <1>1, <1>2 DEF Idle, TTask

\* The fields of what it does have their types.
LEMMA TaskFields ==
    ASSUME NEW k \in TTask
    PROVE  /\ k.agenda \in Seq(Jobs) /\ k.us \subseteq Underlyings /\ k.cs \subseteq Traded
           /\ k.u \in Underlyings \cup {"none"} /\ k.legs \in Seq(TLeg) /\ k.done \in Seq(TLeg)
           /\ k.ok \in BOOLEAN /\ k.time \in Instants /\ k.allowed \in BOOLEAN
           /\ k.act \in {"none", "enter", "unwind", "exit", "single"}
           /\ k.at \in {"ready", "open", "sent", "record", "confirm"}
           /\ k.part \in {"structures", "contracts"}
  BY DEF TTask

\* A call sequence begins.
LEMMA BeginTyped ==
    ASSUME NEW k \in TTask, NEW act \in {"enter", "unwind", "exit", "single"},
           NEW u \in Underlyings \cup {"none"}, NEW legs \in Seq(TLeg),
           NEW n, n = Begin(k, act, u, legs)
    PROVE  /\ n \in TTask
           /\ n.act = act /\ n.at = "ready" /\ n.u = u /\ n.legs = legs /\ n.done = <<>> /\ n.ok
           /\ n.agenda = k.agenda /\ n.time = k.time
  <1>1. <<>> \in Seq(TLeg)
    BY EmptySeq
  <1> QED
    BY <1>1 DEF Begin, TTask

\* It ends.
LEMMA EndedTyped ==
    ASSUME NEW k \in TTask, NEW n, n = Ended(k)
    PROVE  n \in TTask /\ n.act = "none" /\ n.agenda = k.agenda /\ n.time = k.time
  <1>1. <<>> \in Seq(TLeg)
    BY EmptySeq
  <1> QED
    BY <1>1 DEF Ended, TTask

\* It goes on with the next leg.
LEMMA NextLegTyped ==
    ASSUME NEW k \in TTask, k.legs # <<>>, NEW ok \in BOOLEAN, NEW n, n = NextLeg(k, ok)
    PROVE  /\ n \in TTask
           /\ n.act = k.act /\ n.at = "ready" /\ n.u = k.u /\ n.legs = Tail(k.legs)
           /\ n.done = k.done /\ n.ok = (k.ok /\ ok)
           /\ n.agenda = k.agenda /\ n.time = k.time
  <1>1. Tail(k.legs) \in Seq(TLeg)
    BY SymsTail DEF TTask
  <1> QED
    BY <1>1 DEF NextLeg, TTask

\* It goes on to its next stage.
AtStage(k, at) == [k EXCEPT !.at = at]

\* A task is a task at any stage.
LEMMA StageTyped ==
    ASSUME NEW k \in TTask, NEW at \in {"ready", "open", "sent", "record", "confirm"},
           NEW n, n = AtStage(k, at)
    PROVE  /\ n \in TTask
           /\ n.act = k.act /\ n.at = at /\ n.u = k.u /\ n.legs = k.legs
           /\ n.done = k.done /\ n.ok = k.ok
           /\ n.agenda = k.agenda /\ n.time = k.time
  BY DEF TTask, AtStage

\* What is tracked is tracked for an underlying.
LEMMA TrackedFacts == Tracked \subseteq Underlyings
  BY DEF Tracked

\* A job starts.
LEMMA StartedTyped ==
    ASSUME NEW k \in TTask, NEW n, n = Started(k)
    PROVE  n \in TTask /\ n.act = k.act /\ n.agenda = k.agenda /\ n.time = k.time
  <1>1. (IF Head(k.agenda) = "evaluate" THEN Underlyings ELSE Tracked) \in SUBSET Underlyings
    BY TrackedFacts
  <1>2. (k.allowed /\ (Head(k.agenda) = "stops" => ~paused)) \in BOOLEAN
    OBVIOUS
  <1>3. n = [k EXCEPT !.part = "structures", !.cs = {},
                      !.us = IF Head(k.agenda) = "evaluate" THEN Underlyings ELSE Tracked,
                      !.allowed = k.allowed /\ (Head(k.agenda) = "stops" => ~paused)]
    BY DEF Started
  <1> QED
    BY <1>1, <1>2, <1>3 DEF TTask

\* A tick's instant is taken.
LEMMA AtMarketTyped ==
    ASSUME now \in Instants, NEW k \in TTask, NEW n, n = AtMarket(k)
    PROVE  n \in TTask /\ n.act = k.act /\ n.time = now /\ n.agenda # <<>>
  <1>1. /\ <<"flatten", "stops", "evaluate">> \in Seq(Jobs)
        /\ <<"stops", "evaluate">> \in Seq(Jobs)
        /\ <<"flatten", "stops", "evaluate">> # <<>>
        /\ <<"stops", "evaluate">> # <<>>
    BY DEF Jobs
  <1>2. (k.allowed /\ Part(now) \in {"window", "session", "late"}) \in BOOLEAN
    OBVIOUS
  <1>3. n = [k EXCEPT !.time = now,
                      !.allowed = k.allowed /\ Part(now) \in {"window", "session", "late"},
                      !.agenda = IF Part(now) = "square-off" THEN <<"flatten", "stops", "evaluate">>
                                 ELSE <<"stops", "evaluate">>]
    BY DEF AtMarket
  <1> QED
    BY <1>1, <1>2, <1>3 DEF TTask

\* The jobs after the first are some of the jobs.
LEMMA JobsTail ==
    ASSUME NEW agenda \in Seq(Jobs), agenda # <<>>
    PROVE  /\ Tail(agenda) \in Seq(Jobs)
           /\ ToSet(Tail(agenda)) \subseteq ToSet(agenda)
           /\ Head(agenda) \in ToSet(agenda)
  <1>1. /\ Tail(agenda) \in Seq(Jobs) /\ Head(agenda) = agenda[1]
        /\ Len(agenda) \in Nat \ {0} /\ Len(Tail(agenda)) = Len(agenda) - 1
        /\ \A i \in 1..Len(Tail(agenda)) : Tail(agenda)[i] = agenda[i + 1]
        /\ DOMAIN agenda = 1..Len(agenda) /\ DOMAIN Tail(agenda) = 1..Len(Tail(agenda))
    BY HeadTailProperties, LenProperties, EmptySeq
  <1>2. \A i \in DOMAIN Tail(agenda) : i + 1 \in DOMAIN agenda /\ Tail(agenda)[i] = agenda[i + 1]
    BY <1>1
  <1>3. 1 \in DOMAIN agenda
    BY <1>1
  <1>4. ToSet(Tail(agenda)) \subseteq ToSet(agenda)
    BY <1>2 DEF ToSet
  <1> QED
    BY <1>1, <1>3, <1>4 DEF ToSet

\* A goroutine is through with a job.
LEMMA AfterTyped ==
    ASSUME now \in Instants, NEW k \in TTask, k.act = "none", k.agenda # <<>>, NEW n, n = After(k)
    PROVE  /\ n \in TTask /\ n.act = "none"
           /\ "evaluate" \in ToSet(n.agenda) =>
                  n.time = now \/ (n.time = k.time /\ "evaluate" \in ToSet(k.agenda))
  <1> DEFINE rest == Tail(k.agenda)
  <1>1. rest \in Seq(Jobs) /\ ToSet(rest) \subseteq ToSet(k.agenda)
    BY JobsTail, TaskFields
  <1>2. CASE rest = <<>>
    <2>1. n = Idle
      BY <1>2 DEF After
    <2>2. ToSet(Idle.agenda) = {}
      BY IdleTyped DEF ToSet
    <2> QED
      BY <2>1, <2>2, IdleTyped
  <1>3. CASE rest # <<>> /\ Head(rest) = "market"
    <2>1. n = Started(AtMarket(k))
      BY <1>3 DEF After
    <2>2. PICK m : m = AtMarket(k)
      OBVIOUS
    <2>3. m \in TTask /\ m.act = "none" /\ m.time = now
      BY <2>2, AtMarketTyped
    <2> QED
      BY <2>1, <2>2, <2>3, StartedTyped
  <1>4. CASE rest # <<>> /\ Head(rest) # "market"
    <2>1. PICK m : m = [k EXCEPT !.agenda = rest]
      OBVIOUS
    <2>2. m \in TTask /\ m.act = "none" /\ m.time = k.time /\ m.agenda = rest
      BY <1>1, <2>1 DEF TTask
    <2>3. n = Started(m)
      BY <1>4, <2>1 DEF After
    <2>4. n \in TTask /\ n.act = "none" /\ n.time = k.time /\ n.agenda = rest
      BY <2>2, <2>3, StartedTyped
    <2> QED
      BY <1>1, <2>4
  <1> QED
    BY <1>2, <1>3, <1>4

-----------------------------------------------------------------------------
(***************************************************************************)
(* The steps of a goroutine between two call sequences.                    *)
(***************************************************************************)
\* Goroutine t goes on with n.
Moves(t, n) == n \in TTask /\ task' = [task EXCEPT ![t] = n]

\* What t may begin: a structure's exit as it is tracked, a contract's, or the
\* entry of a structure that is not tracked and, by the straddle, was not
\* signaled yet.
BeginsExit(n) ==
    /\ n.act = "exit" /\ n.u \in Underlyings
    /\ n.legs = open[n.u] /\ open[n.u] # <<>>
BeginsSingle(n) == n.act = "single"
BeginsEntry(k, n) ==
    /\ n.act = "enter" /\ n.u \in Underlyings /\ open[n.u] = <<>>
    /\ n.legs # <<>> /\ Syms(n.legs) = LegSet(n.u) /\ Distinct(n.legs)
    /\ "evaluate" \in ToSet(k.agenda)
    /\ Latched => /\ ~(latch[n.u].signaledEntry /\ latch[n.u].lastDate = Day(k.time))
                  /\ latch'[n.u].signaledEntry /\ latch'[n.u].lastDate = Day(k.time)

Fresh(t, k, n) ==
    \/ n.act = "none"
    \/ /\ n.at = "ready" /\ n.done = <<>> /\ n.ok
       /\ BeginsExit(n) \/ BeginsSingle(n) \/ (t = "loop" /\ BeginsEntry(k, n))

\* An evaluation is of the tick's instant.
InTime(k, n) ==
    "evaluate" \in ToSet(n.agenda) =>
        n.time = now \/ (n.time = k.time /\ "evaluate" \in ToSet(k.agenda))

\* What an evaluation does to the latches.
Learns(k, u) ==
    /\ latch'[u].entered => latch[u].entered
    /\ latch'[u].pendingExit => latch[u].pendingExit \/ latch[u].entered \/ open[u] # <<>>
    /\ \/ latch'[u] = latch[u]
       \/ /\ Latched /\ "evaluate" \in ToSet(k.agenda)
          /\ latch[u].signaledEntry /\ latch[u].lastDate = Day(k.time) =>
                 latch'[u].signaledEntry /\ latch'[u].lastDate = latch[u].lastDate

Walks(t) ==
    /\ Running
    /\ UNCHANGED <<process, ticking, now, book, exitInFlight, open, durable, exchange, history>>
    /\ UNCHANGED <<entries, unknown, restarts, faults>>
    /\ killSwitch' \in BOOLEAN /\ (killSwitch => killSwitch')
    /\ t = "loop" => ticking
    /\ t = "api" => killSwitch'
    /\ task[t].act = "none"
    /\ latch' \in [Underlyings -> TLatch] /\ \A u \in Underlyings : Learns(task[t], u)
    /\ \E n : Moves(t, n) /\ Fresh(t, task[t], n) /\ InTime(task[t], n)

\* The others go on as they were.
LEMMA MovesFacts ==
    ASSUME task \in [Threads -> TTask], NEW t \in Threads, NEW n, Moves(t, n)
    PROVE  /\ n \in TTask /\ task' \in [Threads -> TTask] /\ task'[t] = n
           /\ \A o \in Threads \ {t} : task'[o] = task[o]
  BY DEF Moves

\* Who is at work, by the process, the ticker and the kill switch.
LEMMA AtWork ==
    ASSUME SInv, NEW t \in Threads, task[t] # Idle, Running
    PROVE  (t = "loop" => ticking) /\ (t = "api" => killSwitch)
  BY DEF SInv, Control

\* Who has a job at hand is at work.
LEMMA AtJob ==
    ASSUME SInv, NEW t \in Threads, NEW job, NEW part, On(t, job, part)
    PROVE  /\ Running /\ (t = "loop" => ticking) /\ (t = "api" => killSwitch)
           /\ task[t] \in TTask /\ task[t].act = "none" /\ task[t].agenda # <<>>
           /\ job \in ToSet(task[t].agenda)
  <1>1. task[t] \in TTask /\ task[t].agenda # <<>> /\ Head(task[t].agenda) = job
    BY DEF SInv, Types, On
  <1>2. task[t] # Idle
    BY <1>1, IdleTyped
  <1>3. job \in ToSet(task[t].agenda)
    BY <1>1, JobsTail, TaskFields
  <1> QED
    BY <1>1, <1>2, <1>3, AtWork DEF On

\* Latches that are left alone.
LEMMA LatchSame ==
    ASSUME SInv, latch' = latch, NEW k
    PROVE  latch' \in [Underlyings -> TLatch] /\ \A u \in Underlyings : Learns(k, u)
  BY DEF SInv, BooksTyped, Learns

\* A step that only moves t is a walk if it moves t to what it may begin.
LEMMA OnlyMoves ==
    ASSUME SInv, NEW t \in Threads, NEW n, Moves(t, n), Running, task[t].act = "none",
           UNCHANGED <<process, ticking, now, killSwitch, memory, durable, exchange, history>>,
           UNCHANGED <<entries, unknown, restarts, faults>>,
           t = "loop" => ticking, t = "api" => killSwitch,
           Fresh(t, task[t], n), InTime(task[t], n)
    PROVE  Walks(t)
  <1>1. latch' = latch /\ book' = book /\ exitInFlight' = exitInFlight /\ open' = open
    BY DEF memory
  <1>2. killSwitch' \in BOOLEAN /\ (killSwitch => killSwitch') /\ (t = "api" => killSwitch')
    BY DEF SInv, Types
  <1> QED
    BY <1>1, <1>2, LatchSame DEF Walks

\* The structures' watch begins an exit, or goes on.
LEMMA WatchStructureWalks ==
    ASSUME SInv, NEW u \in Underlyings, WatchStructure(u)
    PROVE  Walks("loop")
  <1> DEFINE k == task["loop"]
             seen(m) == [k EXCEPT !.us = @ \ {u}, !.cs = @ \cup ToSet(SymsOf(SubSeq(open[u], 1, m)))]
  <1>1. /\ "loop" \in Threads /\ k \in TTask /\ k.act = "none" /\ Running /\ ticking
        /\ k.us \subseteq Underlyings /\ k.cs \subseteq Traded
    <2>1. On("loop", "stops", "structures") /\ "loop" \in Threads
      BY DEF WatchStructure, Threads
    <2> QED
      BY <2>1, AtJob, TaskFields
  <1>2. open[u] \in Seq(TLeg)
    BY DEF SInv, BooksTyped
  <1>3. ASSUME NEW m \in 0..Len(open[u])
        PROVE  /\ seen(m) \in TTask /\ seen(m).act = "none"
               /\ seen(m).agenda = k.agenda /\ seen(m).time = k.time
    <2>1. SubSeq(open[u], 1, m) \in Seq(TLeg)
      BY <1>2, SubSeqProperties, LenProperties
    <2>2. PICK cs : cs = ToSet(SymsOf(SubSeq(open[u], 1, m)))
      OBVIOUS
    <2>3. cs \subseteq Traded
      BY <2>1, <2>2, SymsSome
    <2>4. k.us \ {u} \in SUBSET Underlyings /\ k.cs \cup cs \in SUBSET Traded
      BY <1>1, <2>3
    <2>5. seen(m) = [k EXCEPT !.us = k.us \ {u}, !.cs = k.cs \cup cs]
      BY <2>2
    <2> HIDE DEF seen
    <2> QED
      BY <1>1, <2>4, <2>5 DEF TTask
  <1> DEFINE all == Len(open[u])
  <1>4. all \in 0..all /\ DOMAIN open[u] \subseteq 0..all
    BY <1>2, LenProperties
  <1>5. /\ UNCHANGED <<process, ticking, now, killSwitch, memory, durable, exchange, history>>
        /\ UNCHANGED <<entries, unknown, restarts, faults>>
    BY DEF WatchStructure, control, bounds
  <1>6. \/ task' = [task EXCEPT !["loop"] = seen(all)]
        \/ \E m \in DOMAIN open[u] : task' = [task EXCEPT !["loop"] = Begin(seen(m), "exit", u, open[u])]
    BY DEF WatchStructure, Put
  <1> HIDE DEF k, seen, all
  <1>7. \E n : Moves("loop", n) /\ Fresh("loop", k, n) /\ InTime(k, n)
    <2>1. CASE task' = [task EXCEPT !["loop"] = seen(all)]
      BY <2>1, <1>3, <1>4 DEF Moves, Fresh, InTime, all
    <2>2. ASSUME NEW m \in DOMAIN open[u],
                 task' = [task EXCEPT !["loop"] = Begin(seen(m), "exit", u, open[u])]
          PROVE  \E n : Moves("loop", n) /\ Fresh("loop", k, n) /\ InTime(k, n)
      <3>1. m \in 0..Len(open[u])
        BY <1>4 DEF all
      <3>2. open[u] # <<>>
        BY <1>2, LenProperties, EmptySeq
      <3>3. PICK n : n = Begin(seen(m), "exit", u, open[u])
        OBVIOUS
      <3>4. /\ n \in TTask /\ n.act = "exit" /\ n.at = "ready" /\ n.u = u /\ n.legs = open[u]
            /\ n.done = <<>> /\ n.ok /\ n.agenda = k.agenda /\ n.time = k.time
        BY <1>2, <1>3, <3>1, <3>3, BeginTyped
      <3> QED
        BY <2>2, <3>2, <3>3, <3>4 DEF Moves, Fresh, InTime, BeginsExit
    <2> QED
      BY <1>6, <2>1, <2>2
  <1> QED
    BY <1>1, <1>5, <1>7, OnlyMoves DEF k, Threads

\* A goroutine's next contracts, or its next job.
LEMMA ContractsOrAfter ==
    ASSUME SInv, NEW t \in Threads, NEW job, On(t, job, "structures"), NEW cs \in SUBSET Traded,
           NEW n, n = After(task[t]) \/ n = [task[t] EXCEPT !.part = "contracts", !.cs = cs]
    PROVE  n \in TTask /\ Fresh(t, task[t], n) /\ InTime(task[t], n)
  <1>1. task[t] \in TTask /\ task[t].act = "none" /\ task[t].agenda # <<>> /\ now \in Instants
    BY AtJob DEF SInv, Types
  <1>2. CASE n = After(task[t])
    BY <1>1, <1>2, AfterTyped DEF Fresh, InTime
  <1>3. CASE n = [task[t] EXCEPT !.part = "contracts", !.cs = cs]
    <2>1. n \in TTask /\ n.act = "none" /\ n.agenda = task[t].agenda /\ n.time = task[t].time
      BY <1>1, <1>3 DEF TTask
    <2> QED
      BY <2>1 DEF Fresh, InTime
  <1> QED
    BY <1>2, <1>3

\* The watch and the flattening go on to what no structure covers.
LEMMA RestWalks ==
    ASSUME SInv, NEW t \in Threads, FlattenRest(t) \/ (t = "loop" /\ WatchRest)
    PROVE  Walks(t)
  <1>1. PICK job : On(t, job, "structures")
    BY DEF FlattenRest, WatchRest
  <1>2. \E cs \in SUBSET Traded : \E n :
            /\ n = After(task[t]) \/ n = [task[t] EXCEPT !.part = "contracts", !.cs = cs]
            /\ task' = [task EXCEPT ![t] = n]
    <2>1. book \subseteq Traded
      BY DEF SInv, BooksTyped
    <2>2. CASE FlattenRest(t)
      <3>1. \/ task' = [task EXCEPT ![t] = After(task[t])]
            \/ task' = [task EXCEPT ![t] = [task[t] EXCEPT !.part = "contracts", !.cs = book]]
        BY <2>2 DEF FlattenRest, Put
      <3> QED
        BY <2>1, <3>1
    <2>3. CASE t = "loop" /\ WatchRest
      <3>1. \/ task' = [task EXCEPT ![t] = After(task[t])]
            \/ task' = [task EXCEPT ![t] = [task[t] EXCEPT !.part = "contracts",
                                                          !.cs = book \ task["loop"].cs]]
        BY <2>3 DEF WatchRest, Put
      <3>2. book \ task["loop"].cs \in SUBSET Traded
        BY <2>1
      <3> QED
        BY <3>1, <3>2
    <2> QED
      BY <2>2, <2>3
  <1>3. /\ UNCHANGED <<process, ticking, now, killSwitch, memory, durable, exchange, history>>
        /\ UNCHANGED <<entries, unknown, restarts, faults>>
    BY DEF FlattenRest, WatchRest, control, bounds
  <1>4. /\ Running /\ (t = "loop" => ticking) /\ (t = "api" => killSwitch)
        /\ task[t].act = "none"
    BY <1>1, AtJob
  <1>5. PICK cs \in SUBSET Traded : \E n :
            /\ n = After(task[t]) \/ n = [task[t] EXCEPT !.part = "contracts", !.cs = cs]
            /\ task' = [task EXCEPT ![t] = n]
    BY <1>2
  <1>6. PICK n :
            /\ n = After(task[t]) \/ n = [task[t] EXCEPT !.part = "contracts", !.cs = cs]
            /\ task' = [task EXCEPT ![t] = n]
    BY <1>5
  <1>7. n \in TTask /\ Fresh(t, task[t], n) /\ InTime(task[t], n)
    BY <1>1, <1>6, ContractsOrAfter
  <1> QED
    BY <1>3, <1>4, <1>6, <1>7, OnlyMoves DEF Moves

\* A contract that no structure covers is closed, or left.
LEMMA ContractWalks ==
    ASSUME SInv, NEW t \in Threads, NEW c \in Contracts,
           FlattenContract(t, c) \/ (t = "loop" /\ WatchContract(c))
    PROVE  Walks(t)
  <1>1. PICK job : On(t, job, "contracts")
    BY DEF FlattenContract, WatchContract
  <1>2. /\ task[t] \in TTask /\ Running /\ (t = "loop" => ticking) /\ (t = "api" => killSwitch)
        /\ task[t].act = "none"
    BY <1>1, AtJob
  <1>3. c \in task[t].cs
    BY DEF FlattenContract, WatchContract
  <1>4. task[t].cs \subseteq Traded
    BY <1>2, TaskFields
  <1>5. PICK k : k = [task[t] EXCEPT !.cs = @ \ {c}]
    OBVIOUS
  <1>6. k \in TTask /\ k.act = "none" /\ k.agenda = task[t].agenda /\ k.time = task[t].time
    <2>1. task[t].cs \ {c} \in SUBSET Traded
      BY <1>4
    <2> QED
      BY <1>2, <1>5, <2>1 DEF TTask
  <1>7. PICK n : n = Begin(k, "single", "none", <<Untracked(c)>>)
    OBVIOUS
  <1>8. /\ n \in TTask /\ n.act = "single" /\ n.at = "ready" /\ n.done = <<>> /\ n.ok
        /\ n.agenda = task[t].agenda /\ n.time = task[t].time
    <2>1. Untracked(c) \in TLeg
      BY <1>3, <1>4, RunnerAssumption DEF Untracked, TLeg
    <2>2. PICK one : one = <<Untracked(c)>>
      OBVIOUS
    <2>3. one \in Seq(TLeg)
      BY <2>1, <2>2
    <2>4. n = Begin(k, "single", "none", one)
      BY <1>7, <2>2
    <2>5. /\ n.act = "single" /\ n.at = "ready" /\ n.done = <<>> /\ n.ok
          /\ n.agenda = k.agenda /\ n.time = k.time
      BY <1>6, <2>4 DEF Begin, TTask
    <2>6. n \in TTask
      BY <1>6, <2>3, <2>4, EmptySeq DEF Begin, TTask
    <2> QED
      BY <1>6, <2>5, <2>6
  <1>9. task' = [task EXCEPT ![t] = k] \/ task' = [task EXCEPT ![t] = n]
    BY <1>5, <1>7 DEF FlattenContract, WatchContract, Put
  <1>10. \E m : Moves(t, m) /\ Fresh(t, task[t], m) /\ InTime(task[t], m)
    BY <1>6, <1>8, <1>9 DEF Moves, Fresh, BeginsSingle, InTime
  <1>11. /\ UNCHANGED <<process, ticking, now, killSwitch, memory, durable, exchange, history>>
         /\ UNCHANGED <<entries, unknown, restarts, faults>>
    BY DEF FlattenContract, WatchContract, control, bounds
  <1> QED
    BY <1>2, <1>10, <1>11, OnlyMoves

\* A structure is flattened if it is tracked.
LEMMA FlattenStructureWalks ==
    ASSUME SInv, NEW t \in Threads, NEW u \in Underlyings, FlattenStructure(t, u)
    PROVE  Walks(t)
  <1>1. On(t, "flatten", "structures")
    BY DEF FlattenStructure
  <1>2. /\ task[t] \in TTask /\ Running /\ (t = "loop" => ticking) /\ (t = "api" => killSwitch)
        /\ task[t].act = "none"
    BY <1>1, AtJob
  <1>3. PICK k : k = [task[t] EXCEPT !.us = @ \ {u}]
    OBVIOUS
  <1>4. k \in TTask /\ k.act = "none" /\ k.agenda = task[t].agenda /\ k.time = task[t].time
    <2>1. task[t].us \ {u} \in SUBSET Underlyings
      BY <1>2, TaskFields
    <2> QED
      BY <1>2, <1>3, <2>1 DEF TTask
  <1>5. open[u] \in Seq(TLeg)
    BY DEF SInv, BooksTyped
  <1>6. PICK n : n = Begin(k, "exit", u, open[u])
    OBVIOUS
  <1>7. /\ n \in TTask /\ n.act = "exit" /\ n.at = "ready" /\ n.u = u /\ n.legs = open[u]
        /\ n.done = <<>> /\ n.ok /\ n.agenda = task[t].agenda /\ n.time = task[t].time
    BY <1>4, <1>5, <1>6, BeginTyped
  <1>8. \/ task' = [task EXCEPT ![t] = k]
        \/ open[u] # <<>> /\ task' = [task EXCEPT ![t] = n]
    BY <1>3, <1>6 DEF FlattenStructure, Put
  <1>9. \E m : Moves(t, m) /\ Fresh(t, task[t], m) /\ InTime(task[t], m)
    BY <1>4, <1>7, <1>8 DEF Moves, Fresh, BeginsExit, InTime
  <1>10. /\ UNCHANGED <<process, ticking, now, killSwitch, memory, durable, exchange, history>>
         /\ UNCHANGED <<entries, unknown, restarts, faults>>
    BY DEF FlattenStructure, control, bounds
  <1> QED
    BY <1>2, <1>9, <1>10, OnlyMoves

\* A goroutine takes up its next job.
LEMMA NextJobWalks ==
    ASSUME SInv, NEW t \in Threads, NextJob(t)
    PROVE  Walks(t)
  <1>1. PICK job, part : On(t, job, part)
    BY DEF NextJob
  <1>2. /\ task[t] \in TTask /\ Running /\ (t = "loop" => ticking) /\ (t = "api" => killSwitch)
        /\ task[t].act = "none" /\ task[t].agenda # <<>> /\ now \in Instants
    BY <1>1, AtJob DEF SInv, Types
  <1>3. PICK n : n = After(task[t])
    OBVIOUS
  <1>4. n \in TTask /\ n.act = "none" /\ InTime(task[t], n)
    BY <1>2, <1>3, AfterTyped DEF InTime
  <1>5. task' = [task EXCEPT ![t] = n]
    BY <1>3 DEF NextJob, Put
  <1>6. /\ UNCHANGED <<process, ticking, now, killSwitch, memory, durable, exchange, history>>
        /\ UNCHANGED <<entries, unknown, restarts, faults>>
    BY DEF NextJob, control, bounds
  <1> QED
    BY <1>2, <1>4, <1>5, <1>6, OnlyMoves DEF Moves, Fresh

\* A goroutine that is free begins an agenda without an evaluation, or takes
\* the instant first.
LEMMA AgendaBegins ==
    ASSUME now \in Instants, NEW n,
           \/ n = Started([Idle EXCEPT !.agenda = <<"flatten">>])
           \/ n = Started([Idle EXCEPT !.agenda = <<"flatten", "market">>])
           \/ n = Started([Idle EXCEPT !.agenda = <<"flatten", "verify">>])
           \/ n = Started(AtMarket([Idle EXCEPT !.allowed = TRUE])),
           NEW k
    PROVE  n \in TTask /\ n.act = "none" /\ InTime(k, n)
  <1>1. ASSUME NEW agenda \in Seq(Jobs), "evaluate" \notin ToSet(agenda),
               n = Started([Idle EXCEPT !.agenda = agenda])
        PROVE  n \in TTask /\ n.act = "none" /\ InTime(k, n)
    <2>1. PICK m : m = [Idle EXCEPT !.agenda = agenda]
      OBVIOUS
    <2>2. m \in TTask /\ m.act = "none" /\ m.agenda = agenda
      BY <1>1, <2>1, IdleTyped DEF TTask
    <2> QED
      BY <1>1, <2>1, <2>2, StartedTyped DEF InTime
  <1>2. ASSUME n = Started(AtMarket([Idle EXCEPT !.allowed = TRUE]))
        PROVE  n \in TTask /\ n.act = "none" /\ InTime(k, n)
    <2>1. PICK m : m = [Idle EXCEPT !.allowed = TRUE]
      OBVIOUS
    <2>2. m \in TTask /\ m.act = "none"
      BY <2>1, IdleTyped DEF TTask
    <2>3. PICK o : o = AtMarket(m)
      OBVIOUS
    <2>4. o \in TTask /\ o.act = "none" /\ o.time = now
      BY <2>2, <2>3, AtMarketTyped
    <2>5. n = Started(o)
      BY <1>2, <2>1, <2>3
    <2> QED
      BY <2>4, <2>5, StartedTyped DEF InTime
  <1>3. /\ <<"flatten">> \in Seq(Jobs) /\ <<"flatten", "market">> \in Seq(Jobs)
        /\ <<"flatten", "verify">> \in Seq(Jobs)
    BY DEF Jobs
  <1>4. /\ "evaluate" \notin ToSet(<<"flatten">>)
        /\ "evaluate" \notin ToSet(<<"flatten", "market">>)
        /\ "evaluate" \notin ToSet(<<"flatten", "verify">>)
    BY DEF ToSet
  <1> QED
    BY <1>1, <1>2, <1>3, <1>4

\* A tick, the signal to shut down and an attempt to verify begin an agenda.
LEMMA LoopBegins ==
    ASSUME SInv, NEW n, Moves("loop", n), n.act = "none", InTime(task["loop"], n),
           Running, ticking, task["loop"].act = "none",
           UNCHANGED <<process, ticking, now, memory, durable, exchange, history>>,
           UNCHANGED <<entries, unknown, restarts, faults>>,
           killSwitch' \in {killSwitch, TRUE}
    PROVE  Walks("loop")
  <1>1. latch' = latch /\ book' = book /\ exitInFlight' = exitInFlight /\ open' = open
    BY DEF memory
  <1>2. killSwitch' \in BOOLEAN /\ (killSwitch => killSwitch')
    BY DEF SInv, Types
  <1> QED
    BY <1>1, <1>2, LatchSame DEF Walks, Fresh

\* The tick.
LEMMA TickWalks ==
    ASSUME SInv, Tick
    PROVE  Walks("loop")
  <1>1. Running /\ ticking /\ task["loop"].act = "none" /\ now \in Instants
    BY IdleTyped DEF Tick, Free, SInv, Types
  <1>2. PICK n :
            /\ task' = [task EXCEPT !["loop"] = n]
            /\ \/ n = Started([Idle EXCEPT !.agenda = <<"flatten", "market">>])
               \/ n = Started(AtMarket([Idle EXCEPT !.allowed = TRUE]))
    BY DEF Tick, Put
  <1>3. n \in TTask /\ n.act = "none" /\ InTime(task["loop"], n)
    BY <1>1, <1>2, AgendaBegins
  <1>4. /\ UNCHANGED <<process, ticking, now, memory, durable, exchange, history>>
        /\ UNCHANGED <<entries, unknown, restarts, faults>>
        /\ killSwitch' \in {killSwitch, TRUE}
    BY DEF Tick, bounds
  <1> QED
    BY <1>1, <1>2, <1>3, <1>4, LoopBegins DEF Moves

\* The signal to shut down.
LEMMA ShutdownWalks ==
    ASSUME SInv, Shutdown
    PROVE  Walks("loop")
  <1>1. Running /\ ticking /\ task["loop"].act = "none" /\ now \in Instants
    BY IdleTyped DEF Shutdown, Free, SInv, Types
  <1>2. PICK n :
            /\ task' = [task EXCEPT !["loop"] = n]
            /\ n = Started([Idle EXCEPT !.agenda = <<"flatten", "verify">>])
    BY DEF Shutdown, Put
  <1>3. n \in TTask /\ n.act = "none" /\ InTime(task["loop"], n)
    BY <1>1, <1>2, AgendaBegins
  <1>4. /\ UNCHANGED <<process, ticking, now, memory, durable, exchange, history>>
        /\ UNCHANGED <<entries, unknown, restarts, faults>>
        /\ killSwitch' \in {killSwitch, TRUE}
    BY DEF Shutdown, bounds
  <1> QED
    BY <1>1, <1>2, <1>3, <1>4, LoopBegins DEF Moves

\* The process stops, and the orders at the exchange fill or not.
Stops ==
    /\ Running
    /\ process' \in {"crashed", "clean", "dirty"}
    /\ Memoryless
    /\ LastFills
    /\ UNCHANGED <<now, rows, legsRec, stratRec, reported, stops, alerted, bounds>>

\* The book is verified for the last time, or flattened once more.
LEMMA VerifyWalks ==
    ASSUME SInv, Verify
    PROVE  Walks("loop") \/ Stops
  <1>1. On("loop", "verify", "structures") /\ "loop" \in Threads
    BY DEF Verify, Threads
  <1>2. Running /\ ticking /\ task["loop"].act = "none" /\ now \in Instants
    BY <1>1, AtJob DEF SInv, Types
  <1>3. UNCHANGED <<now, rows, legsRec, stratRec, reported, stops, alerted, bounds>>
    BY DEF Verify
  <1>4. CASE process' \in {"clean", "dirty"} /\ Memoryless /\ LastFills
    BY <1>2, <1>3, <1>4 DEF Stops
  <1>5. CASE /\ Put("loop", Started([Idle EXCEPT !.agenda = <<"flatten", "verify">>]))
             /\ UNCHANGED <<process, ticking, killSwitch, paused, memory, held, unresolved, excused>>
    <2>1. PICK n :
              /\ task' = [task EXCEPT !["loop"] = n]
              /\ n = Started([Idle EXCEPT !.agenda = <<"flatten", "verify">>])
      BY <1>5 DEF Put
    <2>2. n \in TTask /\ n.act = "none" /\ InTime(task["loop"], n)
      BY <1>2, <2>1, AgendaBegins
    <2>3. /\ UNCHANGED <<process, ticking, now, memory, durable, exchange, history>>
          /\ UNCHANGED <<entries, unknown, restarts, faults>>
          /\ killSwitch' \in {killSwitch, TRUE}
      BY <1>3, <1>5 DEF durable, exchange, history, bounds
    <2> QED
      BY <1>2, <2>1, <2>2, <2>3, LoopBegins DEF Moves
  <1>6. \/ process' \in {"clean", "dirty"} /\ Memoryless /\ LastFills
        \/ /\ Put("loop", Started([Idle EXCEPT !.agenda = <<"flatten", "verify">>]))
           /\ UNCHANGED <<process, ticking, killSwitch, paused, memory, held, unresolved, excused>>
    BY DEF Verify
  <1> QED
    BY <1>4, <1>5, <1>6

\* The kill hook.
LEMMA KillWalks ==
    ASSUME SInv, KillAndFlatten
    PROVE  Walks("api")
  <1>1. Running /\ task["api"].act = "none" /\ now \in Instants /\ "api" \in Threads
    BY IdleTyped DEF KillAndFlatten, Called, Free, SInv, Types, Threads
  <1>2. PICK n :
            /\ task' = [task EXCEPT !["api"] = n]
            /\ n = Started([Idle EXCEPT !.agenda = <<"flatten">>])
    BY DEF KillAndFlatten, Put
  <1>3. n \in TTask /\ n.act = "none" /\ InTime(task["api"], n)
    BY <1>1, <1>2, AgendaBegins
  <1>4. /\ UNCHANGED <<process, ticking, now, memory, durable, exchange, history>>
        /\ UNCHANGED <<entries, unknown, restarts, faults>>
        /\ killSwitch' = TRUE
    BY DEF KillAndFlatten, Called
  <1>5. latch' = latch /\ book' = book /\ exitInFlight' = exitInFlight /\ open' = open
    BY <1>4 DEF memory
  <1> QED
    BY <1>1, <1>2, <1>3, <1>4, <1>5, LatchSame DEF Walks, Fresh, Moves

-----------------------------------------------------------------------------
\* The days of the latches.
LEMMA DayInt == ASSUME NEW n \in Instants PROVE Day(n) \in Int
  BY NineTwentyAssumption DEF Day, Instants

\* The latches at the start of an evaluation, and after each of its signals.
LEMMA TodayTyped ==
    ASSUME NEW l \in TLatch, NEW n \in Instants, NEW m, m = Today(l, n)
    PROVE  /\ m \in TLatch /\ m.lastDate = Day(n)
           /\ m.entered => l.entered
           /\ m.pendingExit => l.pendingExit
           /\ l.lastDate = Day(n) => m = l
           /\ m.signaledEntry => l.signaledEntry /\ l.lastDate = Day(n)
  <1>1. Day(n) \in Int
    BY DayInt
  <1> QED
    BY <1>1 DEF Today, NoLatch, TLatch

\* The signals set one latch each.
LEMMA SignaledTyped ==
    ASSUME NEW l \in TLatch
    PROVE  /\ EntrySignaled(l) \in TLatch /\ EntrySignaled(l).signaledEntry
           /\ EntrySignaled(l).entered = l.entered /\ EntrySignaled(l).pendingExit = l.pendingExit
           /\ EntrySignaled(l).lastDate = l.lastDate
           /\ ExitSignaled(l) \in TLatch /\ ExitSignaled(l).signaledEntry = l.signaledEntry
           /\ ExitSignaled(l).entered = l.entered /\ ExitSignaled(l).lastDate = l.lastDate
  BY DEF EntrySignaled, ExitSignaled, TLatch

\* An evaluation begins an entry or an exit, or goes on.
LEMMA EvaluateWalks ==
    ASSUME SInv, NEW u \in Underlyings, Evaluate(u)
    PROVE  Walks("loop")
  <1>1. On("loop", "evaluate", "structures") /\ "loop" \in Threads
    BY DEF Evaluate, Threads
  <1>2. /\ task["loop"] \in TTask /\ Running /\ ticking /\ task["loop"].act = "none"
        /\ "evaluate" \in ToSet(task["loop"].agenda)
        /\ task["loop"].time \in Instants /\ task["loop"].us \subseteq Underlyings
    BY <1>1, AtJob, TaskFields
  <1>3. latch \in [Underlyings -> TLatch] /\ latch[u] \in TLatch /\ open[u] \in Seq(TLeg)
    BY DEF SInv, BooksTyped
  <1>4. PICK k : k = [task["loop"] EXCEPT !.us = @ \ {u}]
    OBVIOUS
  <1>5. k \in TTask /\ k.act = "none" /\ k.agenda = task["loop"].agenda /\ k.time = task["loop"].time
    <2>1. task["loop"].us \ {u} \in SUBSET Underlyings
      BY <1>2
    <2> QED
      BY <1>2, <1>4, <2>1 DEF TTask
  <1>6. PICK l : l = Today(latch[u], k.time)
    OBVIOUS
  <1>7. /\ l \in TLatch /\ l.lastDate = Day(k.time)
        /\ l.entered => latch[u].entered
        /\ l.pendingExit => latch[u].pendingExit
        /\ latch[u].lastDate = Day(k.time) => l = latch[u]
        /\ l.signaledEntry => latch[u].signaledEntry /\ latch[u].lastDate = Day(k.time)
    BY <1>2, <1>3, <1>5, <1>6, TodayTyped
  <1>8. PICK legs : legs = [i \in DOMAIN LegsOf[u] |-> Untracked(LegsOf[u][i])]
    OBVIOUS
  <1>9. legs \in Seq(TLeg) /\ legs # <<>> /\ Syms(legs) = LegSet(u) /\ Distinct(legs)
    BY <1>8, LegsToEnter
  <1>10. PICK en, ex : en = Begin(k, "enter", u, legs) /\ ex = Begin(k, "exit", u, open[u])
    OBVIOUS
  <1>11. /\ en \in TTask /\ en.act = "enter" /\ en.at = "ready" /\ en.u = u /\ en.legs = legs
         /\ en.done = <<>> /\ en.ok /\ en.agenda = k.agenda /\ en.time = k.time
    BY <1>5, <1>9, <1>10, BeginTyped
  <1>12. /\ ex \in TTask /\ ex.act = "exit" /\ ex.at = "ready" /\ ex.u = u /\ ex.legs = open[u]
         /\ ex.done = <<>> /\ ex.ok /\ ex.agenda = k.agenda /\ ex.time = k.time
    BY <1>3, <1>5, <1>10, BeginTyped
  <1>13. \/ Put("loop", k) /\ latch' = latch
         \/ Put("loop", k) /\ latch' = IF Latched THEN [latch EXCEPT ![u] = l] ELSE latch
         \/ /\ IF Latched THEN SignalsEntry(l, open[u] # <<>>, k.time) ELSE ~(open[u] # <<>>)
            /\ latch' = IF Latched THEN [latch EXCEPT ![u] = EntrySignaled(l)] ELSE latch
            /\ Put("loop", k) \/ Put("loop", en)
         \/ /\ IF Latched THEN \E stopHit \in BOOLEAN : SignalsExit(l, open[u] # <<>>, k.time, stopHit)
               ELSE open[u] # <<>>
            /\ latch' = IF Latched THEN [latch EXCEPT ![u] = ExitSignaled(l)] ELSE latch
            /\ Put("loop", IF open[u] # <<>> THEN ex ELSE k)
    BY <1>4, <1>6, <1>8, <1>10, Zenon DEF Evaluate
  <1>14. PICK m \in TLatch : latch' = [latch EXCEPT ![u] = m] /\
            \/ m = latch[u] /\ Put("loop", k)
            \/ m = l /\ Latched /\ Put("loop", k)
            \/ /\ IF Latched THEN SignalsEntry(l, open[u] # <<>>, k.time) /\ m = EntrySignaled(l)
                  ELSE open[u] = <<>> /\ m = latch[u]
               /\ Put("loop", k) \/ Put("loop", en)
            \/ /\ m = latch[u] \/ (Latched /\ m = ExitSignaled(l) /\ (open[u] # <<>> \/ l.entered))
               /\ Put("loop", IF open[u] # <<>> THEN ex ELSE k)
    <2>1. latch = [latch EXCEPT ![u] = latch[u]]
      BY <1>3
    <2>2. EntrySignaled(l) \in TLatch /\ ExitSignaled(l) \in TLatch
      BY <1>7, SignaledTyped
    <2>3. \A stopHit \in BOOLEAN : SignalsExit(l, open[u] # <<>>, k.time, stopHit) =>
              open[u] # <<>> \/ l.entered
      BY DEF SignalsExit, InPosition
    <2>4. CASE Latched
      BY <1>3, <1>7, <1>13, <2>1, <2>2, <2>3, <2>4
    <2>5. CASE ~Latched
      BY <1>3, <1>13, <2>1, <2>5
    <2> QED
      BY <2>4, <2>5
  <1>15. \A v \in Underlyings : Learns(task["loop"], v)
    <2>1. ASSUME NEW v \in Underlyings, v # u PROVE Learns(task["loop"], v)
      BY <1>3, <1>14, <2>1 DEF Learns
    <2>2. latch'[u] = m
      BY <1>3, <1>14
    <2>3. /\ \/ m = latch[u] \/ m = l \/ m = EntrySignaled(l)
             \/ m = ExitSignaled(l) /\ (open[u] # <<>> \/ l.entered)
          /\ m = latch[u] \/ Latched
      BY <1>14
    <2>4. m.entered => latch[u].entered
      BY <1>7, <2>3, SignaledTyped
    <2>5. m.pendingExit => latch[u].pendingExit \/ latch[u].entered \/ open[u] # <<>>
      BY <1>7, <2>3, SignaledTyped
    <2>6. latch[u].signaledEntry /\ latch[u].lastDate = Day(k.time) =>
              m.signaledEntry /\ m.lastDate = latch[u].lastDate
      BY <1>7, <2>3, SignaledTyped
    <2>7. Learns(task["loop"], u)
      BY <1>2, <1>5, <2>2, <2>3, <2>4, <2>5, <2>6 DEF Learns
    <2> QED
      BY <2>1, <2>7
  <1>16. ASSUME Put("loop", en), open[u] = <<>>,
                Latched => SignalsEntry(l, open[u] # <<>>, k.time) /\ m = EntrySignaled(l)
         PROVE  BeginsEntry(task["loop"], en)
    <2>1. CASE Latched
      <3>1. ~l.signaledEntry /\ m = EntrySignaled(l)
        BY <1>16, <2>1 DEF SignalsEntry
      <3>2. latch'[u] = m
        BY <1>3, <1>14
      <3>3. m.signaledEntry /\ m.lastDate = Day(k.time)
        BY <1>7, <3>1, SignaledTyped
      <3>4. ~(latch[u].signaledEntry /\ latch[u].lastDate = Day(k.time))
        BY <1>7, <3>1
      <3> QED
        BY <1>2, <1>5, <1>9, <1>11, <1>16, <3>2, <3>3, <3>4 DEF BeginsEntry
    <2>2. CASE ~Latched
      BY <1>2, <1>9, <1>11, <1>16, <2>2 DEF BeginsEntry
    <2> QED
      BY <2>1, <2>2
  <1>17. \E n : Moves("loop", n) /\ Fresh("loop", task["loop"], n) /\ InTime(task["loop"], n)
    <2>1. CASE Put("loop", k)
      BY <1>5, <2>1 DEF Put, Moves, Fresh, InTime
    <2>2. CASE Put("loop", ex) /\ open[u] # <<>>
      BY <1>5, <1>12, <2>2 DEF Put, Moves, Fresh, InTime, BeginsExit
    <2>3. CASE /\ Put("loop", en)
               /\ IF Latched THEN SignalsEntry(l, open[u] # <<>>, k.time) /\ m = EntrySignaled(l)
                  ELSE open[u] = <<>> /\ m = latch[u]
      <3>1. open[u] = <<>> /\ (Latched => SignalsEntry(l, open[u] # <<>>, k.time) /\ m = EntrySignaled(l))
        BY <2>3 DEF SignalsEntry, InPosition
      <3>2. BeginsEntry(task["loop"], en)
        BY <1>16, <2>3, <3>1
      <3> QED
        BY <1>5, <1>11, <2>3, <3>2 DEF Put, Moves, Fresh, InTime
    <2> QED
      BY <1>14, <2>1, <2>2, <2>3
  <1>18. latch' \in [Underlyings -> TLatch]
    BY <1>3, <1>14
  <1>19. /\ UNCHANGED <<process, ticking, now, killSwitch, book, exitInFlight, open, durable,
                        exchange, history>>
         /\ UNCHANGED <<entries, unknown, restarts, faults>>
    BY DEF Evaluate, control, bounds
  <1> QED
    BY <1>2, <1>15, <1>17, <1>18, <1>19 DEF Walks, SInv, Types

-----------------------------------------------------------------------------
(***************************************************************************)
(* The steps of a goroutine within a call sequence: what they make of what *)
(* it is doing.                                                            *)
(***************************************************************************)
\* The walk goes on where it was.
GoesOn(k, n) == n.agenda = k.agenda /\ n.time = k.time

\* What is known of a call sequence under way.
LEMMA InFacts ==
    ASSUME SInv, NEW t \in Threads, NEW acts, NEW stage, In(t, acts, stage)
    PROVE  /\ Running /\ task[t] \in TTask /\ task[t].act \in acts /\ task[t].at = stage
           /\ Shaped(t, task[t])
  BY DEF In, SInv, Types, InShape

\* Who is in a call sequence is at work.
LEMMA Busy ==
    ASSUME SInv, NEW t \in Threads, Running, task[t].act # "none"
    PROVE  (t = "loop" => ticking) /\ (t = "api" => killSwitch)
  BY AtWork, IdleTyped

\* The leg that a call sequence works on.
LEMMA FirstLeg ==
    ASSUME NEW k \in TTask, k.legs # <<>>
    PROVE  /\ Head(k.legs) \in TLeg /\ Head(k.legs).sym \in Traded
           /\ Head(k.legs).row \in 0..MaxEntries
           /\ Tail(k.legs) \in Seq(TLeg)
           /\ Syms(k.legs) = {Head(k.legs).sym} \cup Syms(Tail(k.legs))
           /\ Distinct(k.legs) => Distinct(Tail(k.legs)) /\ Head(k.legs).sym \notin Syms(Tail(k.legs))
  BY SymsTail, TaskFields DEF TLeg

\* An entry is validated.
LEMMA ValidateLegMoves ==
    ASSUME SInv, ValidateLeg, NEW k, k = task["loop"]
    PROVE  /\ k \in TTask /\ k.act = "enter" /\ k.at = "ready" /\ k.legs # <<>>
           /\ Shaped("loop", k) /\ Running /\ ~killSwitch
           /\ \E n : /\ Moves("loop", n) /\ GoesOn(k, n)
                     /\ n.act = "enter" /\ n.at = "open" /\ n.u = k.u
                     /\ n.done = k.done /\ n.ok = k.ok
                     /\ n.legs # <<>> /\ Syms(n.legs) = Syms(k.legs)
                     /\ Distinct(k.legs) => Distinct(n.legs)
                     /\ Head(n.legs).sym = Head(k.legs).sym
           /\ entries' \in 0..MaxEntries
  <1>1. /\ k \in TTask /\ k.act = "enter" /\ k.at = "ready" /\ Shaped("loop", k) /\ Running
    BY InFacts DEF ValidateLeg, Threads
  <1>2. k.legs # <<>> /\ ~killSwitch /\ entries \in 0..MaxEntries /\ entries < MaxEntries
        /\ entries' = entries + 1
    BY DEF ValidateLeg, SInv, BooksTyped
  <1>3. entries + 1 \in 0..MaxEntries
    BY <1>2, RunnerAssumption
  <1>4. PICK row \in 0..MaxEntries : row = entries + 1
    BY <1>3
  <1>5. PICK legs : legs = [k.legs EXCEPT ![1].row = row]
    OBVIOUS
  <1>6. /\ legs \in Seq(TLeg) /\ legs # <<>> /\ Head(legs).sym = Head(k.legs).sym
        /\ Syms(legs) = Syms(k.legs) /\ (Distinct(k.legs) => Distinct(legs))
    <2>1. /\ k.legs \in Seq(TLeg) /\ Len(k.legs) \in Nat \ {0} /\ DOMAIN k.legs = 1..Len(k.legs)
          /\ k.legs[1] \in TLeg
      BY <1>1, <1>2, TaskFields, LenProperties, ElementOfSeq, EmptySeq
    <2>2. PICK leg : leg = [k.legs[1] EXCEPT !.row = row]
      OBVIOUS
    <2>3. leg \in TLeg /\ leg.sym = k.legs[1].sym
      BY <2>1, <2>2 DEF TLeg
    <2>4. legs = [k.legs EXCEPT ![1] = leg]
      BY <1>5, <2>2
    <2>5. legs \in Seq(TLeg) /\ Len(legs) = Len(k.legs)
      BY <2>1, <2>3, <2>4, ExceptSeq
    <2>6. \A i \in DOMAIN k.legs : legs[i].sym = k.legs[i].sym
      BY <2>1, <2>3, <2>4
    <2> QED
      BY <1>2, <2>1, <2>5, <2>6, SameSyms
  <1>7. PICK n : n = [k EXCEPT !.at = "open", !.legs = legs]
    OBVIOUS
  <1>8. task' = [task EXCEPT !["loop"] = n]
    BY <1>5, <1>7, <1>4 DEF ValidateLeg, Put
  <1>9. /\ n \in TTask /\ n.act = "enter" /\ n.at = "open" /\ n.u = k.u /\ n.legs = legs
        /\ n.done = k.done /\ n.ok = k.ok /\ GoesOn(k, n)
    BY <1>1, <1>6, <1>7 DEF TTask, GoesOn
  <1> QED
    BY <1>1, <1>2, <1>3, <1>6, <1>8, <1>9 DEF Moves

\* A leg is refused, or its entry fails: the filled ones are unwound.
LEMMA UnwindMoves ==
    ASSUME SInv, NEW k, k = task["loop"], k.act = "enter", Running,
           task' = [task EXCEPT !["loop"] = Unwind(k)]
    PROVE  /\ k \in TTask /\ Shaped("loop", k)
           /\ \E n : /\ Moves("loop", n) /\ GoesOn(k, n)
                     /\ n.act = "unwind" /\ n.at = "ready" /\ n.u = k.u /\ n.legs = k.done
                     /\ n.done = <<>> /\ n.ok
  <1>1. k \in TTask /\ Shaped("loop", k)
    BY DEF SInv, Types, InShape, Threads
  <1>2. PICK n : n = Unwind(k)
    OBVIOUS
  <1>3. n = Begin(k, "unwind", k.u, k.done)
    BY <1>2 DEF Unwind
  <1>4. /\ n \in TTask /\ n.act = "unwind" /\ n.at = "ready" /\ n.u = k.u /\ n.legs = k.done
        /\ n.done = <<>> /\ n.ok /\ n.agenda = k.agenda /\ n.time = k.time
    <2>1. k.u \in Underlyings \cup {"none"} /\ k.done \in Seq(TLeg)
      BY <1>1, TaskFields
    <2> QED
      BY <1>1, <1>3, <2>1, BeginTyped
  <1> QED
    BY <1>1, <1>2, <1>4 DEF Moves, GoesOn

\* A stage is done.
LEMMA StageMoves ==
    ASSUME SInv, NEW t \in Threads, NEW k, k = task[t],
           NEW at \in {"ready", "open", "sent", "record", "confirm"},
           Put(t, AtStage(k, at))
    PROVE  \E n : /\ Moves(t, n) /\ GoesOn(k, n)
                  /\ n.act = k.act /\ n.at = at /\ n.u = k.u /\ n.legs = k.legs
                  /\ n.done = k.done /\ n.ok = k.ok
  <1>1. PICK n : n = AtStage(k, at)
    OBVIOUS
  <1>2. k \in TTask
    BY DEF SInv, Types
  <1>3. /\ n \in TTask /\ n.act = k.act /\ n.at = at /\ n.u = k.u /\ n.legs = k.legs
        /\ n.done = k.done /\ n.ok = k.ok /\ n.agenda = k.agenda /\ n.time = k.time
    BY <1>1, <1>2, StageTyped
  <1> QED
    BY <1>1, <1>3 DEF Moves, GoesOn, Put

\* An entry is filled.
LEMMA EntryFillsMoves ==
    ASSUME SInv, EntryFills, NEW k, k = task["loop"]
    PROVE  /\ k \in TTask /\ k.act = "enter" /\ k.at = "sent" /\ k.legs # <<>>
           /\ Shaped("loop", k) /\ Running
           /\ \E n : /\ Moves("loop", n) /\ GoesOn(k, n)
                     /\ n.act = "enter" /\ n.at = "ready" /\ n.u = k.u /\ n.ok = k.ok
                     /\ n.legs = Tail(k.legs)
                     /\ Syms(n.done) = Syms(k.done) \cup {Head(k.legs).sym}
                     /\ n.done # <<>>
  <1>1. /\ k \in TTask /\ k.act = "enter" /\ k.at = "sent" /\ Shaped("loop", k) /\ Running
    BY InFacts DEF EntryFills, Threads
  <1>2. k.legs # <<>>
    BY <1>1 DEF Shaped
  <1>3. PICK stop \in {FALSE, BrokerStops} :
            task' = [task EXCEPT !["loop"] = [NextLeg(k, TRUE) EXCEPT
                        !.done = Append(@, [sym |-> Sym("loop"), row |-> Leg1("loop").row, stop |-> stop])]]
    BY Zenon DEF EntryFills, Put
  <1>4. PICK ok \in BOOLEAN : ok = TRUE
    OBVIOUS
  <1>5. PICK m : m = NextLeg(k, ok)
    OBVIOUS
  <1>6. /\ m \in TTask /\ m.act = k.act /\ m.at = "ready" /\ m.u = k.u /\ m.legs = Tail(k.legs)
         /\ m.done = k.done /\ m.ok = (k.ok /\ ok) /\ m.agenda = k.agenda /\ m.time = k.time
    BY <1>1, <1>2, <1>5, NextLegTyped
  <1>7. PICK leg : leg = [sym |-> Sym("loop"), row |-> Leg1("loop").row, stop |-> stop]
    OBVIOUS
  <1>8. leg \in TLeg /\ leg.sym = Head(k.legs).sym
    BY <1>1, <1>2, <1>3, <1>7, FirstLeg, RunnerAssumption DEF Sym, Leg1, TLeg
  <1>9. k.done \in Seq(TLeg)
    BY <1>1, TaskFields
  <1>10. PICK done : done = Append(k.done, leg)
    OBVIOUS
  <1>11. done \in Seq(TLeg) /\ Syms(done) = Syms(k.done) \cup {leg.sym}
    BY <1>8, <1>9, <1>10, SymsAppend
  <1>12. done # <<>>
    BY <1>11, SymsNone
  <1>13. PICK n : n = [m EXCEPT !.done = done]
    OBVIOUS
  <1>14. /\ n \in TTask /\ n.act = k.act /\ n.at = "ready" /\ n.u = k.u /\ n.legs = Tail(k.legs)
         /\ n.done = done /\ n.ok = m.ok /\ n.agenda = k.agenda /\ n.time = k.time
    BY <1>6, <1>11, <1>13 DEF TTask
  <1>15. n.ok = k.ok
    BY <1>1, <1>4, <1>6, <1>14, TaskFields
  <1>16. task' = [task EXCEPT !["loop"] = n]
    BY <1>3, <1>4, <1>5, <1>7, <1>10, <1>13, <1>6
  <1> QED
    BY <1>1, <1>2, <1>8, <1>11, <1>12, <1>14, <1>15, <1>16 DEF Moves, GoesOn

\* A goroutine is through with a leg.
LEMMA NextLegMoves ==
    ASSUME SInv, NEW t \in Threads, NEW k, k = task[t], k.legs # <<>>, NEW ok \in BOOLEAN,
           Put(t, NextLeg(k, ok))
    PROVE  \E n : /\ Moves(t, n) /\ GoesOn(k, n)
                  /\ n.act = k.act /\ n.at = "ready" /\ n.u = k.u /\ n.legs = Tail(k.legs)
                  /\ n.done = k.done /\ n.ok = (k.ok /\ ok)
  <1>1. PICK n : n = NextLeg(k, ok)
    OBVIOUS
  <1>2. k \in TTask
    BY DEF SInv, Types
  <1>3. /\ n \in TTask /\ n.act = k.act /\ n.at = "ready" /\ n.u = k.u /\ n.legs = Tail(k.legs)
        /\ n.done = k.done /\ n.ok = (k.ok /\ ok) /\ n.agenda = k.agenda /\ n.time = k.time
    BY <1>1, <1>2, NextLegTyped
  <1> QED
    BY <1>1, <1>3 DEF Moves, GoesOn, Put

\* A call sequence ends.
LEMMA EndedMoves ==
    ASSUME SInv, NEW t \in Threads, NEW k, k = task[t], Put(t, Ended(k))
    PROVE  \E n : Moves(t, n) /\ GoesOn(k, n) /\ n.act = "none"
  <1>1. PICK n : n = Ended(k)
    OBVIOUS
  <1>2. k \in TTask
    BY DEF SInv, Types
  <1>3. n \in TTask /\ n.act = "none" /\ n.agenda = k.agenda /\ n.time = k.time
    BY <1>1, <1>2, EndedTyped
  <1> QED
    BY <1>1, <1>3 DEF Moves, GoesOn, Put

-----------------------------------------------------------------------------
(***************************************************************************)
(* Every step keeps the shape.                                             *)
(***************************************************************************)
\* A step within a call sequence leaves the process to itself.
LEMMA ControlWorks ==
    ASSUME SInv, NEW t \in Threads, NEW n, Moves(t, n), task[t].act # "none", Running,
           UNCHANGED <<process, ticking, now, killSwitch>>
    PROVE  Types' /\ Control'
  <1>1. task' \in [Threads -> TTask] /\ \A o \in Threads \ {t} : task'[o] = task[o]
    BY MovesFacts DEF SInv, Types
  <1>2. Types'
    BY <1>1 DEF SInv, Types
  <1>3. (t = "loop" => ticking) /\ (t = "api" => killSwitch)
    BY Busy
  <1>4. Running'
    BY DEF Running
  <1>5. ~killSwitch' => task'["api"] = Idle
    BY <1>1, <1>3 DEF SInv, Control, Threads
  <1>6. ~ticking' => task'["loop"] = Idle
    BY <1>1, <1>3 DEF SInv, Control, Threads
  <1> QED
    BY <1>2, <1>4, <1>5, <1>6 DEF Control

\* The others keep their shape.
LEMMA ShapeWorks ==
    ASSUME SInv, NEW t \in Threads, NEW n, Moves(t, n), Shaped(t, n)
    PROVE  InShape'
  <1>1. task'[t] = n /\ \A o \in Threads \ {t} : task'[o] = task[o]
    BY MovesFacts DEF SInv, Types
  <1>2. ASSUME NEW o \in Threads PROVE Shaped(o, task'[o])
    <2>1. CASE o = t
      BY <1>1, <2>1
    <2>2. CASE o # t
      BY <1>1, <2>2 DEF SInv, InShape
    <2> QED
      BY <2>1, <2>2
  <1> QED
    BY <1>2 DEF InShape

\* A step that sends no exit leaves the claims to the others.
LEMMA ClaimsWork ==
    ASSUME SInv, NEW t \in Threads, NEW n, Moves(t, n), exitInFlight' = exitInFlight,
           n.act \notin Closing \/ n.at # "sent"
    PROVE  Claims'
  <1>1. task'[t] = n /\ \A o \in Threads \ {t} : task'[o] = task[o]
    BY MovesFacts DEF SInv, Types
  <1>2. ASSUME NEW o \in Threads, NEW c \in Traded, Closes(task'[o], c)
        PROVE  o # t /\ Closes(task[o], c)
    BY <1>1, <1>2 DEF Closes
  <1>3. ASSUME NEW o \in Threads, NEW c \in Traded, Closes(task'[o], c)
        PROVE  c \in exitInFlight /\ \A p \in Threads : Closes(task'[p], c) => p = o
    BY <1>2, <1>3 DEF SInv, Claims
  <1> QED
    BY <1>3 DEF Claims

\* What enters and what is tracked keep apart.
LEMMA ApartWorks ==
    ASSUME SInv, NEW t \in Threads, NEW n, Moves(t, n), NEW k, k = task[t],
           \A u \in Underlyings : open'[u] = open[u] \/ open'[u] = <<>>
                                  \/ ~(Enters(task["loop"], u) /\ Enters(task'["loop"], u)),
           t = "loop" /\ n.act = "enter" /\ n.at \in {"ready", "open", "sent"} =>
               /\ k.act = "enter" /\ k.at \in {"ready", "open", "sent"} /\ n.u = k.u
               /\ \/ n.at = "ready" /\ n.done = <<>>
                  \/ task["api"].act # "exit" \/ k.at # "ready",
           t = "api" /\ n.act = "exit" => k.act = "exit" /\ n.u = k.u
    PROVE  Apart'
  <1>1. task'[t] = n /\ \A o \in Threads \ {t} : task'[o] = task[o]
    BY MovesFacts DEF SInv, Types
  <1>2. t = "loop" \/ t = "api"
    BY DEF Threads
  <1>3. "loop" \in Threads /\ "api" \in Threads
    BY DEF Threads
  <1>4. ASSUME NEW u \in Underlyings, Enters(task'["loop"], u)
        PROVE  /\ open'[u] = <<>>
               /\ Exits(task'["api"], u) => task'["loop"].at = "ready" /\ task'["loop"].done = <<>>
    <2>1. CASE t = "loop"
      <3>1. Enters(task["loop"], u)
        BY <1>1, <1>4, <2>1 DEF Enters
      <3>2. /\ open[u] = <<>>
            /\ Exits(task["api"], u) => task["loop"].at = "ready" /\ task["loop"].done = <<>>
        BY <3>1 DEF SInv, Apart
      <3>3. task'["api"] = task["api"]
        BY <1>1, <1>3, <2>1
      <3>4. \/ n.at = "ready" /\ n.done = <<>>
            \/ task["api"].act # "exit" \/ k.at # "ready"
        BY <1>1, <1>4, <2>1 DEF Enters
      <3> QED
        BY <1>1, <1>4, <2>1, <3>1, <3>2, <3>3, <3>4 DEF Exits
    <2>2. CASE t = "api"
      <3>1. task'["loop"] = task["loop"]
        BY <1>1, <1>3, <2>2
      <3>2. Enters(task["loop"], u)
        BY <1>4, <3>1
      <3>3. /\ open[u] = <<>>
            /\ Exits(task["api"], u) => task["loop"].at = "ready" /\ task["loop"].done = <<>>
        BY <3>2 DEF SInv, Apart
      <3>4. Exits(task'["api"], u) => Exits(task["api"], u)
        BY <1>1, <2>2 DEF Exits
      <3> QED
        BY <1>4, <3>1, <3>2, <3>3, <3>4
    <2> QED
      BY <1>2, <2>1, <2>2
  <1> QED
    BY <1>4 DEF Apart

\* A step within a call sequence that leaves the structures and their records.
LEMMA WorkKeeps ==
    ASSUME SInv, NEW t \in Threads, NEW n, Moves(t, n), NEW k, k = task[t],
           k.act # "none", Running,
           UNCHANGED <<process, ticking, now, killSwitch, open, legsRec>>,
           BooksTyped', Shaped(t, n), Claims', Outside',
           t = "loop" /\ n.act = "enter" /\ n.at \in {"ready", "open", "sent"} =>
               /\ k.act = "enter" /\ k.at \in {"ready", "open", "sent"} /\ n.u = k.u
               /\ \/ n.at = "ready" /\ n.done = <<>>
                  \/ task["api"].act # "exit" \/ k.at # "ready",
           t = "api" /\ n.act = "exit" => k.act = "exit" /\ n.u = k.u
    PROVE  SInv'
  <1>1. Types' /\ Control'
    BY ControlWorks
  <1>2. InShape'
    BY ShapeWorks
  <1>3. Whole'
    BY DEF SInv, Whole
  <1>4. Apart'
    <2>1. \A u \in Underlyings : open'[u] = open[u] \/ open'[u] = <<>>
                                  \/ ~(Enters(task["loop"], u) /\ Enters(task'["loop"], u))
      OBVIOUS
    <2> QED
      BY <2>1, ApartWorks
  <1> QED
    BY <1>1, <1>2, <1>3, <1>4 DEF SInv

\* The books as they were.
LEMMA BooksSame ==
    ASSUME SInv, UNCHANGED <<book, open, latch, rows, legsRec, stratRec, held, stops>>,
           entries' \in 0..MaxEntries, UNCHANGED <<restarts, faults>>
    PROVE  BooksTyped' /\ Outside'
  BY DEF SInv, BooksTyped, Outside

\* A walk keeps the shape.
LEMMA WalkKeeps ==
    ASSUME SInv, NEW t \in Threads, Walks(t)
    PROVE  SInv'
  <1>1. PICK n : Moves(t, n) /\ Fresh(t, task[t], n)
    BY DEF Walks
  <1>2. /\ n \in TTask /\ task' \in [Threads -> TTask] /\ task'[t] = n
        /\ \A o \in Threads \ {t} : task'[o] = task[o]
    BY <1>1, MovesFacts DEF SInv, Types
  <1>3. /\ process' = process /\ ticking' = ticking /\ now' = now /\ book' = book
        /\ exitInFlight' = exitInFlight /\ open' = open
        /\ rows' = rows /\ legsRec' = legsRec /\ stratRec' = stratRec
        /\ held' = held /\ stops' = stops
        /\ entries' = entries /\ restarts' = restarts /\ faults' = faults
        /\ killSwitch' \in BOOLEAN /\ (killSwitch => killSwitch') /\ Running
        /\ (t = "loop" => ticking) /\ (t = "api" => killSwitch')
        /\ latch' \in [Underlyings -> TLatch] /\ task[t].act = "none"
    BY DEF Walks, durable, exchange
  <1>4. Types'
    BY <1>2, <1>3 DEF SInv, Types
  <1>5. BooksTyped' /\ Outside'
    BY <1>3 DEF SInv, BooksTyped, Outside
  <1>6. Whole'
    BY <1>3 DEF SInv, Whole
  <1>7. Control'
    <2>1. Running'
      BY <1>3 DEF Running
    <2>2. ~killSwitch' => task'["api"] = Idle
      BY <1>2, <1>3 DEF SInv, Control, Threads
    <2>3. ~ticking' => task'["loop"] = Idle
      BY <1>2, <1>3 DEF SInv, Control, Threads
    <2> QED
      BY <2>1, <2>2, <2>3 DEF Control
  <1>8. InShape'
    <2>1. Shaped(t, n)
      <3>1. CASE n.act = "none"
        BY <3>1 DEF Shaped, Closing
      <3>2. CASE n.at = "ready" /\ n.done = <<>> /\ BeginsExit(n)
        <4>1. Syms(n.legs) = LegSet(n.u) /\ n.u \in Underlyings
          BY <3>2 DEF BeginsExit, SInv, Whole
        <4> QED
          BY <3>2, <4>1 DEF BeginsExit, Shaped
      <3>3. CASE n.at = "ready" /\ BeginsSingle(n)
        BY <3>3 DEF BeginsSingle, Shaped
      <3>4. CASE n.at = "ready" /\ n.done = <<>> /\ t = "loop" /\ BeginsEntry(task[t], n)
        BY <3>4, SymsNone DEF BeginsEntry, Shaped
      <3> QED
        BY <1>1, <3>1, <3>2, <3>3, <3>4 DEF Fresh
    <2> QED
      BY <1>1, <2>1, ShapeWorks
  <1>9. Claims'
    <2>1. n.act \notin Closing \/ n.at # "sent"
      BY <1>1 DEF Fresh, Closing
    <2> QED
      BY <1>1, <1>3, <2>1, ClaimsWork
  <1>10. Apart'
    <2>1. ASSUME NEW u \in Underlyings, Enters(task'["loop"], u)
          PROVE  /\ open[u] = <<>>
                 /\ Exits(task'["api"], u) => task'["loop"].at = "ready" /\ task'["loop"].done = <<>>
      <3>1. CASE t = "loop"
        BY <1>1, <1>2, <2>1, <3>1 DEF Enters, Fresh, BeginsEntry, BeginsExit, BeginsSingle
      <3>2. CASE t = "api"
        <4>1. task'["loop"] = task["loop"] /\ task'["api"] = n
          BY <1>2, <3>2 DEF Threads
        <4>2. open[u] = <<>>
          BY <2>1, <4>1 DEF SInv, Apart
        <4>3. ~Exits(n, u)
          BY <1>1, <3>2, <4>2 DEF Exits, Fresh, BeginsEntry, BeginsExit, BeginsSingle
        <4> QED
          BY <4>1, <4>2, <4>3
      <3> QED
        BY <3>1, <3>2 DEF Threads
    <2> QED
      BY <1>3, <2>1 DEF Apart
  <1> QED
    BY <1>4, <1>5, <1>6, <1>7, <1>8, <1>9, <1>10 DEF SInv

\* Validating an entry keeps the shape.
LEMMA ValidateLegKeeps ==
    ASSUME SInv, ValidateLeg
    PROVE  SInv'
  <1> DEFINE k == task["loop"]
  <1>1. /\ k \in TTask /\ k.act = "enter" /\ k.at = "ready" /\ k.legs # <<>>
        /\ Shaped("loop", k) /\ Running /\ ~killSwitch /\ entries' \in 0..MaxEntries
    BY ValidateLegMoves
  <1>2. PICK n : /\ Moves("loop", n)
                 /\ n.act = "enter" /\ n.at = "open" /\ n.u = k.u /\ n.done = k.done
                 /\ n.legs # <<>> /\ Syms(n.legs) = Syms(k.legs)
                 /\ Distinct(k.legs) => Distinct(n.legs)
    BY ValidateLegMoves
  <1>3. UNCHANGED <<process, ticking, now, killSwitch, book, exitInFlight, open, latch, rows,
                    legsRec, stratRec, held, stops, restarts, faults>>
    BY DEF ValidateLeg, control, memory, durable, exchange
  <1>4. BooksTyped' /\ Outside'
    BY <1>1, <1>3, BooksSame
  <1>5. Shaped("loop", n)
    BY <1>1, <1>2 DEF Shaped, Closing
  <1>6. Claims'
    BY <1>2, <1>3, ClaimsWork DEF Closing, Threads
  <1>7. task["api"].act # "exit"
    BY <1>1, IdleTyped DEF SInv, Control
  <1> QED
    BY <1>1, <1>2, <1>3, <1>4, <1>5, <1>6, <1>7, WorkKeeps DEF Threads

\* Giving up an entry keeps the shape.
LEMMA UnwindKeeps ==
    ASSUME SInv, task["loop"].act = "enter", Running,
           task' = [task EXCEPT !["loop"] = Unwind(task["loop"])],
           UNCHANGED <<process, ticking, now, killSwitch, exitInFlight, open, legsRec>>,
           BooksTyped', Outside'
    PROVE  SInv'
  <1> DEFINE k == task["loop"]
  <1>1. k \in TTask /\ Shaped("loop", k)
    BY UnwindMoves
  <1>2. PICK n : /\ Moves("loop", n)
                 /\ n.act = "unwind" /\ n.at = "ready" /\ n.u = k.u /\ n.legs = k.done
    BY UnwindMoves
  <1>3. Shaped("loop", n)
    BY <1>1, <1>2 DEF Shaped
  <1>4. Claims'
    BY <1>2, ClaimsWork DEF Threads
  <1> QED
    BY <1>2, <1>3, <1>4, WorkKeeps DEF Threads

\* A leg that is refused keeps the shape.
LEMMA RefuseLegKeeps ==
    ASSUME SInv, RefuseLeg
    PROVE  SInv'
  <1>1. Running /\ task["loop"].act = "enter"
    BY InFacts DEF RefuseLeg, Threads
  <1>2. UNCHANGED <<process, ticking, now, killSwitch, book, exitInFlight, open, latch, rows,
                    legsRec, stratRec, held, stops, entries, restarts, faults>>
    BY DEF RefuseLeg, control, memory, durable, exchange, bounds
  <1>3. BooksTyped' /\ Outside'
    BY <1>2 DEF SInv, BooksTyped, Outside
  <1>4. task' = [task EXCEPT !["loop"] = Unwind(task["loop"])]
    BY DEF RefuseLeg, Put
  <1> QED
    BY <1>1, <1>2, <1>3, <1>4, UnwindKeeps

\* Opening a position keeps the shape.
LEMMA OpenLegKeeps ==
    ASSUME SInv, OpenLeg
    PROVE  SInv'
  <1> DEFINE k == task["loop"]
  <1>1. /\ k \in TTask /\ k.act = "enter" /\ k.at = "open" /\ Shaped("loop", k) /\ Running
    BY InFacts DEF OpenLeg, Threads
  <1>2. Put("loop", AtStage(k, "sent"))
    BY DEF OpenLeg, AtStage
  <1>3. PICK n : /\ Moves("loop", n)
                 /\ n.act = k.act /\ n.at = "sent" /\ n.u = k.u /\ n.legs = k.legs
                 /\ n.done = k.done
    BY <1>2, StageMoves DEF Threads
  <1>4. UNCHANGED <<process, ticking, now, killSwitch, exitInFlight, open, latch, rows,
                    legsRec, stratRec, held, stops, entries, restarts, faults>>
    BY DEF OpenLeg, control, durable, exchange, bounds
  <1>5. k.legs # <<>>
    BY <1>1 DEF Shaped
  <1>6. book' \subseteq Traded
    <2>1. Sym("loop") \in Traded
      BY <1>1, <1>5, FirstLeg DEF Sym, Leg1
    <2> QED
      BY <2>1 DEF OpenLeg, SInv, BooksTyped
  <1>7. BooksTyped' /\ Outside'
    BY <1>4, <1>6 DEF SInv, BooksTyped, Outside
  <1>8. Shaped("loop", n)
    BY <1>1, <1>3 DEF Shaped, Closing
  <1>9. Claims'
    BY <1>1, <1>3, <1>4, ClaimsWork DEF Threads, Closing
  <1> QED
    BY <1>1, <1>3, <1>4, <1>7, <1>8, <1>9, WorkKeeps DEF Threads

\* So does a fill.
LEMMA EntryFillsKeeps ==
    ASSUME SInv, EntryFills
    PROVE  SInv'
  <1> DEFINE k == task["loop"]
  <1>1. /\ k \in TTask /\ k.act = "enter" /\ k.at = "sent" /\ k.legs # <<>>
        /\ Shaped("loop", k) /\ Running
    BY EntryFillsMoves
  <1>2. PICK n : /\ Moves("loop", n)
                 /\ n.act = "enter" /\ n.at = "ready" /\ n.u = k.u /\ n.legs = Tail(k.legs)
                 /\ Syms(n.done) = Syms(k.done) \cup {Head(k.legs).sym}
    BY EntryFillsMoves
  <1>3. UNCHANGED <<process, ticking, now, killSwitch, book, exitInFlight, open, latch,
                    legsRec, stratRec, entries, restarts, faults>>
    BY DEF EntryFills, control, memory, bounds
  <1>4. PICK ticket : ticket = [sym |-> Sym("loop"), row |-> Leg1("loop").row]
    OBVIOUS
  <1>5. /\ rows' = rows \cup {ticket}
        /\ held' = [held EXCEPT ![Sym("loop")] = @ + 1]
        /\ stops' = stops \/ stops' = stops \cup {ticket}
    BY <1>4, Zenon DEF EntryFills
  <1>6. /\ Head(k.legs).sym \in Traded /\ Head(k.legs).row \in 0..MaxEntries
        /\ Syms(k.legs) = {Head(k.legs).sym} \cup Syms(Tail(k.legs))
        /\ Distinct(k.legs) => Distinct(Tail(k.legs))
    BY <1>1, FirstLeg
  <1>7. ticket \in TTicket
    BY <1>4, <1>6 DEF Sym, Leg1, TTicket
  <1>8. BooksTyped'
    <2>1. rows' \subseteq TTicket /\ stops' \subseteq TTicket
      BY <1>5, <1>7 DEF SInv, BooksTyped
    <2>2. IsFiniteSet(rows')
      BY <1>5, FS_AddElement DEF SInv, BooksTyped
    <2>3. held' \in [Contracts -> Int]
      BY <1>5, <1>6, TradedFacts DEF Sym, Leg1, SInv, BooksTyped
    <2> QED
      BY <1>3, <2>1, <2>2, <2>3 DEF SInv, BooksTyped
  <1>9. Outside'
    BY <1>5, <1>6 DEF Sym, Leg1, Outside, SInv, BooksTyped
  <1>10. Shaped("loop", n)
    BY <1>1, <1>2, <1>6 DEF Shaped, Closing
  <1>11. Claims'
    BY <1>2, <1>3, ClaimsWork DEF Closing, Threads
  <1>12. task["api"].act # "exit" \/ k.at # "ready"
    BY <1>1
  <1> QED
    BY <1>1, <1>2, <1>3, <1>8, <1>9, <1>10, <1>11, <1>12, WorkKeeps DEF Threads

\* So does a rejection.
LEMMA EntryRejectedKeeps ==
    ASSUME SInv, EntryRejected
    PROVE  SInv'
  <1>1. Running /\ task["loop"].act = "enter"
    BY InFacts DEF EntryRejected, Threads
  <1>2. UNCHANGED <<process, ticking, now, killSwitch, exitInFlight, open, latch, rows,
                    legsRec, stratRec, held, stops, entries, restarts, faults>>
    BY DEF EntryRejected, control, durable, exchange, bounds
  <1>3. book' \subseteq Traded
    BY DEF EntryRejected, SInv, BooksTyped
  <1>4. BooksTyped' /\ Outside'
    BY <1>2, <1>3 DEF SInv, BooksTyped, Outside
  <1>5. task' = [task EXCEPT !["loop"] = Unwind(task["loop"])]
    BY DEF EntryRejected, Put
  <1> QED
    BY <1>1, <1>2, <1>4, <1>5, UnwindKeeps

\* An indeterminate entry fills or not.
LEMMA EntryUnknownBooks ==
    ASSUME SInv, EntryUnknown
    PROVE  /\ Running /\ task["loop"].act = "enter" /\ task["loop"].at = "sent"
           /\ Head(task["loop"].legs).sym \in Traded
           /\ \E filled \in {0, 1} : held' = [held EXCEPT ![Head(task["loop"].legs).sym] = @ + filled]
           /\ task' = [task EXCEPT !["loop"] = Unwind(task["loop"])]
           /\ UNCHANGED <<process, ticking, now, killSwitch, book, exitInFlight, open, latch, rows,
                          legsRec, stratRec, stops, excused, entries, restarts, faults>>
           /\ alerted' = alerted \cup {Head(task["loop"].legs).sym}
  <1>1. /\ Running /\ task["loop"].act = "enter" /\ task["loop"].at = "sent"
        /\ task["loop"] \in TTask /\ Shaped("loop", task["loop"])
    BY InFacts DEF EntryUnknown, Threads
  <1>2. Head(task["loop"].legs).sym \in Traded
    BY <1>1, FirstLeg DEF Shaped
  <1>3. \E filled \in {0, 1} : held' = [held EXCEPT ![Head(task["loop"].legs).sym] = @ + filled]
    BY DEF EntryUnknown, Sym, Leg1
  <1>4. /\ task' = [task EXCEPT !["loop"] = Unwind(task["loop"])]
        /\ UNCHANGED <<process, ticking, now, killSwitch, book, exitInFlight, open, latch, rows,
                       legsRec, stratRec, stops, excused, entries, restarts, faults>>
        /\ alerted' = alerted \cup {Head(task["loop"].legs).sym}
    BY DEF EntryUnknown, Unknown, Put, control, memory, Sym, Leg1
  <1> QED
    BY <1>1, <1>2, <1>3, <1>4

\* An entry whose outcome stays unknown keeps the shape.
LEMMA EntryUnknownKeeps ==
    ASSUME SInv, EntryUnknown
    PROVE  SInv'
  <1>1. held' \in [Contracts -> Int] /\ Outside'
    <2>1. PICK filled \in {0, 1} : held' = [held EXCEPT ![Head(task["loop"].legs).sym] = @ + filled]
      BY EntryUnknownBooks
    <2>2. Head(task["loop"].legs).sym \in Traded
      BY EntryUnknownBooks
    <2> QED
      BY <2>1, <2>2, TradedFacts DEF SInv, BooksTyped, Outside
  <1>2. BooksTyped'
    BY <1>1, EntryUnknownBooks DEF SInv, BooksTyped
  <1> QED
    BY <1>1, <1>2, EntryUnknownBooks, UnwindKeeps

\* Recording a structure leaves it whole.
LEMMA TrackStructureKeeps ==
    ASSUME SInv, TrackStructure
    PROVE  SInv'
  <1> DEFINE k == task["loop"]
  <1>1. /\ k \in TTask /\ k.act = "enter" /\ k.at = "ready" /\ Shaped("loop", k) /\ Running
        /\ k.legs = <<>> /\ k.u \in Underlyings /\ k.done \in Seq(TLeg)
    BY InFacts, TaskFields DEF TrackStructure, Threads, Shaped
  <1>2. Put("loop", AtStage(k, "record"))
    BY DEF TrackStructure, AtStage
  <1>3. PICK n : /\ Moves("loop", n)
                 /\ n.act = k.act /\ n.at = "record" /\ n.u = k.u /\ n.legs = k.legs
                 /\ n.done = k.done
    BY <1>2, StageMoves DEF Threads
  <1>4. UNCHANGED <<process, ticking, now, killSwitch, book, exitInFlight, latch, rows,
                    legsRec, stratRec, held, stops, entries, restarts, faults>>
    BY DEF TrackStructure, control, durable, exchange, bounds
  <1>5. open' = [open EXCEPT ![k.u] = k.done]
    BY DEF TrackStructure
  <1>6. open' \in [Underlyings -> Seq(TLeg)] /\ open'[k.u] = k.done
        /\ \A u \in Underlyings \ {k.u} : open'[u] = open[u]
    BY <1>1, <1>5 DEF SInv, BooksTyped
  <1>7. BooksTyped' /\ Outside'
    BY <1>4, <1>6 DEF SInv, BooksTyped, Outside
  <1>8. Shaped("loop", n)
    BY <1>1, <1>3 DEF Shaped, Closing
  <1>9. Claims'
    BY <1>1, <1>3, <1>4, ClaimsWork DEF Threads, Closing
  <1>10. Syms(k.done) = LegSet(k.u)
    BY <1>1, SymsNone DEF Shaped
  <1>11. Whole'
    <2>1. ASSUME NEW u \in Underlyings
          PROVE  /\ open'[u] # <<>> => Syms(open'[u]) = LegSet(u)
                 /\ legsRec'[u] # <<>> => ToSet(legsRec'[u]) = LegSet(u)
      BY <1>4, <1>6, <1>10, <2>1 DEF SInv, Whole
    <2> QED
      BY <2>1 DEF Whole
  <1>12. Apart'
    <2>1. task'["loop"] = n
      BY <1>3, MovesFacts DEF SInv, Types, Threads
    <2> QED
      BY <1>3, <2>1 DEF Apart, Enters
  <1>13. Types' /\ Control'
    BY <1>1, <1>3, <1>4, ControlWorks DEF Threads
  <1>14. InShape'
    BY <1>3, <1>8, ShapeWorks DEF Threads
  <1> QED
    BY <1>7, <1>9, <1>11, <1>12, <1>13, <1>14 DEF SInv

\* Saving the record of a structure that is entered, or clearing that of one
\* that is exited.
LEMMA PersistKeeps ==
    ASSUME SInv, PersistStructure
    PROVE  SInv'
  <1> DEFINE k == task["loop"]
  <1>1. /\ k \in TTask /\ k.act = "enter" /\ k.at = "record" /\ Shaped("loop", k) /\ Running
        /\ k.legs = <<>> /\ k.u \in Underlyings /\ k.done \in Seq(TLeg)
    BY InFacts, TaskFields DEF PersistStructure, Threads, Shaped
  <1>2. Put("loop", AtStage(k, "confirm"))
    BY DEF PersistStructure, AtStage
  <1>3. PICK n : /\ Moves("loop", n)
                 /\ n.act = k.act /\ n.at = "confirm" /\ n.u = k.u /\ n.legs = k.legs
                 /\ n.done = k.done
    BY <1>2, StageMoves DEF Threads
  <1>4. UNCHANGED <<process, ticking, now, killSwitch, book, exitInFlight, open, latch, rows,
                    stratRec, held, stops>>
    BY DEF PersistStructure, control, memory, exchange
  <1>5. legsRec' = legsRec \/ legsRec' = [legsRec EXCEPT ![k.u] = SymsOf(k.done)]
    BY DEF PersistStructure
  <1>6. entries' = entries /\ restarts' = restarts /\ faults' \in Nat
    BY DEF PersistStructure, StoreFails, bounds, SInv, BooksTyped
  <1>7. SymsOf(k.done) \in Seq(Traded) /\ ToSet(SymsOf(k.done)) = LegSet(k.u)
    BY <1>1, SymsSome, SymsNone DEF Shaped
  <1>8. legsRec' \in [Underlyings -> Seq(Traded)]
    BY <1>1, <1>5, <1>7 DEF SInv, BooksTyped
  <1>9. BooksTyped' /\ Outside'
    BY <1>4, <1>6, <1>8 DEF SInv, BooksTyped, Outside
  <1>10. Whole'
    <2>1. ASSUME NEW u \in Underlyings
          PROVE  legsRec'[u] # <<>> => ToSet(legsRec'[u]) = LegSet(u)
      <3>1. legsRec'[u] = legsRec[u] \/ (u = k.u /\ legsRec'[u] = SymsOf(k.done))
        BY <1>1, <1>5, <2>1 DEF SInv, BooksTyped
      <3> QED
        BY <1>7, <3>1 DEF SInv, Whole
    <2> QED
      BY <1>4, <2>1 DEF SInv, Whole
  <1>11. Shaped("loop", n)
    BY <1>1, <1>3 DEF Shaped, Closing
  <1>12. Claims'
    BY <1>1, <1>3, <1>4, ClaimsWork DEF Threads, Closing
  <1>13. Apart'
    <2>1. task'["loop"] = n
      BY <1>3, MovesFacts DEF SInv, Types, Threads
    <2> QED
      BY <1>3, <2>1 DEF Apart, Enters
  <1>14. Types' /\ Control'
    BY <1>1, <1>3, <1>4, ControlWorks DEF Threads
  <1>15. InShape'
    BY <1>3, <1>11, ShapeWorks DEF Threads
  <1> QED
    BY <1>9, <1>10, <1>12, <1>13, <1>14, <1>15 DEF SInv

\* The latches that a confirmation leaves, and the record of them.
LEMMA LatchesTyped ==
    ASSUME SInv, NEW u \in Underlyings,
           \/ latch' = latch
           \/ latch' = [latch EXCEPT ![u] = ConfirmEntry(@)]
           \/ latch' = [latch EXCEPT ![u] = ConfirmExit(@)],
           SaveLatches(latch')
    PROVE  /\ latch' \in [Underlyings -> TLatch] /\ stratRec' \in [Underlyings -> TLatch]
           /\ faults' \in Nat /\ entries' = entries /\ restarts' = restarts
  <1>1. latch \in [Underlyings -> TLatch] /\ stratRec \in [Underlyings -> TLatch] /\ faults \in Nat
    BY DEF SInv, BooksTyped
  <1>2. \A l \in TLatch : ConfirmEntry(l) \in TLatch /\ ConfirmExit(l) \in TLatch
    BY DEF ConfirmEntry, ConfirmExit, TLatch
  <1>3. latch' \in [Underlyings -> TLatch]
    BY <1>1, <1>2
  <1>4. Latch \subseteq TLatch
    <2>1. Horizon \in Instants
      BY NineTwentyAssumption DEF Instants
    <2>2. 0..Day(Horizon) \subseteq Int
      BY <2>1, DayInt
    <2> QED
      BY <2>2 DEF Latch, TLatch
  <1>5. stratRec' \in [Underlyings -> TLatch]
    <2>1. CASE stratRec' = IF Latched THEN latch' ELSE stratRec
      BY <1>1, <1>3, <2>1
    <2>2. CASE stratRec' \in {saved \in [Underlyings -> Latch] :
              \A v \in Underlyings : saved[v] \in SavedInPart(stratRec[v], latch'[v])}
      <3>1. stratRec' \in [Underlyings -> Latch]
        BY <2>2
      <3> QED
        BY <1>4, <3>1
    <2> QED
      BY <2>1, <2>2 DEF SaveLatches
  <1>6. faults' \in Nat /\ entries' = entries /\ restarts' = restarts
    BY <1>1 DEF SaveLatches, StoreFails, bounds
  <1> QED
    BY <1>3, <1>5, <1>6

\* Confirming an entry or an exit, and the end of the other call sequences.
LEMMA EndKeeps ==
    ASSUME SInv, NEW t \in Threads, task[t].act # "none", Running, Put(t, Ended(task[t])),
           UNCHANGED <<process, ticking, now, killSwitch, exitInFlight, open, legsRec>>,
           BooksTyped', Outside'
    PROVE  SInv'
  <1>1. PICK n : Moves(t, n) /\ n.act = "none"
    BY EndedMoves
  <1>2. Shaped(t, n)
    BY <1>1 DEF Shaped, Closing
  <1>3. Claims'
    BY <1>1, ClaimsWork DEF Closing
  <1> QED
    BY <1>1, <1>2, <1>3, WorkKeeps

\* The strategy's being told keeps the shape.
LEMMA ConfirmedKeeps ==
    ASSUME SInv, NEW t \in Threads, ExitConfirmed(t) \/ (t = "loop" /\ EntryConfirmed)
    PROVE  SInv'
  <1>1. PICK acts : In(t, acts, "confirm") /\ acts \subseteq {"enter", "exit"}
    BY DEF ExitConfirmed, EntryConfirmed
  <1>2. Running /\ task[t].act \in {"enter", "exit"} /\ task[t].u \in Underlyings
    BY <1>1, InFacts DEF Shaped
  <1>3. PICK u \in Underlyings : u = task[t].u
    BY <1>2
  <1>4. /\ \/ latch' = latch
           \/ latch' = [latch EXCEPT ![u] = ConfirmEntry(@)]
           \/ latch' = [latch EXCEPT ![u] = ConfirmExit(@)]
        /\ SaveLatches(latch')
    BY <1>3 DEF ExitConfirmed, EntryConfirmed
  <1>5. /\ latch' \in [Underlyings -> TLatch] /\ stratRec' \in [Underlyings -> TLatch]
        /\ faults' \in Nat /\ entries' = entries /\ restarts' = restarts
    BY <1>4, LatchesTyped
  <1>6. UNCHANGED <<process, ticking, now, killSwitch, book, exitInFlight, open, rows, legsRec,
                    held, stops>>
    BY DEF ExitConfirmed, EntryConfirmed, control, exchange
  <1>7. BooksTyped' /\ Outside'
    BY <1>5, <1>6 DEF SInv, BooksTyped, Outside
  <1>8. Put(t, Ended(task[t]))
    BY DEF ExitConfirmed, EntryConfirmed
  <1> QED
    BY <1>2, <1>6, <1>7, <1>8, EndKeeps

\* The end of an unwinding, or of a contract's exit, keeps the shape.
LEMMA LegsClosedKeeps ==
    ASSUME SInv, NEW t \in Threads, LegsClosed(t)
    PROVE  SInv'
  <1>1. Running /\ task[t].act \in {"unwind", "single"}
    BY InFacts DEF LegsClosed
  <1>2. UNCHANGED <<process, ticking, now, killSwitch, book, exitInFlight, open, latch, rows,
                    legsRec, stratRec, held, stops, entries, restarts, faults>>
    BY DEF LegsClosed, control, memory, durable, exchange, bounds
  <1>3. BooksTyped' /\ Outside'
    BY <1>2 DEF SInv, BooksTyped, Outside
  <1>4. Put(t, Ended(task[t])) /\ task[t].act # "none"
    BY <1>1 DEF LegsClosed
  <1> QED
    BY <1>1, <1>2, <1>3, <1>4, EndKeeps

\* What a closing call sequence works on.
LEMMA ClosingFacts ==
    ASSUME SInv, NEW t \in Threads, NEW stage \in {"ready", "sent"}, In(t, Closing, stage),
           stage = "ready" => task[t].legs # <<>>, NEW k, k = task[t]
    PROVE  /\ Running /\ k \in TTask /\ k.act \in Closing /\ k.act # "none" /\ k.act # "enter"
           /\ k.at = stage /\ k.legs # <<>> /\ Shaped(t, k)
           /\ Sym(t) = Head(k.legs).sym /\ Sym(t) \in Traded
           /\ Tail(k.legs) \in Seq(TLeg)
           /\ Syms(k.legs) = {Sym(t)} \cup Syms(Tail(k.legs))
  <1>1. Running /\ k \in TTask /\ k.act \in Closing /\ k.at = stage /\ Shaped(t, k)
    BY InFacts
  <1>2. k.legs # <<>>
    BY <1>1 DEF Shaped
  <1>3. Sym(t) = Head(k.legs).sym
    BY DEF Sym, Leg1
  <1> QED
    BY <1>1, <1>2, <1>3, FirstLeg DEF Closing

\* A closing call sequence with its next leg keeps its shape.
LEMMA NextLegShaped ==
    ASSUME NEW t \in Threads, NEW k, NEW n, Shaped(t, k), k.act \in Closing,
           n.act = k.act, n.at = "ready", n.u = k.u, Syms(n.legs) \subseteq Syms(k.legs)
    PROVE  Shaped(t, n)
  BY DEF Shaped, Closing

\* A claim is the only one of its contract.
LEMMA ClaimLegKeeps ==
    ASSUME SInv, NEW t \in Threads, ClaimLeg(t)
    PROVE  SInv'
  <1> DEFINE k == task[t]
  <1>1. /\ Running /\ k \in TTask /\ k.act \in Closing /\ k.act # "none" /\ k.act # "enter"
        /\ k.at = "ready" /\ k.legs # <<>> /\ Shaped(t, k)
        /\ Sym(t) = Head(k.legs).sym /\ Sym(t) \in Traded
    BY ClosingFacts DEF ClaimLeg
  <1>2. Put(t, AtStage(k, "sent"))
    BY DEF ClaimLeg, AtStage
  <1>3. PICK n : /\ Moves(t, n)
                 /\ n.act = k.act /\ n.at = "sent" /\ n.u = k.u /\ n.legs = k.legs
    BY <1>2, StageMoves
  <1>4. UNCHANGED <<process, ticking, now, killSwitch, book, open, latch, rows,
                    legsRec, stratRec, held, entries, restarts, faults>>
    BY DEF ClaimLeg, control, durable, bounds
  <1>5. stops' \subseteq stops /\ exitInFlight' = exitInFlight \cup {Sym(t)} /\ Sym(t) \notin exitInFlight
    BY DEF ClaimLeg, CancelStop
  <1>6. BooksTyped' /\ Outside'
    BY <1>4, <1>5 DEF SInv, BooksTyped, Outside
  <1>7. Shaped(t, n)
    BY <1>1, <1>3 DEF Shaped, Closing
  <1>8. Claims'
    <2>1. task'[t] = n /\ \A o \in Threads \ {t} : task'[o] = task[o]
      BY <1>3, MovesFacts DEF SInv, Types
    <2>2. ASSUME NEW c \in Traded, Closes(n, c) PROVE c = Sym(t)
      BY <1>1, <1>3, <2>2 DEF Closes
    <2>3. ASSUME NEW o \in Threads \ {t}, NEW c \in Traded, Closes(task'[o], c)
          PROVE  c \in exitInFlight /\ c # Sym(t) /\ \A p \in Threads : Closes(task[p], c) => p = o
      BY <1>5, <2>1, <2>3 DEF SInv, Claims
    <2>4. ASSUME NEW o \in Threads, NEW c \in Traded, Closes(task'[o], c)
          PROVE  c \in exitInFlight' /\ \A p \in Threads : Closes(task'[p], c) => p = o
      BY <1>5, <2>1, <2>2, <2>3, <2>4
    <2> QED
      BY <2>4 DEF Claims
  <1> QED
    BY <1>1, <1>3, <1>4, <1>6, <1>7, <1>8, WorkKeeps

\* An exit that is refused claims nothing.
LEMMA ClaimRefusedKeeps ==
    ASSUME SInv, NEW t \in Threads, ClaimRefused(t)
    PROVE  SInv'
  <1> DEFINE k == task[t]
  <1>1. /\ Running /\ k \in TTask /\ k.act \in Closing /\ k.act # "none" /\ k.act # "enter"
        /\ k.at = "ready" /\ k.legs # <<>> /\ Shaped(t, k)
        /\ Syms(k.legs) = {Sym(t)} \cup Syms(Tail(k.legs))
    BY ClosingFacts DEF ClaimRefused
  <1>2. PICK ok \in BOOLEAN : ok = FALSE
    OBVIOUS
  <1>3. Put(t, NextLeg(k, ok))
    BY <1>2 DEF ClaimRefused
  <1>4. PICK n : /\ Moves(t, n)
                 /\ n.act = k.act /\ n.at = "ready" /\ n.u = k.u /\ n.legs = Tail(k.legs)
    BY <1>1, <1>3, NextLegMoves
  <1>5. UNCHANGED <<process, ticking, now, killSwitch, book, exitInFlight, open, latch, rows,
                    legsRec, stratRec, held, entries, restarts, faults>>
    BY DEF ClaimRefused, control, memory, durable, bounds
  <1>6. stops' \subseteq stops
    BY DEF ClaimRefused, CancelStop
  <1>7. BooksTyped' /\ Outside'
    BY <1>5, <1>6 DEF SInv, BooksTyped, Outside
  <1>8. Shaped(t, n)
    BY <1>1, <1>4, NextLegShaped
  <1>9. Claims'
    BY <1>4, <1>5, ClaimsWork
  <1> QED
    BY <1>1, <1>4, <1>5, <1>7, <1>8, <1>9, WorkKeeps

\* An exit that is answered gives its claim up.
LEMMA ClaimsReleased ==
    ASSUME SInv, NEW t \in Threads, NEW n, Moves(t, n), n.at = "ready",
           Closes(task[t], Sym(t)), Sym(t) \in Traded, exitInFlight' = exitInFlight \ {Sym(t)}
    PROVE  Claims'
  <1>1. task'[t] = n /\ \A o \in Threads \ {t} : task'[o] = task[o]
    BY MovesFacts DEF SInv, Types
  <1>2. ASSUME NEW o \in Threads, NEW c \in Traded, Closes(task'[o], c)
        PROVE  o # t /\ Closes(task[o], c)
    BY <1>1, <1>2 DEF Closes
  <1>3. ASSUME NEW o \in Threads, NEW c \in Traded, Closes(task'[o], c)
        PROVE  c \in exitInFlight' /\ \A p \in Threads : Closes(task'[p], c) => p = o
    <2>1. c \in exitInFlight /\ \A p \in Threads : Closes(task[p], c) => p = o
      BY <1>2, <1>3 DEF SInv, Claims
    <2>2. c # Sym(t)
      BY <1>2, <1>3, <2>1
    <2> QED
      BY <1>2, <2>1, <2>2
  <1> QED
    BY <1>3 DEF Claims

\* An answered exit keeps the shape, whatever the answer.
LEMMA ExitAnsweredKeeps ==
    ASSUME SInv, NEW t \in Threads, In(t, Closing, "sent"), NEW ok \in BOOLEAN,
           Put(t, NextLeg(task[t], ok)), exitInFlight' = exitInFlight \ {Sym(t)},
           UNCHANGED <<process, ticking, now, killSwitch, open, latch, legsRec, stratRec,
                       stops, entries, restarts, faults>>,
           book' \subseteq book, rows' = rows \/ \E r : rows' = rows \ {r},
           NEW filled \in {0, 1}, held' = [held EXCEPT ![Sym(t)] = @ - filled]
    PROVE  SInv'
  <1> DEFINE k == task[t]
  <1>1. /\ Running /\ k \in TTask /\ k.act \in Closing /\ k.act # "none" /\ k.act # "enter"
        /\ k.at = "sent" /\ k.legs # <<>> /\ Shaped(t, k)
        /\ Sym(t) = Head(k.legs).sym /\ Sym(t) \in Traded
        /\ Syms(k.legs) = {Sym(t)} \cup Syms(Tail(k.legs))
    BY ClosingFacts
  <1>2. PICK n : /\ Moves(t, n)
                 /\ n.act = k.act /\ n.at = "ready" /\ n.u = k.u /\ n.legs = Tail(k.legs)
    BY <1>1, NextLegMoves
  <1>3. Closes(k, Sym(t))
    BY <1>1 DEF Closes
  <1>4. Claims'
    BY <1>1, <1>2, <1>3, ClaimsReleased
  <1>5. held' \in [Contracts -> Int] /\ Outside'
    BY <1>1, TradedFacts DEF SInv, BooksTyped, Outside
  <1>6. rows' \subseteq TTicket /\ IsFiniteSet(rows')
    BY FS_Subset DEF SInv, BooksTyped
  <1>7. BooksTyped'
    BY <1>5, <1>6 DEF SInv, BooksTyped
  <1>8. Shaped(t, n)
    BY <1>1, <1>2, NextLegShaped
  <1> QED
    BY <1>1, <1>2, <1>4, <1>5, <1>7, <1>8, WorkKeeps

\* An exit that fills keeps the shape.
LEMMA ExitFillsKeeps ==
    ASSUME SInv, NEW t \in Threads, ExitFills(t)
    PROVE  SInv'
  <1>1. PICK ok \in BOOLEAN : ok = TRUE
    OBVIOUS
  <1>2. Put(t, NextLeg(task[t], ok)) /\ In(t, Closing, "sent")
    BY <1>1 DEF ExitFills
  <1>3. PICK filled \in {0, 1} : filled = 1
    OBVIOUS
  <1>4. /\ held' = [held EXCEPT ![Sym(t)] = @ - filled]
        /\ book' \subseteq book /\ (\E r : rows' = rows \ {r})
        /\ exitInFlight' = exitInFlight \ {Sym(t)}
        /\ UNCHANGED <<process, ticking, now, killSwitch, open, latch, legsRec, stratRec,
                       stops, entries, restarts, faults>>
    BY <1>3 DEF ExitFills, control, bounds
  <1> QED
    BY <1>2, <1>4, ExitAnsweredKeeps

\* What an exit that fails leaves.
LEMMA ExitFailsBooks ==
    ASSUME SInv, NEW t \in Threads, ExitFails(t)
    PROVE  /\ In(t, Closing, "sent") /\ Put(t, NextLeg(task[t], FALSE))
           /\ \E filled \in {0, 1} : held' = [held EXCEPT ![Sym(t)] = @ - filled]
           /\ exitInFlight' = exitInFlight \ {Sym(t)} /\ alerted' = alerted \cup {Sym(t)}
           /\ UNCHANGED <<process, ticking, now, killSwitch, book, open, latch, rows, legsRec,
                          stratRec, stops, excused, entries, restarts, faults>>
  <1>1. In(t, Closing, "sent") /\ Put(t, NextLeg(task[t], FALSE))
    BY DEF ExitFails
  <1>2. \E filled \in {0, 1} : held' = [held EXCEPT ![Sym(t)] = @ - filled]
    <2>1. CASE held' = held
      <3>1. Sym(t) \in Contracts
        BY <1>1, ClosingFacts, TradedFacts
      <3>2. held[Sym(t)] - 0 = held[Sym(t)]
        BY <3>1 DEF SInv, BooksTyped
      <3>3. held' = [held EXCEPT ![Sym(t)] = held[Sym(t)] - 0]
        BY <2>1, <3>1, <3>2 DEF SInv, BooksTyped
      <3> QED
        BY <3>3
    <2>2. CASE \E filled \in {0, 1} : held' = [held EXCEPT ![Sym(t)] = @ - filled]
      BY <2>2
    <2> QED
      BY <2>1, <2>2 DEF ExitFails
  <1>3. /\ exitInFlight' = exitInFlight \ {Sym(t)} /\ alerted' = alerted \cup {Sym(t)}
        /\ UNCHANGED <<process, ticking, now, killSwitch, book, open, latch, rows, legsRec,
                       stratRec, stops, excused, entries, restarts, faults>>
    BY DEF ExitFails, Unknown, control, bounds
  <1> QED
    BY <1>1, <1>2, <1>3

\* An exit that fails keeps the shape.
LEMMA ExitFailsKeeps ==
    ASSUME SInv, NEW t \in Threads, ExitFails(t)
    PROVE  SInv'
  <1>1. PICK ok \in BOOLEAN : ok = FALSE
    OBVIOUS
  <1>2. PICK filled \in {0, 1} : held' = [held EXCEPT ![Sym(t)] = @ - filled]
    BY ExitFailsBooks
  <1>3. /\ In(t, Closing, "sent") /\ Put(t, NextLeg(task[t], ok))
        /\ exitInFlight' = exitInFlight \ {Sym(t)}
        /\ book' \subseteq book /\ rows' = rows
        /\ UNCHANGED <<process, ticking, now, killSwitch, open, latch, legsRec, stratRec,
                       stops, entries, restarts, faults>>
    BY <1>1, ExitFailsBooks
  <1> QED
    BY <1>2, <1>3, ExitAnsweredKeeps

\* Forgetting a structure leaves the others whole.
LEMMA UntrackKeeps ==
    ASSUME SInv, NEW t \in Threads, Untrack(t)
    PROVE  SInv'
  <1> DEFINE k == task[t]
  <1>1. /\ k \in TTask /\ k.act = "exit" /\ k.at = "ready" /\ Shaped(t, k) /\ Running
        /\ k.legs = <<>> /\ k.u \in Underlyings
    BY InFacts DEF Untrack, Shaped
  <1>2. PICK at \in {"record", "confirm"} : Put(t, AtStage(k, at)) /\ (at = "record" => k.ok)
    BY DEF Untrack, AtStage
  <1>3. PICK n : /\ Moves(t, n)
                 /\ n.act = k.act /\ n.at = at /\ n.u = k.u /\ n.legs = k.legs /\ n.ok = k.ok
    BY <1>2, StageMoves
  <1>4. UNCHANGED <<process, ticking, now, killSwitch, book, exitInFlight, latch, rows,
                    legsRec, stratRec, held, stops, entries, restarts, faults>>
    BY DEF Untrack, control, durable, exchange, bounds
  <1>5. open' = open \/ open' = [open EXCEPT ![k.u] = <<>>]
    BY DEF Untrack
  <1>6. open' \in [Underlyings -> Seq(TLeg)] /\ \A u \in Underlyings : open'[u] = open[u] \/ open'[u] = <<>>
    <2>1. <<>> \in Seq(TLeg) /\ open \in [Underlyings -> Seq(TLeg)]
      BY EmptySeq DEF SInv, BooksTyped
    <2> QED
      BY <1>1, <1>5, <2>1
  <1>7. BooksTyped' /\ Outside'
    BY <1>4, <1>6 DEF SInv, BooksTyped, Outside
  <1>8. Shaped(t, n)
    BY <1>1, <1>2, <1>3 DEF Shaped, Closing
  <1>9. Claims'
    BY <1>1, <1>2, <1>3, <1>4, ClaimsWork DEF Closing
  <1>10. Whole'
    <2>1. ASSUME NEW u \in Underlyings
          PROVE  /\ open'[u] # <<>> => Syms(open'[u]) = LegSet(u)
                 /\ legsRec'[u] # <<>> => ToSet(legsRec'[u]) = LegSet(u)
      BY <1>4, <1>6, <2>1 DEF SInv, Whole
    <2> QED
      BY <2>1 DEF Whole
  <1>11. Apart'
    <2>1. /\ t = "loop" /\ n.act = "enter" => FALSE
          /\ t = "api" /\ n.act = "exit" => k.act = "exit" /\ n.u = k.u
      BY <1>1, <1>3
    <2> QED
      BY <1>3, <1>6, <2>1, ApartWorks
  <1>12. Types' /\ Control'
    BY <1>1, <1>3, <1>4, ControlWorks
  <1>13. InShape'
    BY <1>3, <1>8, ShapeWorks
  <1> QED
    BY <1>7, <1>9, <1>10, <1>11, <1>12, <1>13 DEF SInv

\* Clearing a record keeps the shape.
LEMMA ClearKeeps ==
    ASSUME SInv, NEW t \in Threads, ClearStructure(t)
    PROVE  SInv'
  <1> DEFINE k == task[t]
  <1>1. /\ k \in TTask /\ k.act = "exit" /\ k.at = "record" /\ Shaped(t, k) /\ Running
        /\ k.u \in Underlyings
    BY InFacts DEF ClearStructure, Shaped
  <1>2. Put(t, AtStage(k, "confirm"))
    BY DEF ClearStructure, AtStage
  <1>3. PICK n : /\ Moves(t, n)
                 /\ n.act = k.act /\ n.at = "confirm" /\ n.u = k.u /\ n.legs = k.legs
    BY <1>2, StageMoves
  <1>4. UNCHANGED <<process, ticking, now, killSwitch, book, exitInFlight, open, latch, rows,
                    stratRec, held, stops>>
    BY DEF ClearStructure, control, memory, exchange
  <1>5. legsRec' = legsRec \/ legsRec' = [legsRec EXCEPT ![k.u] = <<>>]
    BY DEF ClearStructure
  <1>6. entries' = entries /\ restarts' = restarts /\ faults' \in Nat
    BY DEF ClearStructure, StoreFails, bounds, SInv, BooksTyped
  <1>7. legsRec' \in [Underlyings -> Seq(Traded)]
        /\ \A u \in Underlyings : legsRec'[u] = legsRec[u] \/ legsRec'[u] = <<>>
    BY <1>1, <1>5, EmptySeq DEF SInv, BooksTyped
  <1>8. BooksTyped' /\ Outside'
    BY <1>4, <1>6, <1>7 DEF SInv, BooksTyped, Outside
  <1>9. Whole'
    BY <1>4, <1>7 DEF SInv, Whole
  <1>10. Shaped(t, n)
    BY <1>1, <1>3 DEF Shaped, Closing
  <1>11. Claims'
    BY <1>1, <1>3, <1>4, ClaimsWork DEF Closing
  <1>12. Apart'
    <2>1. /\ t = "loop" /\ n.act = "enter" => FALSE
          /\ t = "api" /\ n.act = "exit" => k.act = "exit" /\ n.u = k.u
          /\ \A u \in Underlyings : open'[u] = open[u]
      BY <1>1, <1>3, <1>4
    <2> QED
      BY <1>3, <2>1, ApartWorks
  <1>13. Types' /\ Control'
    BY <1>1, <1>3, <1>4, ControlWorks
  <1>14. InShape'
    BY <1>3, <1>10, ShapeWorks
  <1> QED
    BY <1>8, <1>9, <1>11, <1>12, <1>13, <1>14 DEF SInv

\* No goroutine is left when the process is idle.
LEMMA IdleShape ==
    ASSUME task' = [t \in Threads |-> Idle]
    PROVE  /\ task' \in [Threads -> TTask] /\ task'["api"] = Idle /\ task'["loop"] = Idle
           /\ InShape' /\ Claims' /\ Apart'
  <1>1. task' \in [Threads -> TTask] /\ task'["api"] = Idle /\ task'["loop"] = Idle
        /\ \A t \in Threads : task'[t] = Idle
    BY IdleTyped DEF Threads
  <1>2. \A t \in Threads : Shaped(t, Idle)
    BY IdleTyped DEF Shaped, Closing
  <1>3. InShape'
    BY <1>1, <1>2 DEF InShape
  <1>4. Claims' /\ Apart'
    BY <1>1, IdleTyped DEF Claims, Apart, Closes, Enters, Closing
  <1> QED
    BY <1>1, <1>3, <1>4

\* What is at the exchange when the process stops is traded.
LEMMA InFlightTraded ==
    ASSUME SInv, NEW kinds, kinds = {"enter"} \/ kinds = Closing
    PROVE  InFlight(kinds) \subseteq Traded
  <1>1. ASSUME NEW t \in Threads, task[t].act \in kinds, task[t].at = "sent"
        PROVE  Sym(t) \in Traded
    <2>1. task[t] \in TTask /\ Shaped(t, task[t])
      BY DEF SInv, Types, InShape
    <2>2. task[t].legs # <<>>
      BY <1>1, <2>1 DEF Shaped
    <2> QED
      BY <2>1, <2>2, FirstLeg DEF Sym, Leg1
  <1> QED
    BY <1>1 DEF InFlight

\* When the process stops, its books and goroutines are gone.
LEMMA StopsKeeps ==
    ASSUME SInv, Stops
    PROVE  SInv'
  <1>1. /\ process' \in {"crashed", "clean", "dirty"} /\ now' = now /\ rows' = rows
        /\ legsRec' = legsRec /\ stratRec' = stratRec /\ stops' = stops
        /\ entries' = entries /\ restarts' = restarts /\ faults' = faults
    BY DEF Stops, bounds
  <1>2. /\ ticking' = FALSE /\ killSwitch' = FALSE /\ book' = {}
        /\ task' = [t \in Threads |-> Idle]
        /\ open' = [u \in Underlyings |-> <<>>]
        /\ latch' = [u \in Underlyings |-> NoLatch]
    BY DEF Stops, Memoryless
  <1>3. /\ task' \in [Threads -> TTask] /\ task'["api"] = Idle /\ task'["loop"] = Idle
        /\ InShape' /\ Claims' /\ Apart'
    BY <1>2, IdleShape
  <1>4. held' \in [Contracts -> Int] /\ Outside'
    <2>1. PICK bought \in SUBSET InFlight({"enter"}), sold \in SUBSET InFlight(Closing) :
              held' = [c \in Contracts |-> held[c] + (IF c \in bought THEN 1 ELSE 0)
                                                   - (IF c \in sold THEN 1 ELSE 0)]
      BY DEF Stops, LastFills
    <2>2. bought \subseteq Traded /\ sold \subseteq Traded
      BY <2>1, InFlightTraded
    <2>3. held \in [Contracts -> Int] /\ Outside
      BY DEF SInv, BooksTyped
    <2>4. held' \in [Contracts -> Int]
      BY <2>1, <2>3
    <2>5. ASSUME NEW c \in Contracts \ Traded PROVE held'[c] = 0
      <3>1. c \notin bought /\ c \notin sold /\ held[c] = 0
        BY <2>2, <2>3, <2>5 DEF Outside
      <3> QED
        BY <2>1, <3>1
    <2> QED
      BY <2>4, <2>5 DEF Outside
  <1>5. NoLatch \in TLatch /\ <<>> \in Seq(TLeg)
    BY EmptySeq DEF NoLatch, TLatch
  <1>6. BooksTyped'
    BY <1>1, <1>2, <1>4, <1>5 DEF SInv, BooksTyped
  <1>7. Types'
    BY <1>1, <1>2, <1>3 DEF SInv, Types
  <1>8. Control'
    BY <1>2, <1>3 DEF Control
  <1>9. Whole'
    BY <1>1, <1>2 DEF SInv, Whole
  <1> QED
    BY <1>3, <1>4, <1>6, <1>7, <1>8, <1>9 DEF SInv

\* A set of rows has a last one.
LEMMA LastOf ==
    ASSUME NEW n \in Nat, NEW ids \in SUBSET (0..n), ids # {}
    PROVE  \E id \in ids : \A other \in ids : other <= id
  <1> DEFINE C == {0..m : m \in {i \in 0..n : ids \subseteq 0..i}}
  <1>1. 0..n \in C
    OBVIOUS
  <1>2. C \subseteq SUBSET (0..n)
    OBVIOUS
  <1>3. IsFiniteSet(0..n)
    BY FS_Interval
  <1>4. PICK T \in C : \A U \in C : U \subseteq T => U = T
    <2> HIDE DEF C
    <2>1. PICK S : S = 0..n
      OBVIOUS
    <2>2. IsFiniteSet(S) /\ C \subseteq SUBSET S /\ C # {}
      BY <1>1, <1>2, <1>3, <2>1
    <2> QED
      BY <2>2, SmallestSubset
  <1>5. PICK m \in 0..n : T = 0..m /\ ids \subseteq 0..m
    BY <1>4
  <1>6. m \in ids
    <2> SUFFICES ASSUME m \notin ids PROVE FALSE
      OBVIOUS
    <2>1. m # 0
      <3>1. PICK id \in ids : id \in 0..m
        BY <1>5
      <3> QED
        BY <3>1
    <2>2. ids \subseteq 0..(m - 1) /\ m - 1 \in 0..n
      BY <1>5, <2>1
    <2>3. 0..(m - 1) \in C
      BY <2>2
    <2>4. 0..(m - 1) \subseteq T /\ 0..(m - 1) # T
      BY <1>5, <2>1
    <2> QED
      BY <1>4, <2>3, <2>4
  <1> QED
    BY <1>5, <1>6

\* A structure that is restored has the legs of its record.
LEMMA RestoredLegs ==
    ASSUME SInv, NEW u \in Underlyings, NEW read, NEW legs, legs = Restored(u, read)
    PROVE  legs \in Seq(TLeg) /\ SymsOf(legs) = legsRec[u] /\ Syms(legs) = ToSet(legsRec[u])
  <1>1. legsRec[u] \in Seq(Traded) /\ rows \subseteq TTicket
    BY DEF SInv, BooksTyped
  <1>2. /\ Len(legsRec[u]) \in Nat /\ DOMAIN legsRec[u] = 1..Len(legsRec[u])
        /\ \A i \in DOMAIN legsRec[u] : legsRec[u][i] \in Traded
    BY <1>1, LenProperties, ElementOfSeq
  <1> DEFINE ids(i) == {r.row : r \in RowsOf(legsRec[u][i]) \cap read}
             row(i) == IF ids(i) = {} THEN 0 ELSE CHOOSE id \in ids(i) : \A other \in ids(i) : other <= id
  <1>3. legs = [i \in DOMAIN legsRec[u] |-> [sym |-> legsRec[u][i], stop |-> FALSE, row |-> row(i)]]
    BY DEF Restored
  <1>4. ASSUME NEW i \in DOMAIN legsRec[u] PROVE row(i) \in 0..MaxEntries
    <2>1. ids(i) \in SUBSET (0..MaxEntries)
      BY <1>1 DEF RowsOf, TTicket
    <2>2. ASSUME ids(i) # {}
          PROVE  \E id \in ids(i) : \A other \in ids(i) : other <= id
      BY <2>1, <2>2, LastOf, RunnerAssumption
    <2> HIDE DEF ids
    <2>3. ASSUME ids(i) # {}
          PROVE  (CHOOSE id \in ids(i) : \A other \in ids(i) : other <= id) \in ids(i)
      BY <2>2, <2>3
    <2> QED
      BY <2>1, <2>3, RunnerAssumption
  <1> HIDE DEF row
  <1>5. \A i \in DOMAIN legsRec[u] : legs[i] \in TLeg /\ legs[i].sym = legsRec[u][i]
    BY <1>2, <1>3, <1>4 DEF TLeg
  <1>6. DOMAIN legs = DOMAIN legsRec[u]
    BY <1>3
  <1>7. legs \in Seq(TLeg)
    <2> DEFINE n == Len(legsRec[u])
    <2>1. n \in Nat /\ legs = [i \in 1..n |-> legs[i]] /\ \A i \in 1..n : legs[i] \in TLeg
      BY <1>2, <1>3, <1>5
    <2> HIDE DEF n
    <2>2. legs \in [1..n -> TLeg]
      BY <2>1
    <2> QED
      BY <2>1, <2>2
  <1>8. SymsOf(legs) = legsRec[u]
    <2>1. SymsOf(legs) = [i \in DOMAIN legsRec[u] |-> legsRec[u][i]]
      BY <1>5, <1>6 DEF SymsOf
    <2> QED
      BY <1>1, <2>1
  <1> QED
    BY <1>7, <1>8, SymsSome

\* A restore leaves the shape.
LEMMA RestoreKeeps ==
    ASSUME SInv, RestoreState, task["loop"] = Idle,
           UNCHANGED <<now, task, killSwitch, exitInFlight, held, stops, rows, legsRec,
                       stratRec, entries>>,
           restarts' \in Nat, process' = "running", ticking' \in BOOLEAN
    PROVE  SInv'
  <1>1. PICK read \in {rows, {}}, loaded \in BOOLEAN :
            /\ book' = book \cup {r.sym : r \in read}
            /\ open' = [u \in Underlyings |->
                   IF loaded /\ legsRec[u] # <<>> THEN Restored(u, read) ELSE open[u]]
            /\ latch' = [u \in Underlyings |->
                   IF loaded /\ stratRec[u] # NoLatch THEN Restore(stratRec[u], latch[u]) ELSE latch[u]]
            /\ faults' \in {faults, faults + 1}
    BY Zenon DEF RestoreState
  <1>2. /\ book \subseteq Traded /\ open \in [Underlyings -> Seq(TLeg)] /\ rows \subseteq TTicket
        /\ latch \in [Underlyings -> TLatch] /\ stratRec \in [Underlyings -> TLatch] /\ faults \in Nat
    BY DEF SInv, BooksTyped
  <1>3. book' \subseteq Traded
    BY <1>1, <1>2 DEF TTicket
  <1>4. ASSUME NEW u \in Underlyings
        PROVE  /\ open'[u] \in Seq(TLeg)
               /\ open'[u] # <<>> => Syms(open'[u]) = LegSet(u)
    <2>1. CASE loaded /\ legsRec[u] # <<>>
      <3>1. open'[u] = Restored(u, read)
        BY <1>1, <2>1
      <3>2. PICK legs : legs = Restored(u, read)
        OBVIOUS
      <3>3. legs \in Seq(TLeg) /\ Syms(legs) = ToSet(legsRec[u])
        BY <3>2, RestoredLegs
      <3> QED
        BY <2>1, <3>1, <3>2, <3>3 DEF SInv, Whole
    <2>2. CASE ~(loaded /\ legsRec[u] # <<>>)
      <3>1. open'[u] = open[u]
        BY <1>1, <2>2
      <3> QED
        BY <1>2, <3>1 DEF SInv, Whole
    <2> QED
      BY <2>1, <2>2
  <1>5. open' \in [Underlyings -> Seq(TLeg)]
    <2>1. open' = [u \in Underlyings |-> open'[u]]
      BY <1>1
    <2> QED
      BY <1>4, <2>1
  <1>6. latch' \in [Underlyings -> TLatch]
    <2>1. \A l, m \in TLatch : Restore(l, m) \in TLatch
      BY DEF Restore, TLatch
    <2>2. \A u \in Underlyings : latch'[u] \in TLatch
      BY <1>1, <1>2, <2>1
    <2>3. latch' = [u \in Underlyings |-> latch'[u]]
      BY <1>1
    <2> QED
      BY <2>2, <2>3
  <1>7. BooksTyped' /\ Outside'
    BY <1>1, <1>2, <1>3, <1>5, <1>6 DEF SInv, BooksTyped, Outside
  <1>8. Whole'
    BY <1>4 DEF SInv, Whole
  <1>9. Types'
    BY DEF SInv, Types
  <1>10. InShape' /\ Claims' /\ Apart'
    BY IdleTyped DEF SInv, InShape, Claims, Apart, Enters
  <1>11. Control'
    BY DEF SInv, Control, Running
  <1> QED
    BY <1>7, <1>8, <1>9, <1>10, <1>11 DEF SInv

\* A start and the second restore find the loop idle.
LEMMA StartKeeps ==
    ASSUME SInv, (\E acceptReconcile \in BOOLEAN : Start(acceptReconcile)) \/ RestoreAgain
    PROVE  SInv' /\ task["loop"] = Idle /\ task' = task
  <1>1. CASE \E acceptReconcile \in BOOLEAN : Start(acceptReconcile)
    <2>1. /\ ~Running /\ process' = "running" /\ RestoreState /\ restarts' = restarts + 1
          /\ UNCHANGED <<ticking, now, task, killSwitch, exitInFlight, held, stops, rows, legsRec,
                         stratRec, entries>>
      BY <1>1 DEF Start, control, durable
    <2>2. task["loop"] = Idle
      BY <2>1 DEF SInv, Control
    <2>3. restarts' \in Nat /\ ticking' \in BOOLEAN
      BY <2>1 DEF SInv, Types, BooksTyped
    <2> QED
      BY <2>1, <2>2, <2>3, RestoreKeeps
  <1>2. CASE RestoreAgain
    <2>1. /\ Running /\ ~ticking /\ ticking' = TRUE /\ process' = process /\ RestoreState
          /\ UNCHANGED <<now, task, killSwitch, exitInFlight, held, stops, rows, legsRec,
                         stratRec, entries, restarts>>
      BY <1>2 DEF RestoreAgain, control, durable, exchange
    <2>2. task["loop"] = Idle
      BY <2>1 DEF SInv, Control
    <2>3. restarts' \in Nat /\ process' = "running"
      BY <2>1 DEF SInv, BooksTyped, Running
    <2> QED
      BY <2>1, <2>2, <2>3, RestoreKeeps
  <1> QED
    BY <1>1, <1>2

\* A stop order that fires, the clock, a pause, and nothing.
LEMMA WorldKeeps ==
    ASSUME SInv, (\E ticket \in stops : StopFires(ticket)) \/ Clock \/ Pause \/ Resume \/ UNCHANGED vars
    PROVE  SInv'
  <1>1. /\ UNCHANGED <<process, ticking, task, killSwitch, book, exitInFlight, open, latch, rows,
                       legsRec, stratRec, entries, restarts, faults>>
        /\ now' = now \/ (now < Horizon /\ now' = now + 1)
        /\ stops' \subseteq stops
        /\ held' = held \/ \E ticket \in stops : held' = [held EXCEPT ![ticket.sym] = @ - 1]
    BY DEF StopFires, Clock, Pause, Resume, Called, vars, control, memory, durable, exchange, bounds
  <1>2. now' \in Instants
    BY <1>1, NineTwentyAssumption DEF SInv, Types, Instants
  <1>3. held' \in [Contracts -> Int] /\ Outside'
    BY <1>1, TradedFacts DEF SInv, BooksTyped, Outside, TTicket
  <1>4. Types' /\ BooksTyped'
    BY <1>1, <1>2, <1>3 DEF SInv, Types, BooksTyped
  <1>5. Whole' /\ Claims' /\ Apart' /\ InShape'
    BY <1>1 DEF SInv, Whole, Claims, Apart, InShape
  <1>6. Control'
    BY <1>1 DEF SInv, Control, Running
  <1> QED
    BY <1>3, <1>4, <1>5, <1>6 DEF SInv

-----------------------------------------------------------------------------
(***************************************************************************)
(* The kinds of steps, and the shape for good.                             *)
(***************************************************************************)
\* What a goroutine does within a call sequence.
Works(t) ==
    \/ ClaimLeg(t) \/ ClaimRefused(t) \/ ExitFills(t) \/ ExitFails(t) \/ LegsClosed(t)
    \/ Untrack(t) \/ ClearStructure(t) \/ ExitConfirmed(t)
    \/ t = "loop" /\ (\/ ValidateLeg \/ RefuseLeg \/ OpenLeg
                      \/ EntryFills \/ EntryRejected \/ EntryUnknown
                      \/ TrackStructure \/ PersistStructure \/ EntryConfirmed)

Begins == (\E acceptReconcile \in BOOLEAN : Start(acceptReconcile)) \/ RestoreAgain
Rests == Pause \/ Resume \/ UNCHANGED vars
Fires == \E ticket \in stops : StopFires(ticket)

\* Every step is of a kind.
LEMMA Kinds ==
    ASSUME SInv, [Next]_vars
    PROVE  \/ \E t \in Threads : Walks(t) \/ Works(t)
           \/ Stops \/ Begins \/ Fires \/ Clock \/ Rests
  <1>1. ASSUME NEW t \in Threads, Step(t)
        PROVE  Walks(t) \/ Works(t) \/ Stops
    <2>1. CASE Flatten(t)
      BY <2>1, RestWalks, FlattenStructureWalks, ContractWalks DEF Flatten
    <2>2. CASE Close(t)
      BY <2>2 DEF Close, Works
    <2>3. CASE NextJob(t)
      BY <2>3, NextJobWalks
    <2>4. CASE t = "loop" /\ Tick
      BY <2>4, TickWalks
    <2>5. CASE t = "loop" /\ Watch
      BY <2>5, RestWalks, WatchStructureWalks, ContractWalks DEF Watch
    <2>6. CASE t = "loop" /\ Evaluation
      BY <2>6, EvaluateWalks DEF Evaluation
    <2>7. CASE t = "loop" /\ Enter
      BY <2>7 DEF Enter, Works
    <2>8. CASE t = "loop" /\ Verify
      BY <2>8, VerifyWalks
    <2> QED
      BY <1>1, <2>1, <2>2, <2>3, <2>4, <2>5, <2>6, <2>7, <2>8 DEF Step
  <1>2. "loop" \in Threads /\ "api" \in Threads
    BY DEF Threads
  <1>3. KillAndFlatten => Walks("api")
    BY KillWalks
  <1>4. Shutdown => Walks("loop")
    BY ShutdownWalks
  <1>5. Crash => Stops
    BY DEF Crash, Stops
  <1> QED
    BY <1>1, <1>2, <1>3, <1>4, <1>5 DEF Next, Begins, Rests, Fires

\* What a goroutine does within a call sequence keeps the shape.
LEMMA WorksKeeps ==
    ASSUME SInv, NEW t \in Threads, Works(t)
    PROVE  SInv'
  <1>1. CASE ClaimLeg(t) \/ ClaimRefused(t) \/ ExitFills(t) \/ ExitFails(t)
    BY <1>1, ClaimLegKeeps, ClaimRefusedKeeps, ExitFillsKeeps, ExitFailsKeeps
  <1>2. CASE LegsClosed(t) \/ Untrack(t) \/ ClearStructure(t) \/ ExitConfirmed(t)
    BY <1>2, LegsClosedKeeps, UntrackKeeps, ClearKeeps, ConfirmedKeeps
  <1>3. CASE ValidateLeg \/ RefuseLeg \/ OpenLeg
    BY <1>3, ValidateLegKeeps, RefuseLegKeeps, OpenLegKeeps
  <1>4. CASE EntryFills \/ EntryRejected \/ EntryUnknown
    BY <1>4, EntryFillsKeeps, EntryRejectedKeeps, EntryUnknownKeeps
  <1>5. CASE TrackStructure \/ PersistStructure
    BY <1>5, TrackStructureKeeps, PersistKeeps
  <1>6. CASE t = "loop" /\ EntryConfirmed
    BY <1>6, ConfirmedKeeps
  <1> QED
    BY <1>1, <1>2, <1>3, <1>4, <1>5, <1>6 DEF Works

\* The first start has the shape.
LEMMA InitShape == Init => SInv
  <1> SUFFICES ASSUME Init PROVE SInv
    OBVIOUS
  <1>1. /\ process = "running" /\ ticking = TRUE /\ now = 0 /\ task = [t \in Threads |-> Idle]
        /\ killSwitch = FALSE /\ book = {} /\ exitInFlight = {}
        /\ open = [u \in Underlyings |-> <<>>] /\ latch = [u \in Underlyings |-> NoLatch]
        /\ rows = {} /\ legsRec = [u \in Underlyings |-> <<>>]
        /\ stratRec = [u \in Underlyings |-> NoLatch]
        /\ held = [c \in Contracts |-> 0] /\ stops = {}
        /\ entries = 0 /\ restarts = 0 /\ faults = 0
    BY DEF Init, FirstStart
  <1>2. Types
    <2>1. 0 \in Instants
      BY NineTwentyAssumption DEF Instants
    <2>2. task \in [Threads -> TTask]
      BY <1>1, IdleTyped
    <2> QED
      BY <1>1, <2>1, <2>2 DEF Types
  <1>3. BooksTyped
    <2>1. NoLatch \in TLatch /\ <<>> \in Seq(TLeg) /\ <<>> \in Seq(Traded)
      BY EmptySeq DEF NoLatch, TLatch
    <2>2. IsFiniteSet({})
      BY FS_EmptySet
    <2>3. 0 \in 0..MaxEntries
      BY RunnerAssumption
    <2> QED
      BY <1>1, <2>1, <2>2, <2>3 DEF BooksTyped
  <1>4. \A t \in Threads : task[t] = Idle
    BY <1>1
  <1>5. InShape /\ Claims /\ Apart
    BY <1>4, IdleTyped DEF InShape, Shaped, Claims, Apart, Closes, Enters, Closing, Threads
  <1>6. Whole /\ Control /\ Outside
    BY <1>1, <1>4 DEF Whole, Control, Outside, Running, Threads
  <1> QED
    BY <1>2, <1>3, <1>5, <1>6 DEF SInv

\* Every step keeps the shape.
LEMMA ShapeStep == SInv /\ [Next]_vars => SInv'
  <1> SUFFICES ASSUME SInv, [Next]_vars PROVE SInv'
    OBVIOUS
  <1> QED
    BY Kinds, WalkKeeps, WorksKeeps, StopsKeeps, StartKeeps, WorldKeeps DEF Begins, Fires, Rests

\* What the goroutines and the books look like, in every state: nobody exits
\* what another goroutine is exiting, nothing is entered that is tracked, and a
\* structure is tracked and recorded with all its legs.
THEOREM ShapeKept == Spec => []SInv
  BY InitShape, ShapeStep, PTL DEF Spec

-----------------------------------------------------------------------------
(***************************************************************************)
(* What a call sequence's steps leave alone, and what the loop's steps do  *)
(* while the API's goroutine has nothing to do.                            *)
(***************************************************************************)
\* A step within a call sequence leaves the process to itself.
LEMMA WorksFacts ==
    ASSUME SInv, NEW t \in Threads, Works(t)
    PROVE  /\ Running /\ Running' /\ task[t].act # "none"
           /\ UNCHANGED <<process, ticking, now, killSwitch, restarts>>
           /\ faults' = 0 => faults = 0
           /\ ~killSwitch => t = "loop"
  <1>1. Running /\ task[t].act # "none"
    BY DEF Works, ClaimLeg, ClaimRefused, ExitFills, ExitFails, LegsClosed, Untrack, ClearStructure,
           ExitConfirmed, ValidateLeg, RefuseLeg, OpenLeg, EntryFills, EntryRejected, EntryUnknown,
           TrackStructure, PersistStructure, EntryConfirmed, Closing, In
  <1>2. UNCHANGED <<process, ticking, now, killSwitch>>
    BY DEF Works, ClaimLeg, ClaimRefused, ExitFills, ExitFails, LegsClosed, Untrack, ClearStructure,
           ExitConfirmed, ValidateLeg, RefuseLeg, OpenLeg, EntryFills, EntryRejected, EntryUnknown,
           TrackStructure, PersistStructure, EntryConfirmed, control
  <1>3. restarts' = restarts /\ (faults' = 0 => faults = 0)
    <2>1. UNCHANGED bounds \/ Unknown \/ StoreFails \/ ValidateLeg
      BY DEF Works, ClaimLeg, ClaimRefused, ExitFills, ExitFails, LegsClosed, Untrack, ClearStructure,
             ExitConfirmed, RefuseLeg, OpenLeg, EntryFills, EntryRejected, EntryUnknown,
             TrackStructure, PersistStructure, EntryConfirmed, SaveLatches
    <2>2. faults \in Nat
      BY DEF SInv, BooksTyped
    <2> QED
      BY <2>1, <2>2 DEF bounds, Unknown, StoreFails, ValidateLeg
  <1>4. ~killSwitch => t = "loop"
    BY <1>1, Busy DEF Threads
  <1> QED
    BY <1>1, <1>2, <1>3, <1>4 DEF Running

\* An entry is validated.
LEMMA ValidateLegDoes ==
    ASSUME SInv, ValidateLeg, NEW k, k = task["loop"]
    PROVE  /\ k \in TTask /\ k.act = "enter" /\ k.at = "ready" /\ k.legs # <<>> /\ ~killSwitch
           /\ \E n : /\ Moves("loop", n) /\ GoesOn(k, n)
                     /\ n.act = "enter" /\ n.at = "open" /\ n.u = k.u /\ n.done = k.done
                     /\ n.legs # <<>> /\ Syms(n.legs) = Syms(k.legs)
                     /\ Head(n.legs).sym = Head(k.legs).sym
           /\ UNCHANGED <<book, held, open, legsRec, latch, alerted, excused>>
  <1>1. UNCHANGED <<book, held, open, legsRec, latch, alerted, excused>>
    BY DEF ValidateLeg, memory, durable, exchange, history
  <1> QED
    BY <1>1, ValidateLegMoves

\* A leg is refused.
LEMMA RefuseLegDoes ==
    ASSUME SInv, RefuseLeg, NEW k, k = task["loop"]
    PROVE  /\ k \in TTask /\ k.act = "enter" /\ k.at = "ready" /\ k.legs # <<>>
           /\ \E n : /\ Moves("loop", n) /\ GoesOn(k, n)
                     /\ n.act = "unwind" /\ n.at = "ready" /\ n.u = k.u /\ n.legs = k.done
           /\ UNCHANGED <<book, held, open, legsRec, latch, alerted, excused>>
  <1>1. UNCHANGED <<book, held, open, legsRec, latch, alerted, excused>>
    BY DEF RefuseLeg, memory, durable, exchange, history
  <1>2. Running /\ k.act = "enter" /\ k.at = "ready" /\ k.legs # <<>>
    BY InFacts DEF RefuseLeg, Threads
  <1>3. task' = [task EXCEPT !["loop"] = Unwind(k)]
    BY DEF RefuseLeg, Put
  <1> QED
    BY <1>1, <1>2, <1>3, UnwindMoves

\* The position of a leg is opened.
LEMMA OpenLegDoes ==
    ASSUME SInv, OpenLeg, NEW k, k = task["loop"]
    PROVE  /\ k \in TTask /\ k.act = "enter" /\ k.at = "open" /\ k.legs # <<>>
           /\ \E n : /\ Moves("loop", n) /\ GoesOn(k, n)
                     /\ n.act = "enter" /\ n.at = "sent" /\ n.u = k.u /\ n.done = k.done
                     /\ n.legs = k.legs
           /\ book' = book \cup {Head(k.legs).sym}
           /\ UNCHANGED <<held, open, legsRec, latch, alerted, excused>>
  <1>1. UNCHANGED <<held, open, legsRec, latch, alerted, excused>>
    BY DEF OpenLeg, durable, exchange, history
  <1>2. k \in TTask /\ k.act = "enter" /\ k.at = "open" /\ Shaped("loop", k)
    BY InFacts DEF OpenLeg, Threads
  <1>3. k.legs # <<>>
    BY <1>2 DEF Shaped
  <1>4. Put("loop", AtStage(k, "sent"))
    BY DEF OpenLeg, AtStage
  <1>5. book' = book \cup {Head(k.legs).sym}
    BY DEF OpenLeg, Sym, Leg1
  <1> QED
    BY <1>1, <1>2, <1>3, <1>4, <1>5, StageMoves DEF Threads

\* An entry is filled.
LEMMA EntryFillsDoes ==
    ASSUME SInv, EntryFills, NEW k, k = task["loop"]
    PROVE  /\ k \in TTask /\ k.act = "enter" /\ k.at = "sent" /\ k.legs # <<>>
           /\ \E n : /\ Moves("loop", n) /\ GoesOn(k, n)
                     /\ n.act = "enter" /\ n.at = "ready" /\ n.u = k.u /\ n.legs = Tail(k.legs)
                     /\ Syms(n.done) = Syms(k.done) \cup {Head(k.legs).sym} /\ n.done # <<>>
           /\ held' = [held EXCEPT ![Head(k.legs).sym] = @ + 1]
           /\ UNCHANGED <<book, open, legsRec, latch, alerted, excused>>
  <1>1. UNCHANGED <<book, open, legsRec, latch, alerted, excused>>
    BY DEF EntryFills, memory, history
  <1>2. held' = [held EXCEPT ![Head(k.legs).sym] = @ + 1]
    BY DEF EntryFills, Sym, Leg1
  <1> QED
    BY <1>1, <1>2, EntryFillsMoves

\* An entry is rejected.
LEMMA EntryRejectedDoes ==
    ASSUME SInv, EntryRejected, NEW k, k = task["loop"]
    PROVE  /\ k \in TTask /\ k.act = "enter" /\ k.at = "sent" /\ k.legs # <<>>
           /\ \E n : /\ Moves("loop", n) /\ GoesOn(k, n)
                     /\ n.act = "unwind" /\ n.at = "ready" /\ n.u = k.u /\ n.legs = k.done
           /\ book' = book \ {Head(k.legs).sym}
           /\ UNCHANGED <<held, open, legsRec, latch, alerted, excused>>
  <1>1. UNCHANGED <<held, open, legsRec, latch, alerted, excused>>
    BY DEF EntryRejected, durable, exchange, history
  <1>2. Running /\ k \in TTask /\ k.act = "enter" /\ k.at = "sent" /\ Shaped("loop", k)
    BY InFacts DEF EntryRejected, Threads
  <1>3. k.legs # <<>>
    BY <1>2 DEF Shaped
  <1>4. task' = [task EXCEPT !["loop"] = Unwind(k)]
    BY DEF EntryRejected, Put
  <1>5. book' = book \ {Head(k.legs).sym}
    BY DEF EntryRejected, Sym, Leg1
  <1> QED
    BY <1>1, <1>2, <1>3, <1>4, <1>5, UnwindMoves

\* An entry's outcome stays unknown.
LEMMA EntryUnknownDoes ==
    ASSUME SInv, EntryUnknown, NEW k, k = task["loop"]
    PROVE  /\ k \in TTask /\ k.act = "enter" /\ k.at = "sent" /\ k.legs # <<>>
           /\ \E n : /\ Moves("loop", n) /\ GoesOn(k, n)
                     /\ n.act = "unwind" /\ n.at = "ready" /\ n.u = k.u /\ n.legs = k.done
           /\ \E filled \in {0, 1} : held' = [held EXCEPT ![Head(k.legs).sym] = @ + filled]
           /\ alerted' = alerted \cup {Head(k.legs).sym}
           /\ UNCHANGED <<book, open, legsRec, latch, excused>>
  <1>1. k \in TTask /\ Shaped("loop", k) /\ k.legs # <<>>
    BY InFacts DEF EntryUnknown, Threads, Shaped
  <1> QED
    BY <1>1, EntryUnknownBooks, UnwindMoves

\* A structure is tracked.
LEMMA TrackStructureDoes ==
    ASSUME SInv, TrackStructure, NEW k, k = task["loop"]
    PROVE  /\ k \in TTask /\ k.act = "enter" /\ k.at = "ready" /\ k.legs = <<>>
           /\ k.u \in Underlyings /\ Syms(k.done) = LegSet(k.u) /\ k.done # <<>>
           /\ \E n : /\ Moves("loop", n) /\ GoesOn(k, n)
                     /\ n.act = "enter" /\ n.at = "record" /\ n.u = k.u /\ n.done = k.done
                     /\ n.legs = k.legs
           /\ open' = [open EXCEPT ![k.u] = k.done]
           /\ UNCHANGED <<book, held, legsRec, latch, alerted, excused>>
  <1>1. UNCHANGED <<book, held, legsRec, latch, alerted, excused>>
    BY DEF TrackStructure, durable, exchange, history
  <1>2. k \in TTask /\ k.act = "enter" /\ k.at = "ready" /\ Shaped("loop", k) /\ k.legs = <<>>
    BY InFacts DEF TrackStructure, Threads
  <1>3. k.u \in Underlyings /\ Syms(k.done) = LegSet(k.u)
    BY <1>2, SymsNone DEF Shaped
  <1>4. k.done # <<>>
    BY <1>3, SymsNone, LegsSome
  <1>5. Put("loop", AtStage(k, "record"))
    BY DEF TrackStructure, AtStage
  <1>6. open' = [open EXCEPT ![k.u] = k.done]
    BY DEF TrackStructure
  <1> QED
    BY <1>1, <1>2, <1>3, <1>4, <1>5, <1>6, StageMoves DEF Threads

\* A structure that is entered is recorded, or its legs are excused.
LEMMA PersistDoes ==
    ASSUME SInv, PersistStructure, NEW k, k = task["loop"]
    PROVE  /\ k \in TTask /\ k.act = "enter" /\ k.at = "record" /\ k.legs = <<>>
           /\ k.u \in Underlyings /\ Syms(k.done) = LegSet(k.u)
           /\ \E n : /\ Moves("loop", n) /\ GoesOn(k, n)
                     /\ n.act = "enter" /\ n.at = "confirm" /\ n.u = k.u /\ n.done = k.done
                     /\ n.legs = k.legs
           /\ \/ /\ legsRec' = [legsRec EXCEPT ![k.u] = SymsOf(k.done)] /\ SymsOf(k.done) # <<>>
                 /\ excused' = excused
              \/ /\ legsRec' = legsRec /\ faults' # 0
                 /\ excused' = excused \cup LegSet(k.u)
           /\ UNCHANGED <<book, held, open, latch, alerted>>
  <1>1. UNCHANGED <<book, held, open, latch, alerted>>
    BY DEF PersistStructure, memory, exchange
  <1>2. k \in TTask /\ k.act = "enter" /\ k.at = "record" /\ Shaped("loop", k)
    BY InFacts DEF PersistStructure, Threads
  <1>3. k.u \in Underlyings /\ Syms(k.done) = LegSet(k.u) /\ k.legs = <<>>
    BY <1>2, SymsNone DEF Shaped
  <1>4. k.done \in Seq(TLeg)
    BY <1>2, TaskFields
  <1>5. ToSet(SymsOf(k.done)) = LegSet(k.u)
    BY <1>3, <1>4, SymsSome
  <1>6. SymsOf(k.done) # <<>>
    <2>1. ToSet(<<>>) = {}
      BY DEF ToSet
    <2> QED
      BY <1>3, <1>5, <2>1, LegsSome
  <1>7. Put("loop", AtStage(k, "confirm"))
    BY DEF PersistStructure, AtStage
  <1>8. \/ legsRec' = [legsRec EXCEPT ![k.u] = SymsOf(k.done)] /\ excused' = excused
        \/ /\ legsRec' = legsRec /\ faults' # 0
           /\ excused' = excused \cup LegSet(k.u)
    <2>1. faults \in Nat
      BY DEF SInv, BooksTyped
    <2> QED
      BY <1>5, <2>1 DEF PersistStructure, StoreFails
  <1> QED
    BY <1>1, <1>2, <1>3, <1>6, <1>7, <1>8, StageMoves DEF Threads

\* The strategy is told of an entry.
LEMMA EntryConfirmedDoes ==
    ASSUME SInv, EntryConfirmed, NEW k, k = task["loop"]
    PROVE  /\ k \in TTask /\ k.act = "enter" /\ k.at = "confirm" /\ k.u \in Underlyings
           /\ \E n : Moves("loop", n) /\ GoesOn(k, n) /\ n.act = "none"
           /\ latch' = IF Latched THEN [latch EXCEPT ![k.u] = ConfirmEntry(@)] ELSE latch
           /\ UNCHANGED <<book, held, open, legsRec, alerted, excused>>
  <1>1. UNCHANGED <<book, held, open, legsRec, alerted, excused>>
    BY DEF EntryConfirmed, exchange, history
  <1>2. k \in TTask /\ k.act = "enter" /\ k.at = "confirm" /\ k.u \in Underlyings
    BY InFacts DEF EntryConfirmed, Threads, Shaped
  <1>3. Put("loop", Ended(k))
    BY DEF EntryConfirmed
  <1>4. latch' = IF Latched THEN [latch EXCEPT ![k.u] = ConfirmEntry(@)] ELSE latch
    BY DEF EntryConfirmed
  <1> QED
    BY <1>1, <1>2, <1>3, <1>4, EndedMoves DEF Threads

\* A leg's exit is claimed.
LEMMA ClaimLegDoes ==
    ASSUME SInv, NEW t \in Threads, ClaimLeg(t), NEW k, k = task[t]
    PROVE  /\ k \in TTask /\ k.act \in Closing /\ k.at = "ready" /\ k.legs # <<>>
           /\ \E n : /\ Moves(t, n) /\ GoesOn(k, n)
                     /\ n.act = k.act /\ n.at = "sent" /\ n.u = k.u /\ n.done = k.done
                     /\ n.legs = k.legs /\ n.ok = k.ok
           /\ Head(k.legs).sym \in book /\ Head(k.legs).sym \notin exitInFlight
           /\ excused' = excused \/ excused' = excused \cup {Head(k.legs).sym}
           /\ Head(k.legs).sym \in excused' \/ ~Entering(t, Head(k.legs).sym)
           /\ UNCHANGED <<book, held, open, legsRec, latch, alerted>>
  <1>1. UNCHANGED <<book, held, open, legsRec, latch, alerted>>
    BY DEF ClaimLeg, durable
  <1>2. k \in TTask /\ k.act \in Closing /\ k.at = "ready" /\ k.legs # <<>>
    BY ClosingFacts DEF ClaimLeg
  <1>3. Put(t, AtStage(k, "sent"))
    BY DEF ClaimLeg, AtStage
  <1>4. /\ Head(k.legs).sym \in book /\ Head(k.legs).sym \notin exitInFlight
        /\ excused' = excused \/ excused' = excused \cup {Head(k.legs).sym}
        /\ Head(k.legs).sym \in excused' \/ ~Entering(t, Head(k.legs).sym)
    BY DEF ClaimLeg, Sym, Leg1
  <1> QED
    BY <1>1, <1>2, <1>3, <1>4, StageMoves

\* It is refused, and alerted.
LEMMA ClaimRefusedDoes ==
    ASSUME SInv, NEW t \in Threads, ClaimRefused(t), NEW k, k = task[t]
    PROVE  /\ k \in TTask /\ k.act \in Closing /\ k.at = "ready" /\ k.legs # <<>>
           /\ \E n : /\ Moves(t, n) /\ GoesOn(k, n)
                     /\ n.act = k.act /\ n.at = "ready" /\ n.u = k.u /\ n.done = k.done
                     /\ n.legs = Tail(k.legs) /\ ~n.ok
           /\ alerted' = alerted \cup {Head(k.legs).sym}
           /\ UNCHANGED <<book, held, open, legsRec, latch, excused>>
  <1>1. UNCHANGED <<book, held, open, legsRec, latch, excused>>
    BY DEF ClaimRefused, memory, durable
  <1>2. k \in TTask /\ k.act \in Closing /\ k.at = "ready" /\ k.legs # <<>>
    BY ClosingFacts DEF ClaimRefused
  <1>3. PICK ok \in BOOLEAN : ok = FALSE
    OBVIOUS
  <1>4. Put(t, NextLeg(k, ok))
    BY <1>3 DEF ClaimRefused
  <1>5. alerted' = alerted \cup {Head(k.legs).sym}
    BY DEF ClaimRefused, Sym, Leg1
  <1>6. \E n : /\ Moves(t, n) /\ GoesOn(k, n)
               /\ n.act = k.act /\ n.at = "ready" /\ n.u = k.u /\ n.done = k.done
               /\ n.legs = Tail(k.legs) /\ n.ok = (k.ok /\ ok)
    BY <1>2, <1>4, NextLegMoves
  <1>7. \E n : /\ Moves(t, n) /\ GoesOn(k, n)
               /\ n.act = k.act /\ n.at = "ready" /\ n.u = k.u /\ n.done = k.done
               /\ n.legs = Tail(k.legs) /\ ~n.ok
    BY <1>3, <1>6
  <1> QED
    BY <1>1, <1>2, <1>5, <1>7

\* An exit is filled.
LEMMA ExitFillsDoes ==
    ASSUME SInv, NEW t \in Threads, ExitFills(t), NEW k, k = task[t]
    PROVE  /\ k \in TTask /\ k.act \in Closing /\ k.at = "sent" /\ k.legs # <<>>
           /\ \E n : /\ Moves(t, n) /\ GoesOn(k, n)
                     /\ n.act = k.act /\ n.at = "ready" /\ n.u = k.u /\ n.done = k.done
                     /\ n.legs = Tail(k.legs) /\ n.ok = k.ok
           /\ held' = [held EXCEPT ![Head(k.legs).sym] = @ - 1]
           /\ book' = book \ {Head(k.legs).sym}
           /\ UNCHANGED <<open, legsRec, latch, alerted, excused>>
  <1>1. UNCHANGED <<open, legsRec, latch, alerted, excused>>
    BY DEF ExitFills, history
  <1>2. k \in TTask /\ k.act \in Closing /\ k.at = "sent" /\ k.legs # <<>>
    BY ClosingFacts DEF ExitFills
  <1>3. PICK ok \in BOOLEAN : ok = TRUE
    OBVIOUS
  <1>4. Put(t, NextLeg(k, ok))
    BY <1>3 DEF ExitFills
  <1>5. held' = [held EXCEPT ![Head(k.legs).sym] = @ - 1] /\ book' = book \ {Head(k.legs).sym}
    BY DEF ExitFills, Sym, Leg1
  <1>6. PICK n : /\ Moves(t, n) /\ GoesOn(k, n)
                 /\ n.act = k.act /\ n.at = "ready" /\ n.u = k.u /\ n.done = k.done
                 /\ n.legs = Tail(k.legs) /\ n.ok = (k.ok /\ ok)
    BY <1>2, <1>4, NextLegMoves
  <1>7. n.ok = k.ok
    BY <1>2, <1>3, <1>6, TaskFields
  <1> QED
    BY <1>1, <1>2, <1>5, <1>6, <1>7

\* An exit fails, and is alerted.
LEMMA ExitFailsDoes ==
    ASSUME SInv, NEW t \in Threads, ExitFails(t), NEW k, k = task[t]
    PROVE  /\ k \in TTask /\ k.act \in Closing /\ k.at = "sent" /\ k.legs # <<>>
           /\ \E n : /\ Moves(t, n) /\ GoesOn(k, n)
                     /\ n.act = k.act /\ n.at = "ready" /\ n.u = k.u /\ n.done = k.done
                     /\ n.legs = Tail(k.legs) /\ ~n.ok
           /\ \E filled \in {0, 1} : held' = [held EXCEPT ![Head(k.legs).sym] = @ - filled]
           /\ alerted' = alerted \cup {Head(k.legs).sym}
           /\ UNCHANGED <<book, open, legsRec, latch, excused>>
  <1>1. /\ In(t, Closing, "sent") /\ Put(t, NextLeg(task[t], FALSE))
        /\ \E filled \in {0, 1} : held' = [held EXCEPT ![Sym(t)] = @ - filled]
        /\ alerted' = alerted \cup {Sym(t)}
        /\ UNCHANGED <<book, open, legsRec, latch, excused>>
    BY ExitFailsBooks
  <1>2. k \in TTask /\ k.act \in Closing /\ k.at = "sent" /\ k.legs # <<>> /\ Sym(t) = Head(k.legs).sym
    BY <1>1, ClosingFacts
  <1>3. PICK ok \in BOOLEAN : ok = FALSE
    OBVIOUS
  <1>4. Put(t, NextLeg(k, ok))
    BY <1>1, <1>3
  <1>5. \E n : /\ Moves(t, n) /\ GoesOn(k, n)
               /\ n.act = k.act /\ n.at = "ready" /\ n.u = k.u /\ n.done = k.done
               /\ n.legs = Tail(k.legs) /\ n.ok = (k.ok /\ ok)
    BY <1>2, <1>4, NextLegMoves
  <1>6. \E n : /\ Moves(t, n) /\ GoesOn(k, n)
               /\ n.act = k.act /\ n.at = "ready" /\ n.u = k.u /\ n.done = k.done
               /\ n.legs = Tail(k.legs) /\ ~n.ok
    BY <1>3, <1>5
  <1> QED
    BY <1>1, <1>2, <1>6

\* A single contract or the unwinding is through.
LEMMA LegsClosedDoes ==
    ASSUME SInv, NEW t \in Threads, LegsClosed(t), NEW k, k = task[t]
    PROVE  /\ k \in TTask /\ k.act \in {"unwind", "single"} /\ k.at = "ready" /\ k.legs = <<>>
           /\ \E n : Moves(t, n) /\ GoesOn(k, n) /\ n.act = "none"
           /\ UNCHANGED <<book, held, open, legsRec, latch, alerted, excused>>
  <1>1. UNCHANGED <<book, held, open, legsRec, latch, alerted, excused>>
    BY DEF LegsClosed, memory, durable, exchange, history
  <1>2. k \in TTask /\ k.act \in {"unwind", "single"} /\ k.at = "ready" /\ k.legs = <<>>
    BY InFacts DEF LegsClosed
  <1>3. Put(t, Ended(k))
    BY DEF LegsClosed
  <1> QED
    BY <1>1, <1>2, <1>3, EndedMoves

\* A structure all of whose legs closed is forgotten.
LEMMA UntrackDoes ==
    ASSUME SInv, NEW t \in Threads, Untrack(t), NEW k, k = task[t]
    PROVE  /\ k \in TTask /\ k.act = "exit" /\ k.at = "ready" /\ k.legs = <<>> /\ k.u \in Underlyings
           /\ \E n : /\ Moves(t, n) /\ GoesOn(k, n)
                     /\ n.act = "exit" /\ n.u = k.u /\ n.legs = k.legs /\ n.done = k.done
                     /\ n.ok = k.ok
                     /\ \/ k.ok /\ n.at = "record" /\ open' = [open EXCEPT ![k.u] = <<>>]
                        \/ ~k.ok /\ n.at = "confirm" /\ open' = open
           /\ UNCHANGED <<book, held, legsRec, latch, alerted, excused>>
  <1>1. UNCHANGED <<book, held, legsRec, latch, alerted, excused>>
    BY DEF Untrack, durable, exchange, history
  <1>2. k \in TTask /\ k.act = "exit" /\ k.at = "ready" /\ k.legs = <<>> /\ k.u \in Underlyings
    BY InFacts DEF Untrack, Shaped
  <1>3. \/ k.ok /\ Put(t, AtStage(k, "record")) /\ open' = [open EXCEPT ![k.u] = <<>>]
        \/ ~k.ok /\ Put(t, AtStage(k, "confirm")) /\ open' = open
    BY DEF Untrack, AtStage
  <1>4. PICK at \in {"record", "confirm"} :
            /\ Put(t, AtStage(k, at))
            /\ \/ k.ok /\ at = "record" /\ open' = [open EXCEPT ![k.u] = <<>>]
               \/ ~k.ok /\ at = "confirm" /\ open' = open
    BY <1>3
  <1> QED
    BY <1>1, <1>2, <1>4, StageMoves

\* Its record is cleared.
LEMMA ClearDoes ==
    ASSUME SInv, NEW t \in Threads, ClearStructure(t), NEW k, k = task[t]
    PROVE  /\ k \in TTask /\ k.act = "exit" /\ k.at = "record" /\ k.legs = <<>> /\ k.u \in Underlyings
           /\ \E n : /\ Moves(t, n) /\ GoesOn(k, n)
                     /\ n.act = "exit" /\ n.at = "confirm" /\ n.u = k.u /\ n.legs = k.legs
                     /\ n.done = k.done /\ n.ok = k.ok
           /\ \/ legsRec' = [legsRec EXCEPT ![k.u] = <<>>]
              \/ legsRec' = legsRec /\ faults' # 0
           /\ UNCHANGED <<book, held, open, latch, alerted, excused>>
  <1>1. UNCHANGED <<book, held, open, latch, alerted, excused>>
    BY DEF ClearStructure, memory, exchange, history
  <1>2. k \in TTask /\ k.act = "exit" /\ k.at = "record" /\ k.legs = <<>> /\ k.u \in Underlyings
    BY InFacts DEF ClearStructure, Shaped
  <1>3. Put(t, AtStage(k, "confirm"))
    BY DEF ClearStructure, AtStage
  <1>4. \/ legsRec' = [legsRec EXCEPT ![k.u] = <<>>]
        \/ legsRec' = legsRec /\ faults' # 0
    <2>1. faults \in Nat
      BY DEF SInv, BooksTyped
    <2> QED
      BY <2>1 DEF ClearStructure, StoreFails
  <1> QED
    BY <1>1, <1>2, <1>3, <1>4, StageMoves

\* The strategy is told of an exit that closed.
LEMMA ExitConfirmedDoes ==
    ASSUME SInv, NEW t \in Threads, ExitConfirmed(t), NEW k, k = task[t]
    PROVE  /\ k \in TTask /\ k.act = "exit" /\ k.at = "confirm" /\ k.u \in Underlyings
           /\ \E n : Moves(t, n) /\ GoesOn(k, n) /\ n.act = "none"
           /\ latch' = IF Latched /\ k.ok THEN [latch EXCEPT ![k.u] = ConfirmExit(@)] ELSE latch
           /\ UNCHANGED <<book, held, open, legsRec, alerted, excused>>
  <1>1. UNCHANGED <<book, held, open, legsRec, alerted, excused>>
    BY DEF ExitConfirmed, exchange, history
  <1>2. k \in TTask /\ k.act = "exit" /\ k.at = "confirm" /\ k.u \in Underlyings
    BY InFacts DEF ExitConfirmed, Shaped
  <1>3. Put(t, Ended(k))
    BY DEF ExitConfirmed
  <1>4. latch' = IF Latched /\ k.ok THEN [latch EXCEPT ![k.u] = ConfirmExit(@)] ELSE latch
    BY DEF ExitConfirmed
  <1> QED
    BY <1>1, <1>2, <1>3, <1>4, EndedMoves

-----------------------------------------------------------------------------
(***************************************************************************)
(* Records.                                                                *)
(***************************************************************************)
\* A walk leaves the structures and their records.
LEMMA RecordsWalk ==
    ASSUME SInv, RInv, NEW t \in Threads, Walks(t)
    PROVE  RInv'
  <1> SUFFICES ASSUME ~killSwitch', faults' = 0, NEW u \in Underlyings
               PROVE  RecordOK(task'["loop"], u, open'[u], legsRec'[u])
    BY DEF RInv
  <1>1. PICK n : Moves(t, n) /\ Fresh(t, task[t], n)
    BY DEF Walks
  <1>2. t = "loop" /\ Running /\ ~killSwitch /\ faults = 0 /\ task["loop"].act = "none"
        /\ open' = open /\ legsRec' = legsRec
    BY DEF Walks, Threads, durable, SInv, Types
  <1>3. RecordOK(task["loop"], u, open[u], legsRec[u])
    BY <1>2 DEF RInv
  <1>4. task'["loop"] = n
    BY <1>1, <1>2, MovesFacts DEF SInv, Types
  <1>5. n.act = "none" \/ n.at = "ready"
    BY <1>1 DEF Fresh
  <1> QED
    BY <1>2, <1>3, <1>4, <1>5 DEF RecordOK

\* Within a call sequence the structure changes first and its record next.
LEMMA RecordsWork ==
    ASSUME SInv, RInv, NEW t \in Threads, Works(t)
    PROVE  RInv'
  <1> SUFFICES ASSUME ~killSwitch', faults' = 0, NEW u \in Underlyings
               PROVE  RecordOK(task'["loop"], u, open'[u], legsRec'[u])
    BY DEF RInv
  <1>1. t = "loop" /\ "loop" \in Threads /\ Running /\ ~killSwitch /\ faults = 0
    BY WorksFacts DEF Threads
  <1>2. RecordOK(task["loop"], u, open[u], legsRec[u])
    BY <1>1 DEF RInv
  <1>3. task \in [Threads -> TTask] /\ open \in [Underlyings -> Seq(TLeg)]
        /\ legsRec \in [Underlyings -> Seq(Traded)]
    BY DEF SInv, Types, BooksTyped
  <1>4. PICK k : k = task["loop"]
    OBVIOUS
  <1>5. \A n : Moves("loop", n) => task'["loop"] = n
    BY <1>1, <1>3, MovesFacts
  <1>6. ASSUME k.at # "record", open' = open, legsRec' = legsRec,
               NEW n, Moves("loop", n), n.act = "none" \/ n.at # "record"
        PROVE  RecordOK(task'["loop"], u, open'[u], legsRec'[u])
    BY <1>2, <1>4, <1>5, <1>6 DEF RecordOK
  <1>7. CASE ValidateLeg
    BY <1>4, <1>6, <1>7, ValidateLegDoes
  <1>8. CASE RefuseLeg
    BY <1>4, <1>6, <1>8, RefuseLegDoes
  <1>9. CASE OpenLeg
    BY <1>4, <1>6, <1>9, OpenLegDoes
  <1>10. CASE EntryFills
    BY <1>4, <1>6, <1>10, EntryFillsDoes
  <1>11. CASE EntryRejected
    BY <1>4, <1>6, <1>11, EntryRejectedDoes
  <1>12. CASE EntryUnknown
    BY <1>4, <1>6, <1>12, EntryUnknownDoes
  <1>13. CASE TrackStructure
    <2>1. PICK n : Moves("loop", n) /\ n.act = "enter" /\ n.at = "record" /\ n.u = k.u /\ n.done = k.done
      BY <1>4, <1>13, TrackStructureDoes
    <2>2. /\ k.at = "ready" /\ k.u \in Underlyings /\ legsRec' = legsRec
          /\ open' = [open EXCEPT ![k.u] = k.done]
      BY <1>4, <1>13, TrackStructureDoes
    <2> QED
      BY <1>2, <1>3, <1>4, <1>5, <2>1, <2>2 DEF RecordOK
  <1>14. CASE PersistStructure
    <2>1. PICK n : Moves("loop", n) /\ n.act = "enter" /\ n.at = "confirm"
      BY <1>4, <1>14, PersistDoes
    <2>2. /\ k.act = "enter" /\ k.at = "record" /\ k.u \in Underlyings /\ open' = open
          /\ legsRec' = [legsRec EXCEPT ![k.u] = SymsOf(k.done)]
      BY <1>4, <1>14, PersistDoes
    <2> QED
      BY <1>2, <1>3, <1>4, <1>5, <2>1, <2>2 DEF RecordOK
  <1>15. CASE EntryConfirmed
    BY <1>4, <1>6, <1>15, EntryConfirmedDoes
  <1>16. CASE ClaimLeg(t)
    BY <1>1, <1>4, <1>6, <1>16, ClaimLegDoes
  <1>17. CASE ClaimRefused(t)
    BY <1>1, <1>4, <1>6, <1>17, ClaimRefusedDoes
  <1>18. CASE ExitFills(t)
    BY <1>1, <1>4, <1>6, <1>18, ExitFillsDoes
  <1>19. CASE ExitFails(t)
    BY <1>1, <1>4, <1>6, <1>19, ExitFailsDoes
  <1>20. CASE LegsClosed(t)
    BY <1>1, <1>4, <1>6, <1>20, LegsClosedDoes
  <1>21. CASE Untrack(t)
    <2>1. /\ k.at = "ready" /\ k.u \in Underlyings /\ legsRec' = legsRec
          /\ \E n : /\ Moves("loop", n) /\ n.act = "exit" /\ n.u = k.u
                    /\ \/ n.at = "record" /\ open' = [open EXCEPT ![k.u] = <<>>]
                       \/ n.at = "confirm" /\ open' = open
      BY <1>1, <1>4, <1>21, UntrackDoes
    <2>2. PICK n : /\ Moves("loop", n) /\ n.act = "exit" /\ n.u = k.u
                   /\ \/ n.at = "record" /\ open' = [open EXCEPT ![k.u] = <<>>]
                      \/ n.at = "confirm" /\ open' = open
      BY <2>1
    <2> QED
      BY <1>2, <1>3, <1>4, <1>5, <2>1, <2>2 DEF RecordOK
  <1>22. CASE ClearStructure(t)
    <2>1. /\ k.act = "exit" /\ k.at = "record" /\ k.u \in Underlyings /\ open' = open
          /\ legsRec' = [legsRec EXCEPT ![k.u] = <<>>]
      BY <1>1, <1>4, <1>22, ClearDoes
    <2>2. PICK n : Moves("loop", n) /\ n.act = "exit" /\ n.at = "confirm"
      BY <1>1, <1>4, <1>22, ClearDoes
    <2>3. SymsOf(<<>>) = <<>>
      BY DEF SymsOf
    <2> QED
      BY <1>2, <1>3, <1>4, <1>5, <2>1, <2>2, <2>3 DEF RecordOK
  <1>23. CASE ExitConfirmed(t)
    BY <1>1, <1>4, <1>6, <1>23, ExitConfirmedDoes
  <1> QED
    BY <1>7, <1>8, <1>9, <1>10, <1>11, <1>12, <1>13, <1>14, <1>15, <1>16, <1>17, <1>18, <1>19,
       <1>20, <1>21, <1>22, <1>23 DEF Works

\* A start, and the second restore, have the structures of the records.
LEMMA RecordsBegin ==
    ASSUME SInv, RInv, Begins
    PROVE  RInv'
  <1> SUFFICES ASSUME faults' = 0, ~killSwitch', NEW u \in Underlyings
               PROVE  RecordOK(task'["loop"], u, open'[u], legsRec'[u])
    BY DEF RInv
  <1>1. /\ RestoreState /\ legsRec' = legsRec /\ killSwitch' = killSwitch
        /\ ~Running \/ ~ticking
    BY DEF Begins, Start, RestoreAgain, durable, control
  <1>2. task["loop"] = Idle /\ task'["loop"] = Idle
    BY StartKeeps DEF Begins
  <1>3. faults = 0 /\ open' = [v \in Underlyings |->
                                  IF legsRec[v] # <<>> THEN Restored(v, rows) ELSE open[v]]
    <2>1. PICK read \in {rows, {}}, loaded \in BOOLEAN :
              /\ \/ read = rows /\ loaded /\ UNCHANGED faults
                 \/ ~(read = rows /\ loaded) /\ faults < MaxFaults /\ faults' = faults + 1
              /\ open' = [v \in Underlyings |->
                     IF loaded /\ legsRec[v] # <<>> THEN Restored(v, read) ELSE open[v]]
      BY <1>1, Zenon DEF RestoreState
    <2>2. faults \in Nat
      BY DEF SInv, BooksTyped
    <2>3. read = rows /\ loaded /\ faults = 0
      BY <2>1, <2>2
    <2> QED
      BY <2>1, <2>3
  <1>4. SymsOf(<<>>) = <<>>
    BY DEF SymsOf
  <1>5. legsRec[u] = <<>> => open[u] = <<>>
    <2>1. CASE ~Running
      BY <2>1 DEF SInv, Control
    <2>2. CASE Running
      <3>1. RecordOK(Idle, u, open[u], legsRec[u])
        BY <1>1, <1>2, <1>3, <2>2 DEF RInv
      <3>2. legsRec[u] = SymsOf(open[u])
        BY <3>1, IdleTyped DEF RecordOK
      <3>3. Syms(open[u]) = ToSet(SymsOf(open[u])) /\ open[u] \in Seq(TLeg)
        BY SymsSome DEF SInv, BooksTyped
      <3>4. ToSet(<<>>) = {}
        BY DEF ToSet
      <3>5. open[u] # <<>> => Syms(open[u]) # {}
        BY LegsSome DEF SInv, Whole
      <3> QED
        BY <3>2, <3>3, <3>4, <3>5
    <2> QED
      BY <2>1, <2>2
  <1>6. legsRec[u] = SymsOf(open'[u])
    <2>1. CASE legsRec[u] # <<>>
      <3>1. PICK legs : legs = Restored(u, rows)
        OBVIOUS
      <3>2. SymsOf(legs) = legsRec[u]
        BY <3>1, RestoredLegs
      <3> QED
        BY <1>3, <2>1, <3>1, <3>2
    <2>2. CASE legsRec[u] = <<>>
      BY <1>3, <1>4, <1>5, <2>2
    <2> QED
      BY <2>1, <2>2
  <1> QED
    BY <1>1, <1>2, <1>6, IdleTyped DEF RecordOK

\* Every step keeps the records.
LEMMA RecordsStep == SInv /\ RInv /\ [Next]_vars => RInv'
  <1> SUFFICES ASSUME SInv, RInv, [Next]_vars PROVE RInv'
    OBVIOUS
  <1>1. CASE Stops
    BY <1>1 DEF Stops, RInv, Running
  <1>2. CASE Fires \/ Clock \/ Rests
    <2>1. UNCHANGED <<process, task, killSwitch, open, legsRec, faults>>
      BY <1>2 DEF Fires, StopFires, Clock, Rests, Pause, Resume, Called, vars, control, memory,
                  durable, bounds
    <2> QED
      BY <2>1 DEF RInv, Running
  <1> QED
    BY <1>1, <1>2, Kinds, RecordsWalk, RecordsWork, RecordsBegin

\* Between call sequences, until a kill, the durable record of every structure
\* is what the runner tracks, if no write or read failed (Runner.RecordsMatch).
THEOREM RecordsAreKept == Spec => []RecordsMatch
  <1>1. Init => RInv
    <2>1. SymsOf(<<>>) = <<>>
      BY DEF SymsOf
    <2> QED
      BY <2>1, IdleTyped DEF Init, FirstStart, RInv, RecordOK, Threads
  <1>2. SInv /\ RInv => RecordsMatch
    BY DEF RInv, RecordOK, RecordsMatch, Resting, Threads
  <1> QED
    BY ShapeKept, <1>1, <1>2, RecordsStep, PTL DEF Spec

-----------------------------------------------------------------------------
(***************************************************************************)
(* Latches.                                                                *)
(***************************************************************************)
\* An evaluation signals an exit only of what is tracked, or latched.
LEMMA LatchesWalk ==
    ASSUME SInv, MInv, NEW t \in Threads, Walks(t)
    PROVE  MInv'
  <1> SUFFICES ASSUME ~killSwitch', restarts' = 0
               PROVE  ticking' /\ \A u \in Underlyings : LatchOK(task'["loop"], u, open'[u], latch'[u])
    BY DEF MInv
  <1>1. PICK n : Moves(t, n) /\ Fresh(t, task[t], n)
    BY DEF Walks
  <1>2. /\ t = "loop" /\ Running /\ ~killSwitch /\ restarts = 0 /\ task["loop"].act = "none"
        /\ open' = open /\ ticking' = ticking
        /\ \A u \in Underlyings : Learns(task["loop"], u)
    BY DEF Walks, Threads, SInv, Types
  <1>3. ticking /\ \A u \in Underlyings : LatchOK(task["loop"], u, open[u], latch[u])
    BY <1>2 DEF MInv
  <1>4. task'["loop"] = n
    BY <1>1, <1>2, MovesFacts DEF SInv, Types
  <1>5. n.act = "none" \/ n.at = "ready"
    BY <1>1 DEF Fresh
  <1>6. ASSUME NEW u \in Underlyings
        PROVE  LatchOK(n, u, open'[u], latch'[u])
    <2>1. LatchOK(task["loop"], u, open[u], latch[u]) /\ Learns(task["loop"], u)
      BY <1>2, <1>3
    <2>2. latch'[u].entered \/ latch'[u].pendingExit => Latched /\ open[u] # <<>>
      BY <1>2, <2>1 DEF LatchOK, Learns, Exits
    <2> QED
      BY <1>2, <1>5, <2>2 DEF LatchOK
  <1> QED
    BY <1>2, <1>3, <1>4, <1>6

\* Within a call sequence the strategy learns of what the runner did.
LEMMA LatchesWork ==
    ASSUME SInv, MInv, NEW t \in Threads, Works(t)
    PROVE  MInv'
  <1> SUFFICES ASSUME ~killSwitch', restarts' = 0
               PROVE  ticking' /\ \A u \in Underlyings : LatchOK(task'["loop"], u, open'[u], latch'[u])
    BY DEF MInv
  <1>1. t = "loop" /\ "loop" \in Threads /\ Running /\ ~killSwitch /\ restarts = 0 /\ ticking' = ticking
    BY WorksFacts DEF Threads
  <1>2. ticking'
    BY <1>1 DEF MInv
  <1> SUFFICES ASSUME NEW u \in Underlyings PROVE LatchOK(task'["loop"], u, open'[u], latch'[u])
    BY <1>2
  <1>3. LatchOK(task["loop"], u, open[u], latch[u])
    BY <1>1 DEF MInv
  <1>4. task \in [Threads -> TTask] /\ open \in [Underlyings -> Seq(TLeg)]
        /\ latch \in [Underlyings -> TLatch]
    BY DEF SInv, Types, BooksTyped
  <1>5. PICK k : k = task["loop"]
    OBVIOUS
  <1>6. \A n : Moves("loop", n) => task'["loop"] = n
    BY <1>1, <1>4, MovesFacts
  <1>7. ASSUME k.at \notin {"record", "confirm"} \/ k.act \notin {"enter", "exit"},
               open' = open, latch' = latch,
               NEW n, Moves("loop", n), n.act = "none" \/ n.at \notin {"record", "confirm"}
        PROVE  LatchOK(task'["loop"], u, open'[u], latch'[u])
    BY <1>3, <1>5, <1>6, <1>7 DEF LatchOK, Exits
  <1>8. ASSUME k.at = "record", open' = open, latch' = latch,
               NEW n, Moves("loop", n), n.at = "confirm", n.act = k.act, n.u = k.u,
               n.act = "exit" => n.ok = k.ok
        PROVE  LatchOK(task'["loop"], u, open'[u], latch'[u])
    BY <1>3, <1>5, <1>6, <1>8 DEF LatchOK, Exits
  <1>9. CASE ValidateLeg
    BY <1>5, <1>7, <1>9, ValidateLegDoes
  <1>10. CASE RefuseLeg
    BY <1>5, <1>7, <1>10, RefuseLegDoes
  <1>11. CASE OpenLeg
    BY <1>5, <1>7, <1>11, OpenLegDoes
  <1>12. CASE EntryFills
    BY <1>5, <1>7, <1>12, EntryFillsDoes
  <1>13. CASE EntryRejected
    BY <1>5, <1>7, <1>13, EntryRejectedDoes
  <1>14. CASE EntryUnknown
    BY <1>5, <1>7, <1>14, EntryUnknownDoes
  <1>15. CASE TrackStructure
    <2>1. PICK n : Moves("loop", n) /\ n.act = "enter" /\ n.at = "record" /\ n.u = k.u /\ n.done = k.done
      BY <1>5, <1>15, TrackStructureDoes
    <2>2. /\ k.act = "enter" /\ k.u \in Underlyings /\ open' = [open EXCEPT ![k.u] = k.done]
          /\ k.done # <<>> /\ latch' = latch
      BY <1>5, <1>15, TrackStructureDoes
    <2>3. open'[k.u] # <<>> /\ (open'[u] = open[u] \/ u = k.u)
      BY <1>4, <2>2
    <2>4. latch[u].entered \/ latch[u].pendingExit => Latched /\ open[u] # <<>>
      BY <1>3, <1>5, <2>2 DEF LatchOK, Exits
    <2>5. task'["loop"] = n
      BY <1>6, <2>1
    <2> QED
      BY <2>1, <2>2, <2>3, <2>4, <2>5 DEF LatchOK
  <1>16. CASE PersistStructure
    BY <1>5, <1>8, <1>16, PersistDoes
  <1>17. CASE EntryConfirmed
    <2>1. PICK n : Moves("loop", n) /\ n.act = "none"
      BY <1>5, <1>17, EntryConfirmedDoes
    <2>2. /\ k.act = "enter" /\ k.at = "confirm" /\ k.u \in Underlyings /\ open' = open
          /\ latch' = IF Latched THEN [latch EXCEPT ![k.u] = ConfirmEntry(@)] ELSE latch
      BY <1>5, <1>17, EntryConfirmedDoes
    <2>3. latch'[u] = latch[u] \/ u = k.u
      BY <1>4, <2>2
    <2>4. /\ u = k.u => open[u] # <<>>
          /\ latch[u].entered \/ latch[u].pendingExit => Latched /\ open[u] # <<>>
          /\ ~Latched => latch' = latch
      BY <1>3, <1>5, <2>2 DEF LatchOK, Exits
    <2>5. task'["loop"] = n
      BY <1>6, <2>1
    <2> QED
      BY <2>1, <2>2, <2>3, <2>4, <2>5 DEF LatchOK
  <1>18. CASE ClaimLeg(t)
    BY <1>1, <1>5, <1>7, <1>18, ClaimLegDoes
  <1>19. CASE ClaimRefused(t)
    BY <1>1, <1>5, <1>7, <1>19, ClaimRefusedDoes
  <1>20. CASE ExitFills(t)
    BY <1>1, <1>5, <1>7, <1>20, ExitFillsDoes
  <1>21. CASE ExitFails(t)
    BY <1>1, <1>5, <1>7, <1>21, ExitFailsDoes
  <1>22. CASE LegsClosed(t)
    BY <1>1, <1>5, <1>7, <1>22, LegsClosedDoes
  <1>23. CASE Untrack(t)
    <2>1. /\ k.act = "exit" /\ k.at = "ready" /\ k.u \in Underlyings /\ latch' = latch
          /\ \E n : /\ Moves("loop", n) /\ n.act = "exit" /\ n.u = k.u /\ n.ok = k.ok
                    /\ \/ k.ok /\ n.at = "record" /\ open' = [open EXCEPT ![k.u] = <<>>]
                       \/ ~k.ok /\ n.at = "confirm" /\ open' = open
      BY <1>1, <1>5, <1>23, UntrackDoes
    <2>2. PICK n : /\ Moves("loop", n) /\ n.act = "exit" /\ n.u = k.u /\ n.ok = k.ok
                   /\ \/ k.ok /\ n.at = "record" /\ open' = [open EXCEPT ![k.u] = <<>>]
                      \/ ~k.ok /\ n.at = "confirm" /\ open' = open
      BY <2>1
    <2>3. open'[u] = open[u] \/ (u = k.u /\ k.ok /\ n.at = "record")
      BY <1>4, <2>1, <2>2
    <2>4. latch[u].entered \/ latch[u].pendingExit => Latched /\ open[u] # <<>>
      BY <1>3, <1>5, <2>1 DEF LatchOK
    <2>5. task'["loop"] = n
      BY <1>6, <2>2
    <2> QED
      BY <2>1, <2>2, <2>3, <2>4, <2>5 DEF LatchOK, Exits
  <1>24. CASE ClearStructure(t)
    BY <1>1, <1>5, <1>8, <1>24, ClearDoes
  <1>25. CASE ExitConfirmed(t)
    <2>1. PICK n : Moves("loop", n) /\ n.act = "none"
      BY <1>1, <1>5, <1>25, ExitConfirmedDoes
    <2>2. /\ k.act = "exit" /\ k.at = "confirm" /\ k.u \in Underlyings /\ open' = open
          /\ latch' = IF Latched /\ k.ok THEN [latch EXCEPT ![k.u] = ConfirmExit(@)] ELSE latch
      BY <1>1, <1>5, <1>25, ExitConfirmedDoes
    <2>3. \/ latch'[u] = latch[u] /\ (k.u = u => ~(Latched /\ k.ok))
          \/ u = k.u /\ latch'[u] = ConfirmExit(latch[u])
      BY <1>4, <2>2
    <2>4. ~ConfirmExit(latch[u]).entered /\ ~ConfirmExit(latch[u]).pendingExit
      BY <1>4 DEF ConfirmExit, TLatch
    <2> QED
      BY <1>3, <1>5, <1>6, <2>1, <2>2, <2>3, <2>4 DEF LatchOK, Exits
  <1> QED
    BY <1>9, <1>10, <1>11, <1>12, <1>13, <1>14, <1>15, <1>16, <1>17, <1>18, <1>19, <1>20, <1>21,
       <1>22, <1>23, <1>24, <1>25 DEF Works

\* Every step of the first run keeps the latches.
LEMMA LatchesStep == SInv /\ MInv /\ [Next]_vars => MInv'
  <1> SUFFICES ASSUME SInv, MInv, [Next]_vars PROVE MInv'
    OBVIOUS
  <1>1. CASE Stops
    BY <1>1 DEF Stops, MInv, Running
  <1>2. CASE Begins
    <2>1. CASE \E acceptReconcile \in BOOLEAN : Start(acceptReconcile)
      <3>1. restarts' # 0
        BY <2>1 DEF Start, SInv, BooksTyped
      <3> QED
        BY <3>1 DEF MInv
    <2>2. CASE RestoreAgain
      BY <2>2 DEF RestoreAgain, MInv, control
    <2> QED
      BY <1>2, <2>1, <2>2 DEF Begins
  <1>3. CASE Fires \/ Clock \/ Rests
    <2>1. UNCHANGED <<process, ticking, task, killSwitch, open, latch, restarts>>
      BY <1>3 DEF Fires, StopFires, Clock, Rests, Pause, Resume, Called, vars, control, memory, bounds
    <2> QED
      BY <2>1 DEF MInv, Running
  <1> QED
    BY <1>1, <1>2, <1>3, Kinds, LatchesWalk, LatchesWork

\* Between call sequences the straddle's own latch never outlives the structure,
\* until a kill or a restart (Runner.LatchesMatch).
THEOREM LatchesAreKept == Spec => []LatchesMatch
  <1>1. Init => MInv
    BY IdleTyped DEF Init, FirstStart, MInv, LatchOK, NoLatch, Threads
  <1>2. SInv /\ MInv => LatchesMatch
    BY DEF MInv, LatchOK, LatchesMatch, Resting, Threads, Exits
  <1> QED
    BY ShapeKept, <1>1, <1>2, LatchesStep, PTL DEF Spec

-----------------------------------------------------------------------------
(***************************************************************************)
(* Lots: entering.                                                         *)
(***************************************************************************)
\* What is known of an entry under way.
LEMMA EntryFacts ==
    ASSUME SInv, NEW k, k = task["loop"], k.act = "enter"
    PROVE  /\ k \in TTask /\ k.u \in Underlyings /\ Running
           /\ Syms(k.done) \cup Syms(k.legs) = LegSet(k.u)
           /\ k.at \in {"open", "sent"} => k.legs # <<>>
           /\ k.at \in {"record", "confirm"} => k.legs = <<>>
           /\ k.legs # <<>> =>
                  /\ Head(k.legs).sym \in LegSet(k.u)
                  /\ Syms(k.legs) = {Head(k.legs).sym} \cup Syms(Tail(k.legs))
                  /\ Head(k.legs).sym \notin Syms(Tail(k.legs))
           /\ k.at \in {"ready", "open", "sent"} => open[k.u] = <<>>
           /\ k.at \in {"open", "sent"} => ~Exits(task["api"], k.u)
           /\ k.at = "ready" /\ k.legs = <<>> => ~Exits(task["api"], k.u)
  <1>1. k \in TTask /\ Shaped("loop", k)
    BY DEF SInv, Types, InShape, Threads
  <1>2. /\ k.u \in Underlyings /\ Syms(k.done) \cup Syms(k.legs) = LegSet(k.u) /\ Distinct(k.legs)
        /\ k.at \in {"open", "sent"} => k.legs # <<>>
        /\ k.at \in {"record", "confirm"} => k.legs = <<>>
    BY <1>1 DEF Shaped
  <1>3. k.legs # <<>> =>
            /\ Head(k.legs).sym \in LegSet(k.u)
            /\ Syms(k.legs) = {Head(k.legs).sym} \cup Syms(Tail(k.legs))
            /\ Head(k.legs).sym \notin Syms(Tail(k.legs))
    BY <1>1, <1>2, FirstLeg
  <1>4. k.at \in {"ready", "open", "sent"} =>
            /\ open[k.u] = <<>>
            /\ Exits(task["api"], k.u) => k.at = "ready" /\ k.done = <<>>
    BY <1>2 DEF SInv, Apart, Enters
  <1>5. k.legs = <<>> => k.done # <<>>
    BY <1>2, SymsNone, LegsSome
  <1>6. Running
    BY IdleTyped DEF SInv, Control
  <1> QED
    BY <1>1, <1>2, <1>3, <1>4, <1>5, <1>6

\* The other goroutine is where it was.
LEMMA LoopMoves ==
    ASSUME SInv, NEW n, Moves("loop", n)
    PROVE  task'["loop"] = n /\ task'["api"] = task["api"] /\ n \in TTask
  BY MovesFacts DEF SInv, Types, Threads

\* A contract of an underlying, and how much of it is held.
LEMMA LotFacts ==
    ASSUME SInv, NEW u \in Underlyings, NEW c \in LegSet(u)
    PROVE  /\ c \in Contracts /\ c \in Traded /\ held[c] \in Int
           /\ held \in [Contracts -> Int] /\ open \in [Underlyings -> Seq(TLeg)]
           /\ legsRec \in [Underlyings -> Seq(Traded)]
           /\ \A v \in Underlyings : c \in LegSet(v) => v = u
           /\ open[u] # <<>> => Syms(open[u]) = LegSet(u)
           /\ legsRec[u] # <<>> => ToSet(legsRec[u]) = LegSet(u)
  <1>1. c \in Contracts /\ c \in Traded
    BY LegsFacts
  <1>2. \A v \in Underlyings : c \in LegSet(v) => v = u
    BY LegsApart
  <1> QED
    BY <1>1, <1>2 DEF SInv, BooksTyped, Whole

\* An entry is validated.
LEMMA ValidateLegLots ==
    ASSUME SInv, EInv, ValidateLeg, NEW u \in Underlyings, NEW c \in LegSet(u)
    PROVE  Lots(u, c)'
  <1>1. PICK k : k = task["loop"]
    OBVIOUS
  <1>2. PICK n : /\ Moves("loop", n)
                 /\ n.act = "enter" /\ n.at = "open" /\ n.u = k.u /\ n.done = k.done
                 /\ n.legs # <<>> /\ Syms(n.legs) = Syms(k.legs)
    BY <1>1, ValidateLegDoes
  <1>3. /\ k.act = "enter" /\ k.at = "ready" /\ process' = process
        /\ UNCHANGED <<book, held, open, legsRec, latch, alerted, excused>>
    BY <1>1, ValidateLegDoes DEF ValidateLeg
  <1>4. task'["loop"] = n /\ task'["api"] = task["api"]
    BY <1>2, LoopMoves
  <1>5. Lots(u, c)
    BY DEF EInv
  <1> QED
    BY <1>1, <1>2, <1>3, <1>4, <1>5 DEF Lots, Fine, Clean, LotOK, EntersOK, ExitsOK, BookOK,
       OnTheWay, Exits, Closes, Closing, Threads, Running

\* A leg is refused: what was entered is unwound.
LEMMA RefuseLegLots ==
    ASSUME SInv, EInv, RefuseLeg, NEW u \in Underlyings, NEW c \in LegSet(u)
    PROVE  Lots(u, c)'
  <1>1. PICK k : k = task["loop"]
    OBVIOUS
  <1>2. PICK n : /\ Moves("loop", n)
                 /\ n.act = "unwind" /\ n.at = "ready" /\ n.u = k.u /\ n.legs = k.done
    BY <1>1, RefuseLegDoes
  <1>3. /\ k.act = "enter" /\ k.at = "ready" /\ process' = process
        /\ UNCHANGED <<book, held, open, legsRec, latch, alerted, excused>>
    BY <1>1, RefuseLegDoes DEF RefuseLeg
  <1>4. task'["loop"] = n /\ task'["api"] = task["api"]
    BY <1>2, LoopMoves
  <1>5. Lots(u, c)
    BY DEF EInv
  <1> QED
    BY <1>1, <1>2, <1>3, <1>4, <1>5 DEF Lots, Fine, Clean, LotOK, EntersOK, ExitsOK, BookOK,
       OnTheWay, Exits, Closes, Closing, Threads, Running

\* A position is opened.
LEMMA OpenLegLots ==
    ASSUME SInv, EInv, OpenLeg, NEW u \in Underlyings, NEW c \in LegSet(u)
    PROVE  Lots(u, c)'
  <1>1. PICK k : k = task["loop"]
    OBVIOUS
  <1>2. PICK n : /\ Moves("loop", n)
                 /\ n.act = "enter" /\ n.at = "sent" /\ n.u = k.u /\ n.done = k.done
                 /\ n.legs = k.legs
    BY <1>1, OpenLegDoes
  <1>3. /\ k.act = "enter" /\ k.at = "open" /\ k.legs # <<>> /\ process' = process
        /\ book' = book \cup {Head(k.legs).sym}
        /\ UNCHANGED <<held, open, legsRec, latch, alerted, excused>>
    BY <1>1, OpenLegDoes DEF OpenLeg
  <1>4. task'["loop"] = n /\ task'["api"] = task["api"]
    BY <1>2, LoopMoves
  <1>5. Lots(u, c)
    BY DEF EInv
  <1>6. /\ open[k.u] = <<>> /\ ~Exits(task["api"], k.u) /\ k.u \in Underlyings
        /\ Head(k.legs).sym \in Syms(k.legs) /\ Head(k.legs).sym \in LegSet(k.u)
    BY <1>1, <1>3, EntryFacts
  <1>7. c = Head(k.legs).sym => u = k.u
    BY <1>6, LotFacts
  <1>8. CASE c # Head(k.legs).sym
    BY <1>1, <1>2, <1>3, <1>4, <1>5, <1>8 DEF Lots, Fine, Clean, LotOK, EntersOK, ExitsOK, BookOK,
       OnTheWay, Exits, Closes, Closing, Threads, Running
  <1>9. CASE c = Head(k.legs).sym
    <2>1. c \in book' /\ OnTheWay(n, c) /\ u = k.u
      BY <1>2, <1>3, <1>7, <1>9 DEF OnTheWay
    <2>2. Fine(c) => c \notin book /\ held[c] <= 0
      BY <1>1, <1>3, <1>5, <1>6, <1>9 DEF Lots, EntersOK, OnTheWay
    <2>3. Fine(c) => ~Closes(task["api"], c)
      BY <1>5, <2>2 DEF Lots, ExitsOK, Threads
    <2>4. ~Exits(task'["loop"], u) /\ ~Closes(task'["loop"], c) /\ ~Exits(task'["api"], u)
      BY <1>2, <1>4, <1>6, <2>1 DEF Exits, Closes, Closing
    <2> QED
      BY <1>1, <1>2, <1>3, <1>4, <1>5, <1>6, <2>1, <2>2, <2>3, <2>4
         DEF Lots, Fine, Clean, LotOK, EntersOK, ExitsOK, BookOK, Threads, Running
  <1> QED
    BY <1>8, <1>9

\* An entry is filled.
LEMMA EntryFillsLots ==
    ASSUME SInv, EInv, EntryFills, NEW u \in Underlyings, NEW c \in LegSet(u)
    PROVE  Lots(u, c)'
  <1>1. PICK k : k = task["loop"]
    OBVIOUS
  <1>2. PICK n : /\ Moves("loop", n)
                 /\ n.act = "enter" /\ n.at = "ready" /\ n.u = k.u /\ n.legs = Tail(k.legs)
                 /\ Syms(n.done) = Syms(k.done) \cup {Head(k.legs).sym}
    BY <1>1, EntryFillsDoes
  <1>3. /\ k.act = "enter" /\ k.at = "sent" /\ k.legs # <<>> /\ process' = process
        /\ held' = [held EXCEPT ![Head(k.legs).sym] = @ + 1]
        /\ UNCHANGED <<book, open, legsRec, latch, alerted, excused>>
    BY <1>1, EntryFillsDoes DEF EntryFills
  <1>4. task'["loop"] = n /\ task'["api"] = task["api"]
    BY <1>2, LoopMoves
  <1>5. Lots(u, c)
    BY DEF EInv
  <1>6. /\ open[k.u] = <<>> /\ ~Exits(task["api"], k.u) /\ k.u \in Underlyings /\ Running
        /\ Head(k.legs).sym \in Syms(k.legs) /\ Head(k.legs).sym \in LegSet(k.u)
        /\ Syms(k.legs) = {Head(k.legs).sym} \cup Syms(Tail(k.legs))
        /\ Head(k.legs).sym \notin Syms(Tail(k.legs))
    BY <1>1, <1>3, EntryFacts
  <1>7. /\ c = Head(k.legs).sym => u = k.u
        /\ c \in Contracts /\ held[c] \in Int /\ held \in [Contracts -> Int]
    BY <1>6, LotFacts
  <1>8. CASE c # Head(k.legs).sym
    <2>1. held'[c] = held[c]
      BY <1>3, <1>7, <1>8
    <2> QED
      BY <1>1, <1>2, <1>3, <1>4, <1>5, <1>6, <1>8, <2>1
         DEF Lots, Fine, Clean, LotOK, EntersOK, ExitsOK, BookOK, OnTheWay, Exits, Closes, Closing,
             Threads, Running
  <1>9. CASE c = Head(k.legs).sym
    <2>1. held'[c] = held[c] + 1 /\ OnTheWay(k, c) /\ u = k.u /\ c \notin Syms(n.legs) /\ c \in Syms(n.done)
      BY <1>2, <1>3, <1>6, <1>7, <1>9 DEF OnTheWay
    <2>2. Fine(c) => c \in book /\ held[c] <= 0
      BY <1>1, <1>3, <1>5, <1>6, <1>9, <2>1 DEF Lots, EntersOK
    <2>3. Fine(c) => ~Closes(task["api"], c)
      BY <1>1, <1>5, <2>1 DEF Lots, ExitsOK, Threads
    <2>4. ~Exits(task'["loop"], u) /\ ~Closes(task'["loop"], c) /\ ~Exits(task'["api"], u)
      BY <1>2, <1>4, <1>6, <2>1 DEF Exits, Closes, Closing
    <2>5. Clean(c) => held[c] >= 0
      BY <1>5 DEF Lots, BookOK
    <2>6. open'[u] = <<>>
      BY <1>3, <1>6, <2>1
    <2>7. Fine(c)' = Fine(c) /\ Clean(c)' = Clean(c) /\ (Clean(c) => Fine(c)) /\ Running'
      BY <1>3, <1>6 DEF Fine, Clean, Running
    <2>8. Fine(c) => LotOK(u, c)' /\ EntersOK(u, c)' /\ \A t \in Threads : ExitsOK(t, u, c)'
      BY <1>2, <1>3, <1>4, <1>7, <2>1, <2>2, <2>3, <2>4, <2>6, <2>7
         DEF LotOK, EntersOK, ExitsOK, Threads
    <2>9. Clean(c) => BookOK(u, c)'
      BY <1>2, <1>3, <1>4, <1>7, <2>1, <2>2, <2>5, <2>7 DEF BookOK
    <2> QED
      BY <2>7, <2>8, <2>9 DEF Lots
  <1> QED
    BY <1>8, <1>9

\* An entry is rejected.
LEMMA EntryRejectedLots ==
    ASSUME SInv, EInv, EntryRejected, NEW u \in Underlyings, NEW c \in LegSet(u)
    PROVE  Lots(u, c)'
  <1>1. PICK k : k = task["loop"]
    OBVIOUS
  <1>2. PICK n : /\ Moves("loop", n)
                 /\ n.act = "unwind" /\ n.at = "ready" /\ n.u = k.u /\ n.legs = k.done
    BY <1>1, EntryRejectedDoes
  <1>3. /\ k.act = "enter" /\ k.at = "sent" /\ k.legs # <<>> /\ process' = process
        /\ book' = book \ {Head(k.legs).sym}
        /\ UNCHANGED <<held, open, legsRec, latch, alerted, excused>>
    BY <1>1, EntryRejectedDoes DEF EntryRejected
  <1>4. task'["loop"] = n /\ task'["api"] = task["api"]
    BY <1>2, LoopMoves
  <1>5. Lots(u, c)
    BY DEF EInv
  <1>6. Head(k.legs).sym \in Syms(k.legs)
    BY <1>1, <1>3, EntryFacts
  <1>7. held[c] \in Int
    BY LotFacts
  <1>8. CASE c # Head(k.legs).sym
    BY <1>1, <1>2, <1>3, <1>4, <1>5, <1>8 DEF Lots, Fine, Clean, LotOK, EntersOK, ExitsOK, BookOK,
       OnTheWay, Exits, Closes, Closing, Threads, Running
  <1>9. CASE c = Head(k.legs).sym
    <2>1. OnTheWay(k, c) /\ c \notin book'
      BY <1>3, <1>9 DEF OnTheWay
    <2>2. Fine(c) => held[c] <= 0 /\ ~Closes(task["api"], c)
      BY <1>1, <1>3, <1>5, <1>6, <1>9, <2>1 DEF Lots, EntersOK, ExitsOK, Threads
    <2>3. ~Closes(task'["loop"], c)
      BY <1>2, <1>4 DEF Closes
    <2> QED
      BY <1>1, <1>2, <1>3, <1>4, <1>5, <1>7, <2>1, <2>2, <2>3
         DEF Lots, Fine, Clean, LotOK, EntersOK, ExitsOK, BookOK, Exits, Threads, Running
  <1> QED
    BY <1>8, <1>9

\* An entry's outcome stays unknown.
LEMMA EntryUnknownLots ==
    ASSUME SInv, EInv, EntryUnknown, NEW u \in Underlyings, NEW c \in LegSet(u)
    PROVE  Lots(u, c)'
  <1>1. PICK k : k = task["loop"]
    OBVIOUS
  <1>2. PICK n : /\ Moves("loop", n)
                 /\ n.act = "unwind" /\ n.at = "ready" /\ n.u = k.u /\ n.legs = k.done
    BY <1>1, EntryUnknownDoes
  <1>3. /\ k.act = "enter" /\ k.at = "sent" /\ k.legs # <<>> /\ process' = process
        /\ alerted' = alerted \cup {Head(k.legs).sym}
        /\ UNCHANGED <<book, open, legsRec, latch, excused>>
    BY <1>1, EntryUnknownDoes DEF EntryUnknown
  <1>4. PICK filled \in {0, 1} : held' = [held EXCEPT ![Head(k.legs).sym] = @ + filled]
    BY <1>1, EntryUnknownDoes
  <1>5. task'["loop"] = n /\ task'["api"] = task["api"]
    BY <1>2, LoopMoves
  <1>6. Lots(u, c)
    BY DEF EInv
  <1>7. /\ open[k.u] = <<>> /\ ~Exits(task["api"], k.u) /\ k.u \in Underlyings /\ Running
        /\ Head(k.legs).sym \in Syms(k.legs) /\ Head(k.legs).sym \in LegSet(k.u)
    BY <1>1, <1>3, EntryFacts
  <1>8. /\ c = Head(k.legs).sym => u = k.u
        /\ c \in Contracts /\ held[c] \in Int /\ held \in [Contracts -> Int]
    BY <1>7, LotFacts
  <1>9. CASE c # Head(k.legs).sym
    <2>1. held'[c] = held[c]
      BY <1>4, <1>8, <1>9
    <2> QED
      BY <1>1, <1>2, <1>3, <1>5, <1>6, <1>9, <2>1
         DEF Lots, Fine, Clean, LotOK, EntersOK, ExitsOK, BookOK, OnTheWay, Exits, Closes, Closing,
             Threads, Running
  <1>10. CASE c = Head(k.legs).sym
    <2>1. /\ held'[c] = held[c] + filled /\ OnTheWay(k, c) /\ u = k.u /\ ~Clean(c)'
          /\ Fine(c)' => Fine(c)
      BY <1>3, <1>4, <1>8, <1>10 DEF OnTheWay, Clean, Fine
    <2>2. Fine(c) => c \in book /\ held[c] <= 0 /\ ~Closes(task["api"], c)
      BY <1>1, <1>6, <1>7, <1>3, <1>10, <2>1 DEF Lots, EntersOK, ExitsOK, Threads
    <2>3. ~Exits(task'["loop"], u) /\ ~Closes(task'["loop"], c) /\ ~Exits(task'["api"], u)
      BY <1>2, <1>5, <1>7, <2>1 DEF Exits, Closes
    <2>4. open'[u] = <<>> /\ Running'
      BY <1>3, <1>7, <2>1 DEF Running
    <2>5. Fine(c) => LotOK(u, c)' /\ EntersOK(u, c)' /\ \A t \in Threads : ExitsOK(t, u, c)'
      BY <1>2, <1>3, <1>5, <1>8, <2>1, <2>2, <2>3, <2>4 DEF LotOK, EntersOK, ExitsOK, Threads
    <2> QED
      BY <2>1, <2>5 DEF Lots
  <1> QED
    BY <1>9, <1>10

\* A structure is tracked.
LEMMA TrackStructureLots ==
    ASSUME SInv, EInv, TrackStructure, NEW u \in Underlyings, NEW c \in LegSet(u)
    PROVE  Lots(u, c)'
  <1>1. PICK k : k = task["loop"]
    OBVIOUS
  <1>2. PICK n : /\ Moves("loop", n)
                 /\ n.act = "enter" /\ n.at = "record" /\ n.u = k.u /\ n.done = k.done
                 /\ n.legs = k.legs
    BY <1>1, TrackStructureDoes
  <1>3. /\ k.act = "enter" /\ k.at = "ready" /\ k.legs = <<>> /\ k.done # <<>> /\ process' = process
        /\ k.u \in Underlyings /\ open' = [open EXCEPT ![k.u] = k.done]
        /\ UNCHANGED <<book, held, legsRec, latch, alerted, excused>>
    BY <1>1, TrackStructureDoes DEF TrackStructure
  <1>4. task'["loop"] = n /\ task'["api"] = task["api"]
    BY <1>2, LoopMoves
  <1>5. Lots(u, c) /\ Running
    BY <1>1, <1>3, EntryFacts DEF EInv
  <1>6. IF u = k.u THEN open'[u] # <<>> ELSE open'[u] = open[u]
    BY <1>3, LotFacts
  <1>7. c \notin Syms(n.legs)
    BY <1>2, <1>3, SymsNone
  <1>8. Fine(c) => LotOK(u, c)'
    BY <1>1, <1>2, <1>3, <1>4, <1>5, <1>6 DEF Lots, LotOK, Running
  <1>9. Fine(c) => EntersOK(u, c)' /\ \A t \in Threads : ExitsOK(t, u, c)'
    BY <1>1, <1>2, <1>3, <1>4, <1>5, <1>6, <1>7 DEF Lots, EntersOK, ExitsOK, OnTheWay, Exits, Closes,
       Closing, Threads
  <1>10. Clean(c) => BookOK(u, c)'
    BY <1>1, <1>2, <1>3, <1>4, <1>5, <1>6 DEF Lots, BookOK, OnTheWay
  <1> QED
    BY <1>3, <1>8, <1>9, <1>10 DEF Lots, Fine, Clean

\* It is recorded.
LEMMA PersistLots ==
    ASSUME SInv, EInv, PersistStructure, NEW u \in Underlyings, NEW c \in LegSet(u)
    PROVE  Lots(u, c)'
  <1>1. PICK k : k = task["loop"]
    OBVIOUS
  <1>2. PICK n : /\ Moves("loop", n)
                 /\ n.act = "enter" /\ n.at = "confirm" /\ n.u = k.u /\ n.done = k.done
                 /\ n.legs = k.legs
    BY <1>1, PersistDoes
  <1>3. /\ k.act = "enter" /\ k.at = "record" /\ process' = process /\ k.u \in Underlyings
        /\ UNCHANGED <<book, held, open, latch, alerted>>
        /\ \/ /\ legsRec' = [legsRec EXCEPT ![k.u] = SymsOf(k.done)] /\ SymsOf(k.done) # <<>>
              /\ excused' = excused
           \/ legsRec' = legsRec /\ excused' = excused \cup LegSet(k.u)
    BY <1>1, PersistDoes DEF PersistStructure
  <1>4. task'["loop"] = n /\ task'["api"] = task["api"]
    BY <1>2, LoopMoves
  <1>5. Lots(u, c) /\ Running
    BY <1>1, <1>3, EntryFacts DEF EInv
  <1>6. /\ (Fine(c)' => Fine(c)) /\ (Clean(c)' => Clean(c))
        /\ Fine(c)' => IF u = k.u THEN legsRec'[u] # <<>> ELSE legsRec'[u] = legsRec[u]
    BY <1>3, LotFacts DEF Fine, Clean
  <1>7. Fine(c)' => LotOK(u, c)'
    BY <1>1, <1>2, <1>3, <1>4, <1>5, <1>6 DEF Lots, LotOK, Running
  <1>8. Fine(c) => EntersOK(u, c)' /\ \A t \in Threads : ExitsOK(t, u, c)'
    BY <1>1, <1>2, <1>3, <1>4, <1>5 DEF Lots, EntersOK, ExitsOK, OnTheWay, Exits, Closes,
       Closing, Threads
  <1>9. Clean(c) => BookOK(u, c)'
    BY <1>1, <1>2, <1>3, <1>4, <1>5 DEF Lots, BookOK, OnTheWay
  <1> QED
    BY <1>6, <1>7, <1>8, <1>9 DEF Lots

\* The entry is through.
LEMMA EntryConfirmedLots ==
    ASSUME SInv, EInv, EntryConfirmed, NEW u \in Underlyings, NEW c \in LegSet(u)
    PROVE  Lots(u, c)'
  <1>1. PICK k : k = task["loop"]
    OBVIOUS
  <1>2. PICK n : Moves("loop", n) /\ n.act = "none"
    BY <1>1, EntryConfirmedDoes
  <1>3. /\ k.act = "enter" /\ k.at = "confirm" /\ process' = process
        /\ UNCHANGED <<book, held, open, legsRec, alerted, excused>>
    BY <1>1, EntryConfirmedDoes DEF EntryConfirmed
  <1>4. task'["loop"] = n /\ task'["api"] = task["api"]
    BY <1>2, LoopMoves
  <1>5. Lots(u, c) /\ Running
    BY <1>1, <1>3, EntryFacts DEF EInv
  <1>6. Fine(c) => LotOK(u, c)' /\ EntersOK(u, c)' /\ \A t \in Threads : ExitsOK(t, u, c)'
    BY <1>1, <1>2, <1>3, <1>4, <1>5 DEF Lots, LotOK, EntersOK, ExitsOK, OnTheWay, Exits, Closes,
       Closing, Threads, Running
  <1>7. Clean(c) => BookOK(u, c)'
    BY <1>1, <1>2, <1>3, <1>4, <1>5 DEF Lots, BookOK, EntersOK, OnTheWay, Clean, Fine
  <1> QED
    BY <1>3, <1>6, <1>7 DEF Lots, Fine, Clean

-----------------------------------------------------------------------------
(***************************************************************************)
(* Lots: closing.                                                          *)
(***************************************************************************)
\* A goroutine that closes leaves the others, and nothing of its own is on its way.
LEMMA ClosingMoves ==
    ASSUME SInv, NEW t \in Threads, task[t].act \in Closing, NEW n, Moves(t, n)
    PROVE  /\ task'[t] = n /\ \A o \in Threads \ {t} : task'[o] = task[o]
           /\ Running /\ "loop" \in Threads
           /\ task[t].legs # <<>> =>
                  Syms(task[t].legs) = {Head(task[t].legs).sym} \cup Syms(Tail(task[t].legs))
  <1>1. task'[t] = n /\ \A o \in Threads \ {t} : task'[o] = task[o]
    BY MovesFacts DEF SInv, Types
  <1>2. Running /\ "loop" \in Threads
    BY IdleTyped DEF SInv, Control, Closing, Threads
  <1>3. task[t].legs # <<>> =>
            Syms(task[t].legs) = {Head(task[t].legs).sym} \cup Syms(Tail(task[t].legs))
    BY FirstLeg DEF SInv, Types
  <1> QED
    BY <1>1, <1>2, <1>3

\* A closing step that leaves c's books.
LEMMA ClosingLots ==
    ASSUME SInv, EInv, NEW u \in Underlyings, NEW c \in LegSet(u),
           NEW t \in Threads, NEW k, k = task[t], k.act \in Closing, NEW n, Moves(t, n),
           n.act = "none" \/ (n.act = k.act /\ n.u = k.u),
           held'[c] = held[c], (c \in book') <=> (c \in book),
           process' = process, open'[u] = open[u], legsRec'[u] = legsRec[u],
           Fine(c)' => Fine(c), Clean(c)' => Clean(c),
           Exits(n, u) /\ n.ok /\ c \notin Syms(n.legs) => k.ok /\ c \notin Syms(k.legs),
           Closes(n, c) => c \in book /\ (Fine(c)' => ~OnTheWay(task'["loop"], c)),
           Clean(c)' /\ k.act = "unwind" /\ c \in Syms(k.legs) => n.act = "unwind" /\ c \in Syms(n.legs)
    PROVE  Lots(u, c)'
  <1>1. /\ task'[t] = n /\ \A o \in Threads \ {t} : task'[o] = task[o]
        /\ Running /\ "loop" \in Threads
    BY ClosingMoves
  <1>2. Lots(u, c)
    BY DEF EInv
  <1>3. Running' /\ Running
    BY <1>1 DEF Running
  <1>4. OnTheWay(task'["loop"], c) <=> OnTheWay(task["loop"], c)
    BY <1>1 DEF OnTheWay, Closing
  <1>5. Fine(c)' => LotOK(u, c)'
    BY <1>1, <1>2, <1>3 DEF Lots, LotOK, Closing
  <1>6. Fine(c)' => EntersOK(u, c)'
    BY <1>1, <1>2, <1>4 DEF Lots, EntersOK, Closing
  <1>7. ASSUME Fine(c)', NEW o \in Threads PROVE ExitsOK(o, u, c)'
    <2>1. ExitsOK(o, u, c)
      BY <1>2, <1>7 DEF Lots
    <2>2. CASE o = t
      BY <1>1, <1>7, <2>1, <2>2 DEF ExitsOK, Exits
    <2>3. CASE o # t
      BY <1>1, <1>4, <2>1, <2>3 DEF ExitsOK, Exits, Closes
    <2> QED
      BY <2>2, <2>3
  <1>8. Clean(c)' => BookOK(u, c)'
    BY <1>1, <1>2, <1>4 DEF Lots, BookOK, Closing
  <1> QED
    BY <1>5, <1>6, <1>7, <1>8 DEF Lots

\* A claim.
LEMMA ClaimLegLots ==
    ASSUME SInv, EInv, NEW t \in Threads, ClaimLeg(t), NEW u \in Underlyings, NEW c \in LegSet(u)
    PROVE  Lots(u, c)'
  <1>1. PICK k : k = task[t]
    OBVIOUS
  <1>2. PICK n : /\ Moves(t, n)
                 /\ n.act = k.act /\ n.at = "sent" /\ n.u = k.u
                 /\ n.legs = k.legs /\ n.ok = k.ok
    BY <1>1, ClaimLegDoes
  <1>3. /\ k.act \in Closing /\ k.legs # <<>> /\ process' = process
        /\ Head(k.legs).sym \in book
        /\ excused' = excused \/ excused' = excused \cup {Head(k.legs).sym}
        /\ Head(k.legs).sym \in excused' \/ ~Entering(t, Head(k.legs).sym)
        /\ UNCHANGED <<book, held, open, legsRec, latch, alerted>>
    BY <1>1, ClaimLegDoes DEF ClaimLeg
  <1>4. /\ task'[t] = n /\ \A o \in Threads \ {t} : task'[o] = task[o]
        /\ "loop" \in Threads
    BY <1>1, <1>2, <1>3, ClosingMoves
  <1>5. (Fine(c)' => Fine(c)) /\ (Clean(c)' => Clean(c))
    BY <1>3 DEF Fine, Clean
  <1>6. Closes(n, c) => c \in book /\ (Fine(c)' => ~OnTheWay(task'["loop"], c))
    <2> SUFFICES ASSUME Closes(n, c) PROVE c \in book /\ (Fine(c)' => ~OnTheWay(task'["loop"], c))
      OBVIOUS
    <2>1. c = Head(k.legs).sym
      BY <1>2 DEF Closes
    <2>2. CASE t = "loop"
      BY <1>2, <1>3, <1>4, <2>1, <2>2 DEF OnTheWay, Closing
    <2>3. CASE t # "loop"
      BY <1>3, <1>4, <2>1, <2>3 DEF OnTheWay, Entering, Fine, Sym, Leg1
    <2> QED
      BY <2>2, <2>3
  <1> QED
    BY <1>1, <1>2, <1>3, <1>5, <1>6, ClosingLots DEF Exits

\* A claim that is refused.
LEMMA ClaimRefusedLots ==
    ASSUME SInv, EInv, NEW t \in Threads, ClaimRefused(t), NEW u \in Underlyings, NEW c \in LegSet(u)
    PROVE  Lots(u, c)'
  <1>1. PICK k : k = task[t]
    OBVIOUS
  <1>2. PICK n : /\ Moves(t, n)
                 /\ n.act = k.act /\ n.at = "ready" /\ n.u = k.u
                 /\ n.legs = Tail(k.legs) /\ ~n.ok
    BY <1>1, ClaimRefusedDoes
  <1>3. /\ k.act \in Closing /\ k.legs # <<>> /\ process' = process
        /\ alerted' = alerted \cup {Head(k.legs).sym}
        /\ UNCHANGED <<book, held, open, legsRec, latch, excused>>
    BY <1>1, ClaimRefusedDoes DEF ClaimRefused
  <1>4. (Fine(c)' => Fine(c)) /\ (Clean(c)' => Clean(c) /\ c # Head(k.legs).sym)
    BY <1>3 DEF Fine, Clean
  <1>5. Syms(k.legs) = {Head(k.legs).sym} \cup Syms(Tail(k.legs))
    BY <1>1, <1>2, <1>3, ClosingMoves
  <1> QED
    BY <1>1, <1>2, <1>3, <1>4, <1>5, ClosingLots DEF Closes, Exits

\* An exit that fails, and may have filled.
LEMMA ExitFailsLots ==
    ASSUME SInv, EInv, NEW t \in Threads, ExitFails(t), NEW u \in Underlyings, NEW c \in LegSet(u)
    PROVE  Lots(u, c)'
  <1>1. PICK k : k = task[t]
    OBVIOUS
  <1>2. PICK n : /\ Moves(t, n)
                 /\ n.act = k.act /\ n.at = "ready" /\ n.u = k.u
                 /\ n.legs = Tail(k.legs) /\ ~n.ok
    BY <1>1, ExitFailsDoes
  <1>3. /\ k.act \in Closing /\ k.legs # <<>> /\ process' = process
        /\ alerted' = alerted \cup {Head(k.legs).sym}
        /\ UNCHANGED <<book, open, legsRec, latch, excused>>
    BY <1>1, ExitFailsDoes DEF ExitFails
  <1>4. PICK filled \in {0, 1} : held' = [held EXCEPT ![Head(k.legs).sym] = @ - filled]
    BY <1>1, ExitFailsDoes
  <1>5. /\ Syms(k.legs) = {Head(k.legs).sym} \cup Syms(Tail(k.legs)) /\ Running
        /\ task'[t] = n /\ \A o \in Threads \ {t} : task'[o] = task[o]
        /\ "loop" \in Threads
    BY <1>1, <1>2, <1>3, ClosingMoves
  <1>6. c \in Contracts /\ held[c] \in Int /\ held \in [Contracts -> Int]
    BY LotFacts
  <1>7. (Fine(c)' => Fine(c)) /\ (Clean(c)' => Clean(c) /\ c # Head(k.legs).sym)
    BY <1>3 DEF Fine, Clean
  <1>8. CASE c # Head(k.legs).sym
    <2>1. held'[c] = held[c]
      BY <1>4, <1>6, <1>8
    <2> QED
      BY <1>1, <1>2, <1>3, <1>5, <1>7, <1>8, <2>1, ClosingLots DEF Closes, Exits
  <1>9. CASE c = Head(k.legs).sym
    <2>1. held'[c] \in {held[c], held[c] - 1}
      BY <1>4, <1>6, <1>9
    <2>2. Lots(u, c)
      BY DEF EInv
    <2>3. OnTheWay(task'["loop"], c) <=> OnTheWay(task["loop"], c)
      BY <1>1, <1>2, <1>3, <1>5 DEF OnTheWay, Closing
    <2>4. Fine(c) => LotOK(u, c)'
      BY <1>1, <1>2, <1>3, <1>5, <1>6, <2>1, <2>2 DEF Lots, LotOK, Closing, Running
    <2>5. Fine(c) => EntersOK(u, c)'
      BY <1>1, <1>2, <1>3, <1>5, <1>6, <2>1, <2>2, <2>3 DEF Lots, EntersOK, Closing
    <2>6. ASSUME Fine(c), NEW o \in Threads PROVE ExitsOK(o, u, c)'
      <3>1. ExitsOK(o, u, c)
        BY <2>2, <2>6 DEF Lots
      <3>2. CASE o = t
        BY <1>2, <1>5, <3>2 DEF ExitsOK, Closes
      <3>3. CASE o # t
        BY <1>3, <1>5, <1>6, <2>1, <2>3, <3>1, <3>3 DEF ExitsOK, Exits, Closes
      <3> QED
        BY <3>2, <3>3
    <2> QED
      BY <1>7, <1>9, <2>4, <2>5, <2>6 DEF Lots
  <1> QED
    BY <1>8, <1>9

\* An exit that fills.
LEMMA ExitFillsLots ==
    ASSUME SInv, EInv, NEW t \in Threads, ExitFills(t), NEW u \in Underlyings, NEW c \in LegSet(u)
    PROVE  Lots(u, c)'
  <1>1. PICK k : k = task[t]
    OBVIOUS
  <1>2. PICK n : /\ Moves(t, n)
                 /\ n.act = k.act /\ n.at = "ready" /\ n.u = k.u
                 /\ n.legs = Tail(k.legs) /\ n.ok = k.ok
    BY <1>1, ExitFillsDoes
  <1>3. /\ k.act \in Closing /\ k.at = "sent" /\ k.legs # <<>> /\ process' = process
        /\ held' = [held EXCEPT ![Head(k.legs).sym] = @ - 1]
        /\ book' = book \ {Head(k.legs).sym}
        /\ UNCHANGED <<open, legsRec, latch, alerted, excused>>
    BY <1>1, ExitFillsDoes DEF ExitFills
  <1>4. /\ Syms(k.legs) = {Head(k.legs).sym} \cup Syms(Tail(k.legs)) /\ Running
        /\ task'[t] = n /\ \A o \in Threads \ {t} : task'[o] = task[o]
        /\ "loop" \in Threads
    BY <1>1, <1>2, <1>3, ClosingMoves
  <1>5. c \in Contracts /\ c \in Traded /\ held[c] \in Int /\ held \in [Contracts -> Int]
    BY LotFacts
  <1>6. Fine(c)' = Fine(c) /\ Clean(c)' = Clean(c) /\ (Clean(c) => Fine(c))
    BY <1>3 DEF Fine, Clean
  <1>7. CASE c # Head(k.legs).sym
    <2>1. held'[c] = held[c]
      BY <1>3, <1>5, <1>7
    <2> QED
      BY <1>1, <1>2, <1>3, <1>4, <1>6, <1>7, <2>1, ClosingLots DEF Closes, Exits
  <1>8. CASE c = Head(k.legs).sym
    <2>1. held'[c] = held[c] - 1 /\ c \notin book' /\ Closes(k, c)
      BY <1>3, <1>5, <1>8 DEF Closes
    <2>2. Lots(u, c)
      BY DEF EInv
    <2>3. \A o \in Threads : Closes(task[o], c) => o = t
      BY <1>1, <1>5, <2>1 DEF SInv, Claims
    <2>4. OnTheWay(task'["loop"], c) <=> OnTheWay(task["loop"], c)
      BY <1>1, <1>2, <1>3, <1>4 DEF OnTheWay, Closing
    <2>5. Fine(c) => c \in book /\ ~OnTheWay(task["loop"], c) /\ held[c] <= 1
      BY <1>1, <2>1, <2>2 DEF Lots, ExitsOK, LotOK
    <2>6. Fine(c) => LotOK(u, c)'
      BY <1>5, <2>1, <2>5 DEF LotOK
    <2>7. Fine(c) => EntersOK(u, c)'
      BY <1>1, <1>2, <1>3, <1>4, <1>5, <2>1, <2>2, <2>4, <2>5 DEF Lots, EntersOK, Closing
    <2>8. ASSUME Fine(c), NEW o \in Threads PROVE ExitsOK(o, u, c)'
      <3>1. ~Closes(task'[o], c)
        BY <1>2, <1>4, <2>3 DEF Closes
      <3> QED
        BY <1>5, <2>1, <2>5, <2>8, <3>1 DEF ExitsOK
    <2>9. Clean(c) => BookOK(u, c)'
      BY <1>5, <1>6, <2>1, <2>2, <2>5 DEF Lots, BookOK
    <2> QED
      BY <1>6, <2>6, <2>7, <2>8, <2>9 DEF Lots
  <1> QED
    BY <1>7, <1>8

\* A call sequence that closed is through.
LEMMA ClosedLots ==
    ASSUME SInv, EInv, NEW t \in Threads, LegsClosed(t) \/ ExitConfirmed(t),
           NEW u \in Underlyings, NEW c \in LegSet(u)
    PROVE  Lots(u, c)'
  <1>1. PICK k : k = task[t]
    OBVIOUS
  <1>2. PICK n : Moves(t, n) /\ n.act = "none"
    BY <1>1, LegsClosedDoes, ExitConfirmedDoes
  <1>3. /\ k.act \in Closing /\ (k.act = "unwind" => k.legs = <<>>)
        /\ UNCHANGED <<book, held, open, legsRec, alerted, excused>>
    BY <1>1, LegsClosedDoes, ExitConfirmedDoes DEF Closing
  <1>4. process' = process
    BY DEF LegsClosed, ExitConfirmed
  <1>5. Fine(c)' = Fine(c) /\ Clean(c)' = Clean(c)
    BY <1>3 DEF Fine, Clean
  <1>6. ~Closes(n, c) /\ ~Exits(n, u)
    BY <1>2 DEF Closes, Exits, Closing
  <1> QED
    BY <1>1, <1>2, <1>3, <1>4, <1>5, <1>6, SymsNone, ClosingLots

\* A structure all of whose legs closed is not held.
LEMMA UntrackLots ==
    ASSUME SInv, EInv, NEW t \in Threads, Untrack(t), NEW u \in Underlyings, NEW c \in LegSet(u)
    PROVE  Lots(u, c)'
  <1>1. PICK k : k = task[t]
    OBVIOUS
  <1>2. PICK n : /\ Moves(t, n)
                 /\ n.act = "exit" /\ n.u = k.u /\ n.legs = k.legs /\ n.ok = k.ok
                 /\ \/ k.ok /\ n.at = "record" /\ open' = [open EXCEPT ![k.u] = <<>>]
                    \/ ~k.ok /\ n.at = "confirm" /\ open' = open
    BY <1>1, UntrackDoes
  <1>3. /\ k.act = "exit" /\ k.legs = <<>> /\ k.u \in Underlyings /\ process' = process
        /\ UNCHANGED <<book, held, legsRec, latch, alerted, excused>>
    BY <1>1, UntrackDoes DEF Untrack
  <1>4. Fine(c)' = Fine(c) /\ Clean(c)' = Clean(c) /\ (Clean(c) => Fine(c))
    BY <1>3 DEF Fine, Clean
  <1>5. /\ task'[t] = n /\ \A o \in Threads \ {t} : task'[o] = task[o]
        /\ "loop" \in Threads /\ Running
    BY <1>1, <1>2, <1>3, ClosingMoves DEF Closing
  <1>6. /\ held[c] \in Int /\ open \in [Underlyings -> Seq(TLeg)]
    BY LotFacts
  <1>7. ~Closes(n, c)
    BY <1>2 DEF Closes
  <1>8. CASE open'[u] = open[u]
    BY <1>1, <1>2, <1>3, <1>4, <1>7, <1>8, ClosingLots DEF Exits, Closing
  <1>9. CASE open'[u] # open[u]
    <2>1. u = k.u /\ k.ok /\ open'[u] = <<>>
      BY <1>2, <1>6, <1>9
    <2>2. Lots(u, c)
      BY DEF EInv
    <2>3. Fine(c) => held[c] <= 0 /\ c \notin book
      BY <1>1, <1>3, <2>1, <2>2, SymsNone DEF Lots, ExitsOK, Exits
    <2>4. Fine(c) => LotOK(u, c)'
      BY <1>3, <1>6, <2>3 DEF LotOK
    <2>5. OnTheWay(task'["loop"], c) <=> OnTheWay(task["loop"], c)
      BY <1>1, <1>2, <1>3, <1>5 DEF OnTheWay
    <2>6. Fine(c) => EntersOK(u, c)'
      BY <1>1, <1>2, <1>3, <1>5, <2>2, <2>3, <2>5 DEF Lots, EntersOK
    <2>7. ASSUME Fine(c), NEW o \in Threads PROVE ExitsOK(o, u, c)'
      <3>1. ExitsOK(o, u, c)
        BY <2>2, <2>7 DEF Lots
      <3>2. CASE o = t
        BY <1>3, <1>5, <1>7, <2>3, <2>7, <3>2 DEF ExitsOK
      <3>3. CASE o # t
        BY <1>3, <1>5, <2>5, <3>1, <3>3 DEF ExitsOK, Exits, Closes
      <3> QED
        BY <3>2, <3>3
    <2>8. Clean(c) => BookOK(u, c)'
      BY <1>3, <1>4, <2>2, <2>3 DEF Lots, BookOK
    <2> QED
      BY <1>4, <2>4, <2>6, <2>7, <2>8 DEF Lots
  <1> QED
    BY <1>8, <1>9

\* So its record can go.
LEMMA ClearLots ==
    ASSUME SInv, EInv, NEW t \in Threads, ClearStructure(t), NEW u \in Underlyings, NEW c \in LegSet(u)
    PROVE  Lots(u, c)'
  <1>1. PICK k : k = task[t]
    OBVIOUS
  <1>2. PICK n : /\ Moves(t, n)
                 /\ n.act = "exit" /\ n.at = "confirm" /\ n.u = k.u /\ n.legs = k.legs /\ n.ok = k.ok
    BY <1>1, ClearDoes
  <1>3. /\ k.act = "exit" /\ k.at = "record" /\ k.legs = <<>> /\ k.u \in Underlyings /\ process' = process
        /\ legsRec' = [legsRec EXCEPT ![k.u] = <<>>] \/ legsRec' = legsRec
        /\ UNCHANGED <<book, held, open, latch, alerted, excused>>
    BY <1>1, ClearDoes DEF ClearStructure
  <1>4. Fine(c)' = Fine(c) /\ Clean(c)' = Clean(c) /\ (Clean(c) => Fine(c))
    BY <1>3 DEF Fine, Clean
  <1>5. /\ task'[t] = n /\ \A o \in Threads \ {t} : task'[o] = task[o]
        /\ "loop" \in Threads /\ Running
    BY <1>1, <1>2, <1>3, ClosingMoves DEF Closing
  <1>6. /\ held[c] \in Int /\ legsRec \in [Underlyings -> Seq(Traded)]
    BY LotFacts
  <1>7. ~Closes(n, c)
    BY <1>2 DEF Closes
  <1>8. CASE legsRec'[u] = legsRec[u]
    BY <1>1, <1>2, <1>3, <1>4, <1>7, <1>8, ClosingLots DEF Exits, Closing
  <1>9. CASE legsRec'[u] # legsRec[u]
    <2>1. u = k.u /\ k.ok
      BY <1>1, <1>3, <1>6, <1>9 DEF SInv, InShape, Shaped
    <2>2. Lots(u, c)
      BY DEF EInv
    <2>3. Fine(c) => held[c] <= 0 /\ c \notin book
      BY <1>1, <1>3, <2>1, <2>2, SymsNone DEF Lots, ExitsOK, Exits
    <2>4. Fine(c) => LotOK(u, c)'
      BY <1>3, <1>6, <2>3 DEF LotOK
    <2>5. OnTheWay(task'["loop"], c) <=> OnTheWay(task["loop"], c)
      BY <1>1, <1>2, <1>3, <1>5 DEF OnTheWay
    <2>6. Fine(c) => EntersOK(u, c)'
      BY <1>1, <1>2, <1>3, <1>5, <2>2, <2>5 DEF Lots, EntersOK
    <2>7. ASSUME Fine(c), NEW o \in Threads PROVE ExitsOK(o, u, c)'
      <3>1. ExitsOK(o, u, c)
        BY <2>2, <2>7 DEF Lots
      <3>2. CASE o = t
        BY <1>3, <1>5, <1>7, <2>3, <2>7, <3>2 DEF ExitsOK
      <3>3. CASE o # t
        BY <1>3, <1>5, <2>5, <3>1, <3>3 DEF ExitsOK, Exits, Closes
      <3> QED
        BY <3>2, <3>3
    <2>8. Clean(c) => BookOK(u, c)'
      BY <1>3, <1>4, <2>2, <2>3 DEF Lots, BookOK
    <2> QED
      BY <1>4, <2>4, <2>6, <2>7, <2>8 DEF Lots
  <1> QED
    BY <1>8, <1>9

\* A step within a call sequence keeps the lots.
LEMMA WorkLots ==
    ASSUME SInv, EInv, NEW t \in Threads, Works(t)
    PROVE  EInv'
  <1>1. ASSUME NEW u \in Underlyings, NEW c \in LegSet(u) PROVE Lots(u, c)'
    BY <1>1, ValidateLegLots, RefuseLegLots, OpenLegLots, EntryFillsLots, EntryRejectedLots,
       EntryUnknownLots, TrackStructureLots, PersistLots, EntryConfirmedLots, ClaimLegLots,
       ClaimRefusedLots, ExitFillsLots, ExitFailsLots, ClosedLots, UntrackLots, ClearLots DEF Works
  <1> QED
    BY <1>1 DEF EInv

-----------------------------------------------------------------------------
(***************************************************************************)
(* Days, and the steps between the call sequences.                         *)
(***************************************************************************)
\* A step within a call sequence moves its goroutine, on the same agenda.
LEMMA WorkMoves ==
    ASSUME SInv, NEW t \in Threads, Works(t)
    PROVE  \E n : Moves(t, n) /\ GoesOn(task[t], n)
  BY ValidateLegDoes, RefuseLegDoes, OpenLegDoes, EntryFillsDoes, EntryRejectedDoes, EntryUnknownDoes,
     TrackStructureDoes, PersistDoes, EntryConfirmedDoes, ClaimLegDoes, ClaimRefusedDoes,
     ExitFillsDoes, ExitFailsDoes, LegsClosedDoes, UntrackDoes, ClearDoes, ExitConfirmedDoes DEF Works

\* A goroutine with nothing to do has no evaluation ahead.
LEMMA IdleAgenda == "evaluate" \notin ToSet(Idle.agenda)
  BY IdleTyped DEF ToSet

\* Every step keeps the evaluations to the day of their instant.
LEMMA DaysStep == SInv /\ DInv /\ [Next]_vars => DInv'
  <1> SUFFICES ASSUME SInv, DInv, [Next]_vars, NEW t \in Threads, "evaluate" \in ToSet(task'[t].agenda)
               PROVE  Day(task'[t].time) = Day(now')
    BY DEF DInv
  <1>1. ASSUME NEW o \in Threads, Walks(o)
        PROVE  Day(task'[t].time) = Day(now')
    <2>1. PICK n : Moves(o, n) /\ InTime(task[o], n)
      BY <1>1 DEF Walks
    <2>2. task'[o] = n /\ (t # o => task'[t] = task[t]) /\ now' = now
      BY <1>1, <2>1, MovesFacts DEF SInv, Types, Walks
    <2> QED
      BY <2>1, <2>2 DEF DInv, InTime
  <1>2. ASSUME NEW o \in Threads, Works(o)
        PROVE  Day(task'[t].time) = Day(now')
    <2>1. PICK n : Moves(o, n) /\ GoesOn(task[o], n)
      BY <1>2, WorkMoves
    <2>2. task'[o] = n /\ (t # o => task'[t] = task[t])
      BY <2>1, MovesFacts DEF SInv, Types
    <2>3. now' = now
      BY <1>2, WorksFacts
    <2> QED
      BY <2>1, <2>2, <2>3 DEF DInv, GoesOn
  <1>3. ~Stops
    BY IdleAgenda DEF Stops, Memoryless
  <1>4. CASE Begins
    <2>1. task' = task /\ now' = now
      BY <1>4 DEF Begins, Start, RestoreAgain
    <2> QED
      BY <2>1 DEF DInv
  <1>5. CASE Fires \/ Rests
    <2>1. task' = task /\ now' = now
      BY <1>5 DEF Fires, StopFires, Rests, Pause, Resume, vars
    <2> QED
      BY <2>1 DEF DInv
  <1>6. CASE Clock
    <2>1. task' = task /\ now' = now + 1 /\ (Day(now + 1) # Day(now) => \A o \in Threads : task[o] = Idle)
      BY <1>6 DEF Clock
    <2>2. Day(now + 1) = Day(now)
      BY <2>1, IdleAgenda
    <2> QED
      BY <2>1, <2>2 DEF DInv
  <1> QED
    BY Kinds, <1>1, <1>2, <1>3, <1>4, <1>5, <1>6

\* A contract is tracked with its structure.
LEMMA TrackedLeg ==
    ASSUME SInv, NEW u \in Underlyings, NEW c \in LegSet(u)
    PROVE  c \in TrackedContracts <=> open[u] # <<>>
  <1>1. \A v \in Underlyings : open[v] \in Seq(TLeg)
    BY DEF SInv, BooksTyped
  <1>2. \A v \in Underlyings : ToSet(SymsOf(open[v])) = Syms(open[v])
    BY <1>1, SymsSome
  <1>3. \A v \in Underlyings : open[v] # <<>> => Syms(open[v]) = LegSet(v)
    BY DEF SInv, Whole
  <1>4. ASSUME NEW v \in Underlyings, c \in Syms(open[v])
        PROVE  v = u /\ open[u] # <<>>
    <2>1. open[v] # <<>>
      BY <1>4, SymsNone
    <2>2. c \in LegSet(v)
      BY <1>3, <1>4, <2>1
    <2> QED
      BY <2>1, <2>2, LegsApart
  <1> QED
    BY <1>2, <1>3, <1>4 DEF TrackedContracts

\* Between two call sequences, what is begun finds the lots as it needs them.
LEMMA WalkLots ==
    ASSUME SInv, EInv, LInv, DInv, NEW t \in Threads, Walks(t)
    PROVE  EInv'
  <1> SUFFICES ASSUME NEW u \in Underlyings, NEW c \in LegSet(u) PROVE Lots(u, c)'
    BY DEF EInv
  <1>1. PICK n : Moves(t, n) /\ Fresh(t, task[t], n)
    BY DEF Walks
  <1>2. /\ Running /\ task[t].act = "none" /\ "loop" \in Threads
        /\ UNCHANGED <<process, book, held, open, legsRec, alerted, excused>>
    BY DEF Walks, durable, exchange, history, Threads
  <1>3. task'[t] = n /\ \A o \in Threads \ {t} : task'[o] = task[o]
    BY <1>1, MovesFacts DEF SInv, Types
  <1>4. Lots(u, c) /\ Fine(c)' = Fine(c) /\ Clean(c)' = Clean(c)
    BY <1>2 DEF EInv, Fine, Clean
  <1>5. /\ open[u] # <<>> => Syms(open[u]) = LegSet(u)
        /\ \A v \in Underlyings : c \in LegSet(v) => v = u
        /\ held[c] \in Int
    BY LotFacts
  <1>6. n.act # "none" => n.at = "ready"
    BY <1>1 DEF Fresh
  <1>7. n.act = "enter" => t = "loop" /\ BeginsEntry(task[t], n)
    BY <1>1 DEF Fresh, BeginsExit, BeginsSingle
  <1>8. n.act = "exit" => BeginsExit(n)
    BY <1>1 DEF Fresh, BeginsEntry, BeginsSingle
  <1>9. n.act # "unwind"
    BY <1>1 DEF Fresh, BeginsExit, BeginsEntry, BeginsSingle
  <1>10. OnTheWay(task'["loop"], c) <=> OnTheWay(task["loop"], c)
    BY <1>2, <1>3, <1>6 DEF OnTheWay
  <1>11. Fine(c) => LotOK(u, c)'
    BY <1>2, <1>3, <1>4, <1>6 DEF Lots, LotOK, Running
  <1>12. Clean(c) => BookOK(u, c)'
    BY <1>2, <1>3, <1>4, <1>10 DEF Lots, BookOK, OnTheWay
  <1>13. ASSUME Fine(c), NEW o \in Threads PROVE ExitsOK(o, u, c)'
    <2>1. CASE o = t
      <3>1. ~Closes(n, c)
        BY <1>6 DEF Closes, Closing
      <3>2. Exits(n, u) => c \in Syms(n.legs)
        BY <1>5, <1>8 DEF Exits, BeginsExit
      <3> QED
        BY <1>3, <2>1, <3>1, <3>2 DEF ExitsOK
    <2>2. CASE o # t
      BY <1>2, <1>3, <1>4, <1>10, <1>13, <2>2 DEF Lots, ExitsOK
    <2> QED
      BY <2>1, <2>2
  <1>14. ASSUME Fine(c) PROVE EntersOK(u, c)'
    <2>1. CASE t = "loop" /\ n.act = "enter"
      <3>1. /\ BeginsEntry(task[t], n) /\ n.at = "ready" /\ ~OnTheWay(n, c) /\ task'["loop"] = n
        BY <1>3, <1>6, <1>7, <2>1 DEF OnTheWay
      <3>2. SUFFICES ASSUME c \in Syms(n.legs) PROVE held[c] <= 0 /\ c \notin book
        BY <1>2, <3>1 DEF EntersOK
      <3>3. n.u = u /\ open[u] = <<>>
        BY <1>5, <3>1, <3>2 DEF BeginsEntry
      <3>4. c \notin book
        <4>1. CASE Clean(c)
          BY <1>2, <1>4, <2>1, <3>3, <4>1 DEF Lots, BookOK
        <4>2. CASE ~Clean(c)
          <5>1. Latched /\ c \notin excused
            BY <1>14, <4>2 DEF Fine, Clean
          <5>2. "evaluate" \in ToSet(task["loop"].agenda)
                /\ ~(latch[u].signaledEntry /\ latch[u].lastDate = Day(task["loop"].time))
            BY <2>1, <3>1, <3>3, <5>1 DEF BeginsEntry
          <5>3. Day(task["loop"].time) = Day(now)
            BY <1>2, <5>2 DEF DInv
          <5> QED
            BY <3>3, <5>1, <5>2, <5>3 DEF LInv, SignaledToday
        <4> QED
          BY <4>1, <4>2
      <3>5. held[c] <= 0
        BY <1>2, <1>4, <1>5, <1>14, <3>3, <3>4 DEF Lots, LotOK
      <3> QED
        BY <3>4, <3>5
    <2>2. CASE t = "loop" /\ n.act # "enter"
      BY <1>3, <2>2 DEF EntersOK
    <2>3. CASE t # "loop"
      BY <1>2, <1>3, <1>4, <1>10, <1>14, <2>3 DEF Lots, EntersOK
    <2> QED
      BY <2>1, <2>2, <2>3
  <1> QED
    BY <1>4, <1>11, <1>12, <1>13, <1>14 DEF Lots

\* What a call sequence is about is under way.
LEMMA UnderWayHas ==
    ASSUME SInv, NEW t \in Threads
    PROVE  Syms(task[t].legs) \cup Syms(task[t].done) \subseteq UnderWay
  <1>1. PICK legs, done : legs = task[t].legs /\ done = task[t].done
    OBVIOUS
  <1>2. legs \in Seq(TLeg) /\ done \in Seq(TLeg)
    BY <1>1, TaskFields DEF SInv, Types
  <1>3. PICK all : all = legs \o done
    OBVIOUS
  <1>4. /\ all \in Seq(TLeg) /\ Len(all) = Len(legs) + Len(done)
        /\ \A i \in 1..Len(legs) + Len(done) :
               all[i] = IF i <= Len(legs) THEN legs[i] ELSE done[i - Len(legs)]
        /\ Len(legs) \in Nat /\ Len(done) \in Nat
        /\ DOMAIN legs = 1..Len(legs) /\ DOMAIN done = 1..Len(done) /\ DOMAIN all = 1..Len(all)
    BY <1>2, <1>3, ConcatProperties, LenProperties
  <1>5. ASSUME NEW i \in DOMAIN legs PROVE i \in DOMAIN all /\ all[i] = legs[i]
    BY <1>4
  <1>6. ASSUME NEW i \in DOMAIN done
        PROVE  Len(legs) + i \in DOMAIN all /\ all[Len(legs) + i] = done[i]
    <2>1. /\ Len(legs) + i \in 1..Len(legs) + Len(done)
          /\ ~(Len(legs) + i <= Len(legs)) /\ (Len(legs) + i) - Len(legs) = i
      BY <1>4
    <2> QED
      BY <1>4, <2>1
  <1>7. Syms(legs) \cup Syms(done) \subseteq Syms(all)
    BY <1>5, <1>6 DEF Syms
  <1>8. Syms(all) = ToSet(SymsOf(all))
    BY <1>4, SymsSome
  <1>9. ToSet(SymsOf(all)) \subseteq UnderWay
    BY <1>1, <1>3 DEF UnderWay
  <1> QED
    BY <1>1, <1>7, <1>8, <1>9

\* A process that stops leaves what its records can bring back.
LEMMA StopLots ==
    ASSUME SInv, EInv, Stops
    PROVE  EInv'
  <1> SUFFICES ASSUME NEW u \in Underlyings, NEW c \in LegSet(u) PROVE Lots(u, c)'
    BY DEF EInv
  <1>1. /\ Running /\ ~Running' /\ book' = {} /\ alerted' = alerted /\ legsRec' = legsRec
        /\ task' = [t \in Threads |-> Idle] /\ open'[u] = <<>>
        /\ excused' = excused \cup (book \ TrackedContracts) \cup UnderWay
    BY DEF Stops, Memoryless, LastFills, Running
  <1>2. \A t \in Threads : task'[t] = Idle
    BY <1>1
  <1>3. task'["loop"] = Idle /\ "loop" \in Threads
    BY <1>2 DEF Threads
  <1>4. PICK bought \in SUBSET InFlight({"enter"}), sold \in SUBSET InFlight(Closing) :
            held' = [d \in Contracts |-> held[d] + (IF d \in bought THEN 1 ELSE 0)
                                                 - (IF d \in sold THEN 1 ELSE 0)]
    BY DEF Stops, LastFills
  <1>5. /\ c \in Contracts /\ held[c] \in Int
        /\ Lots(u, c)
    BY LotFacts DEF EInv
  <1>6. ASSUME NEW t \in Threads, task[t].at = "sent", task[t].act \in {"enter"} \cup Closing
        PROVE  Sym(t) \in UnderWay
    <2>1. task[t].legs # <<>> /\ task[t] \in TTask
      BY <1>6 DEF SInv, Types, InShape, Shaped, Closing
    <2>2. Head(task[t].legs).sym \in Syms(task[t].legs)
      BY <2>1, SymsTail, TaskFields
    <2> QED
      BY <2>2, UnderWayHas DEF Sym, Leg1
  <1>7. bought \subseteq UnderWay /\ sold \subseteq UnderWay
    BY <1>4, <1>6 DEF InFlight
  <1>8. Fine(c)' => Fine(c) /\ held'[c] = held[c] /\ c \notin UnderWay /\ (c \in book => open[u] # <<>>)
    BY <1>1, <1>4, <1>5, <1>7, TrackedLeg DEF Fine
  <1>9. Clean(c)' => Clean(c) /\ held'[c] = held[c]
    BY <1>1, <1>4, <1>5, <1>7 DEF Clean
  <1>10. ASSUME Fine(c)' PROVE LotOK(u, c)'
    <2>1. held[c] = 1 => legsRec[u] # <<>>
      <3>1. SUFFICES ASSUME held[c] = 1, legsRec[u] = <<>> PROVE FALSE
        OBVIOUS
      <3>2. task["loop"].act = "enter" /\ task["loop"].at = "record" /\ task["loop"].u = u
        BY <1>1, <1>5, <1>8, <1>10, <3>1 DEF Lots, LotOK
      <3>3. c \in Syms(task["loop"].done)
        <4>1. PICK k : k = task["loop"]
          OBVIOUS
        <4>2. Syms(k.done) \cup Syms(k.legs) = LegSet(u) /\ k.legs = <<>>
          BY <3>2, <4>1, EntryFacts
        <4> QED
          BY <4>1, <4>2, SymsNone
      <3> QED
        BY <1>3, <1>8, <1>10, <3>3, UnderWayHas
    <2> QED
      BY <1>1, <1>5, <1>8, <1>10, <2>1 DEF Lots, LotOK
  <1>11. EntersOK(u, c)' /\ \A t \in Threads : ExitsOK(t, u, c)'
    BY <1>2, <1>3, IdleTyped DEF EntersOK, ExitsOK, Exits, Closes, Closing
  <1>12. Clean(c)' => BookOK(u, c)'
    BY <1>1, <1>5, <1>9 DEF Lots, BookOK
  <1> QED
    BY <1>10, <1>11, <1>12 DEF Lots

\* What a stop order sells, and what a night leaves untracked, is excused; a
\* pause changes no lot.
LEMMA WorldLots ==
    ASSUME SInv, EInv, Fires \/ Clock \/ Rests
    PROVE  EInv'
  <1> SUFFICES ASSUME NEW u \in Underlyings, NEW c \in LegSet(u) PROVE Lots(u, c)'
    BY DEF EInv
  <1>1. UNCHANGED <<process, task, book, open, legsRec, alerted>>
    BY DEF Fires, StopFires, Clock, Rests, Pause, Resume, vars, memory, durable, history
  <1>2. excused \subseteq excused' /\ (c \notin excused' => held'[c] = held[c])
    <2>1. CASE Fires
      <3>1. PICK ticket \in stops : StopFires(ticket)
        BY <2>1 DEF Fires
      <3>2. held \in [Contracts -> Int] /\ c \in Contracts
        BY LotFacts
      <3> QED
        BY <3>1, <3>2 DEF StopFires
    <2>2. CASE Clock
      BY <2>2 DEF Clock, exchange
    <2>3. CASE Rests
      BY <2>3 DEF Rests, Pause, Resume, vars, exchange, history
    <2> QED
      BY <2>1, <2>2, <2>3
  <1>3. Lots(u, c)
    BY DEF EInv
  <1> QED
    BY <1>1, <1>2, <1>3 DEF Lots, Fine, Clean, LotOK, EntersOK, ExitsOK, BookOK, OnTheWay, Exits,
       Closes, Running

\* What a start, and the second restore, find of a contract that stays unmarked.
LEMMA BeginFacts ==
    ASSUME SInv, EInv, Begins, NEW u \in Underlyings, NEW c \in LegSet(u), Fine(c)'
    PROVE  /\ task' = task /\ task["loop"] = Idle /\ ~ticking /\ Running'
           /\ held' = held /\ legsRec' = legsRec /\ Fine(c) /\ (Clean(c)' => Clean(c))
           /\ held[c] \in {0, 1}
           /\ c \in book => c \in book' /\ Running
           /\ c \in book' => c \in book \/ held[c] = 1
           /\ open[u] # <<>> => open'[u] # <<>>
           /\ open'[u] # <<>> => open[u] # <<>> \/ legsRec[u] # <<>>
           /\ held[c] = 1 => (c \in book \/ open'[u] # <<>>)
  <1>1. /\ task' = task /\ task["loop"] = Idle /\ Running' /\ RestoreState
        /\ held' = held /\ legsRec' = legsRec /\ alerted' = alerted
        /\ ~Running \/ ~ticking
    BY StartKeeps DEF Begins, Start, RestoreAgain, exchange, durable, Running
  <1>2. ~ticking
    BY <1>1 DEF SInv, Control
  <1>3. PICK read \in {rows, {}}, loaded \in BOOLEAN :
            /\ book' = book \cup {r.sym : r \in read}
            /\ open' = [v \in Underlyings |->
                   IF loaded /\ legsRec[v] # <<>> THEN Restored(v, read) ELSE open[v]]
            /\ excused' = excused \cup Mismatched \cup (IF loaded THEN {} ELSE Recorded)
    BY <1>1, Zenon DEF RestoreState
  <1>4. c \notin Mismatched /\ (c \in Recorded => loaded) /\ Fine(c) /\ (Clean(c)' => Clean(c))
    BY <1>1, <1>3 DEF Fine, Clean
  <1>5. /\ c \in Contracts /\ held[c] \in Int
        /\ legsRec[u] # <<>> => ToSet(legsRec[u]) = LegSet(u)
    BY LotFacts
  <1>6. legsRec[u] # <<>> => loaded
    BY <1>4, <1>5 DEF Recorded
  <1>7. held[c] = Cardinality(RowsOf(c)) /\ IsFiniteSet(RowsOf(c))
    <2>1. held[c] = Cardinality(RowsOf(c))
      BY <1>4, <1>5 DEF Mismatched
    <2>2. RowsOf(c) \subseteq rows /\ IsFiniteSet(rows)
      BY DEF RowsOf, SInv, BooksTyped
    <2>3. IsFiniteSet(RowsOf(c))
      BY <2>2, FS_Subset
    <2> QED
      BY <2>1, <2>3
  <1>8. held[c] >= 0 /\ (held[c] = 0 => RowsOf(c) = {})
    BY <1>7, FS_CardinalityType, FS_EmptySet
  <1>9. Lots(u, c) /\ LotOK(u, c)
    BY <1>4 DEF EInv, Lots
  <1>10. held[c] \in {0, 1}
    BY <1>5, <1>8, <1>9 DEF LotOK
  <1>11. c \in book' => c \in book \/ held[c] = 1
    <2>1. SUFFICES ASSUME c \in {r.sym : r \in read} PROVE RowsOf(c) # {}
      BY <1>3, <1>8, <1>10
    <2>2. PICK r \in rows : r.sym = c
      BY <1>3, <2>1
    <2> QED
      BY <2>2 DEF RowsOf
  <1>12. loaded /\ legsRec[u] # <<>> => open'[u] # <<>>
    <2>1. PICK legs : legs = Restored(u, read)
      OBVIOUS
    <2>2. SymsOf(legs) = legsRec[u]
      BY <2>1, RestoredLegs
    <2>3. SymsOf(<<>>) = <<>>
      BY DEF SymsOf
    <2> QED
      BY <1>3, <2>1, <2>2, <2>3
  <1>13. open'[u] = open[u] \/ (loaded /\ legsRec[u] # <<>>)
    BY <1>3
  <1>14. held[c] = 1 => (c \in book \/ open'[u] # <<>>)
    BY <1>6, <1>9, <1>12, <1>13 DEF LotOK
  <1>15. c \in book => c \in book' /\ Running
    BY <1>3 DEF SInv, Control
  <1> QED
    BY <1>1, <1>2, <1>4, <1>10, <1>11, <1>12, <1>13, <1>14, <1>15

\* They bring back the lots, or say which they do not.
LEMMA BeginLots ==
    ASSUME SInv, EInv, Begins
    PROVE  EInv'
  <1> SUFFICES ASSUME NEW u \in Underlyings, NEW c \in LegSet(u), Fine(c)' PROVE Lots(u, c)'
    BY DEF EInv, Lots, Fine, Clean
  <1>1. /\ task' = task /\ task["loop"] = Idle /\ ~ticking /\ Running'
        /\ held' = held /\ legsRec' = legsRec /\ Fine(c) /\ (Clean(c)' => Clean(c))
        /\ held[c] \in {0, 1}
        /\ c \in book => c \in book' /\ Running
        /\ c \in book' => c \in book \/ held[c] = 1
        /\ open[u] # <<>> => open'[u] # <<>>
        /\ open'[u] # <<>> => open[u] # <<>> \/ legsRec[u] # <<>>
        /\ held[c] = 1 => (c \in book \/ open'[u] # <<>>)
    BY BeginFacts
  <1>2. Lots(u, c) /\ LotOK(u, c)
    BY <1>1 DEF EInv, Lots
  <1>3. ~OnTheWay(task["loop"], c) /\ task["loop"].act = "none"
    BY <1>1, IdleTyped DEF OnTheWay
  <1>4. LotOK(u, c)'
    BY <1>1, <1>2, <1>3 DEF LotOK
  <1>5. EntersOK(u, c)'
    BY <1>1, <1>3 DEF EntersOK
  <1>6. ASSUME NEW t \in Threads PROVE ExitsOK(t, u, c)'
    BY <1>1, <1>2, <1>3 DEF Lots, ExitsOK, Exits, Closes, OnTheWay
  <1>7. Clean(c)' => BookOK(u, c)'
    <2>1. Clean(c)' => (c \in book => held[c] = 1 /\ open[u] # <<>>)
      BY <1>1, <1>2, <1>3 DEF Lots, BookOK
    <2> QED
      BY <1>1, <1>3, <2>1 DEF BookOK
  <1> QED
    BY <1>4, <1>5, <1>6, <1>7 DEF Lots

-----------------------------------------------------------------------------
(***************************************************************************)
(* The straddle's signal of the day.                                       *)
(***************************************************************************)
\* A step within a call sequence begins no entry.
LEMMA WorkEnters ==
    ASSUME SInv, NEW t \in Threads, Works(t), NEW u, Enters(task'["loop"], u)
    PROVE  Enters(task["loop"], u)
  <1>1. \E n : /\ Moves(t, n)
               /\ n.act = "enter" /\ n.at \in {"ready", "open", "sent"} =>
                      /\ t = "loop" /\ n.u = task[t].u /\ task[t].act = "enter"
                      /\ task[t].at \in {"ready", "open", "sent"}
    BY ValidateLegDoes, RefuseLegDoes, OpenLegDoes, EntryFillsDoes, EntryRejectedDoes,
       EntryUnknownDoes, TrackStructureDoes, PersistDoes, EntryConfirmedDoes, ClaimLegDoes,
       ClaimRefusedDoes, ExitFillsDoes, ExitFailsDoes, LegsClosedDoes, UntrackDoes, ClearDoes,
       ExitConfirmedDoes DEF Works, Closing
  <1>2. PICK n : /\ Moves(t, n)
                 /\ n.act = "enter" /\ n.at \in {"ready", "open", "sent"} =>
                        /\ t = "loop" /\ n.u = task[t].u /\ task[t].act = "enter"
                        /\ task[t].at \in {"ready", "open", "sent"}
    BY <1>1
  <1>3. task'[t] = n /\ \A o \in Threads \ {t} : task'[o] = task[o]
    BY <1>2, MovesFacts DEF SInv, Types
  <1> QED
    BY <1>2, <1>3 DEF Enters, Threads

\* A step within a call sequence opens only what was signaled, untracks only what
\* is closed, and has the strategy forget its signal only of what is tracked.
LEMMA WorkSignals ==
    ASSUME SInv, EInv, LInv, NEW t \in Threads, Works(t)
    PROVE  LInv'
  <1> SUFFICES ASSUME Latched, NEW u \in Underlyings
               PROVE  /\ \A c \in LegSet(u) \ excused' :
                             c \in book' => open'[u] # <<>> \/ (ticking' /\ SignaledToday(u)')
                      /\ Enters(task'["loop"], u) => SignaledToday(u)'
    BY DEF LInv
  <1>1. Running /\ now' = now /\ ticking' = ticking
    BY WorksFacts
  <1>2. /\ \A c \in LegSet(u) \ excused : c \in book => open[u] # <<>> \/ (ticking /\ SignaledToday(u))
        /\ Enters(task'["loop"], u) => SignaledToday(u)
    BY WorkEnters DEF LInv
  <1>3. \A c \in LegSet(u) \ excused : LotOK(u, c) /\ EntersOK(u, c) /\ \A o \in Threads : ExitsOK(o, u, c)
    BY DEF EInv, Lots, Fine
  <1>4. open \in [Underlyings -> Seq(TLeg)] /\ latch \in [Underlyings -> TLatch]
    BY DEF SInv, BooksTyped
  <1>5. ASSUME book' \subseteq book, open' = open, latch' = latch, excused \subseteq excused'
        PROVE  /\ \A c \in LegSet(u) \ excused' :
                      c \in book' => open'[u] # <<>> \/ (ticking' /\ SignaledToday(u)')
               /\ Enters(task'["loop"], u) => SignaledToday(u)'
    BY <1>1, <1>2, <1>5 DEF SignaledToday
  <1>6. CASE OpenLeg /\ t = "loop"
    <2>1. PICK k : k = task["loop"]
      OBVIOUS
    <2>2. /\ k.act = "enter" /\ k.at = "open" /\ k.legs # <<>>
          /\ book' = book \cup {Head(k.legs).sym}
          /\ UNCHANGED <<open, latch, excused>>
      BY <1>6, <2>1, OpenLegDoes
    <2>3. k.u \in Underlyings /\ Head(k.legs).sym \in LegSet(k.u)
      BY <2>1, <2>2, EntryFacts
    <2>4. ticking /\ SignaledToday(k.u)
      <3>1. Enters(task["loop"], k.u)
        BY <2>1, <2>2 DEF Enters
      <3>2. task["loop"] # Idle /\ "loop" \in Threads
        BY <2>1, <2>2, IdleTyped DEF Threads
      <3> QED
        BY <1>1, <2>3, <3>1, <3>2, AtWork DEF LInv
    <2>5. \A c \in LegSet(u) : c = Head(k.legs).sym => u = k.u
      BY <2>3, LegsApart
    <2> QED
      BY <1>1, <1>2, <2>2, <2>4, <2>5 DEF SignaledToday
  <1>7. CASE Untrack(t)
    <2>1. PICK k : k = task[t]
      OBVIOUS
    <2>2. /\ k.act = "exit" /\ k.legs = <<>>
          /\ (k.ok /\ open' = [open EXCEPT ![k.u] = <<>>]) \/ open' = open
          /\ UNCHANGED <<book, latch, excused>>
      BY <1>7, <2>1, UntrackDoes
    <2>3. ASSUME NEW c \in LegSet(u) \ excused, c \in book, open'[u] # open[u] PROVE FALSE
      <3>1. u = k.u /\ k.ok
        BY <1>4, <2>2, <2>3
      <3> QED
        BY <1>3, <2>1, <2>2, <2>3, <3>1, SymsNone DEF ExitsOK, Exits
    <2> QED
      BY <1>1, <1>2, <2>2, <2>3 DEF SignaledToday
  <1>8. CASE TrackStructure /\ t = "loop"
    <2>1. PICK k : k = task["loop"]
      OBVIOUS
    <2>2. /\ k.u \in Underlyings /\ open' = [open EXCEPT ![k.u] = k.done] /\ k.done # <<>>
          /\ UNCHANGED <<book, latch, excused>>
      BY <1>8, <2>1, TrackStructureDoes
    <2>3. open[u] # <<>> => open'[u] # <<>>
      BY <1>4, <2>2
    <2> QED
      BY <1>1, <1>2, <2>2, <2>3 DEF SignaledToday
  <1>9. CASE EntryConfirmed /\ t = "loop"
    <2>1. PICK k : k = task["loop"]
      OBVIOUS
    <2>2. /\ k.act = "enter" /\ k.at = "confirm" /\ k.u \in Underlyings
          /\ latch' = [latch EXCEPT ![k.u] = ConfirmEntry(@)]
          /\ UNCHANGED <<book, open, excused>>
      BY <1>9, <2>1, EntryConfirmedDoes
    <2>3. ~Enters(task'["loop"], u)
      BY <2>1, <2>2, <1>9, WorkEnters DEF Enters
    <2>4. ASSUME u = k.u, NEW c \in LegSet(u) \ excused, c \in book PROVE open[u] # <<>>
      BY <1>3, <2>1, <2>2, <2>4 DEF EntersOK
    <2>5. u # k.u => latch'[u] = latch[u]
      BY <1>4, <2>2
    <2> QED
      BY <1>1, <1>2, <2>2, <2>3, <2>4, <2>5 DEF SignaledToday
  <1>10. CASE ExitConfirmed(t)
    <2>1. PICK k : k = task[t]
      OBVIOUS
    <2>2. /\ k.u \in Underlyings
          /\ latch' = [latch EXCEPT ![k.u] = ConfirmExit(@)] \/ latch' = latch
          /\ UNCHANGED <<book, open, excused>>
      BY <1>10, <2>1, ExitConfirmedDoes
    <2>3. latch'[u] = latch[u] \/ latch'[u] = ConfirmExit(latch[u])
      BY <1>4, <2>2
    <2>4. ConfirmExit(latch[u]).signaledEntry = latch[u].signaledEntry
          /\ ConfirmExit(latch[u]).lastDate = latch[u].lastDate
      BY <1>4 DEF ConfirmExit, TLatch
    <2>5. SignaledToday(u) => SignaledToday(u)'
      BY <1>1, <2>3, <2>4 DEF SignaledToday
    <2> QED
      BY <1>1, <1>2, <2>2, <2>5
  <1>11. \/ book' \subseteq book /\ open' = open /\ latch' = latch /\ excused \subseteq excused'
         \/ (OpenLeg /\ t = "loop") \/ Untrack(t) \/ (TrackStructure /\ t = "loop")
         \/ (EntryConfirmed /\ t = "loop") \/ ExitConfirmed(t)
    BY ValidateLegDoes, RefuseLegDoes, EntryFillsDoes, EntryRejectedDoes, EntryUnknownDoes,
       PersistDoes, ClaimLegDoes, ClaimRefusedDoes, ExitFillsDoes, ExitFailsDoes, LegsClosedDoes,
       ClearDoes DEF Works
  <1> QED
    BY <1>5, <1>6, <1>7, <1>8, <1>9, <1>10, <1>11

\* An evaluation keeps a signal of its day, and signals what it has entered.
LEMMA WalkSignals ==
    ASSUME SInv, LInv, DInv, NEW t \in Threads, Walks(t)
    PROVE  LInv'
  <1> SUFFICES ASSUME Latched, NEW u \in Underlyings
               PROVE  /\ \A c \in LegSet(u) \ excused' :
                             c \in book' => open'[u] # <<>> \/ (ticking' /\ SignaledToday(u)')
                      /\ Enters(task'["loop"], u) => SignaledToday(u)'
    BY DEF LInv
  <1>1. /\ UNCHANGED <<ticking, now, book, open, excused>> /\ Learns(task[t], u)
        /\ \E n : Moves(t, n) /\ Fresh(t, task[t], n)
    BY DEF Walks, history
  <1>2. PICK n : Moves(t, n) /\ Fresh(t, task[t], n)
    BY <1>1
  <1>3. task'[t] = n /\ \A o \in Threads \ {t} : task'[o] = task[o]
    BY <1>2, MovesFacts DEF SInv, Types
  <1>4. SignaledToday(u) => SignaledToday(u)'
    BY <1>1 DEF Learns, SignaledToday, DInv
  <1>5. Enters(task'["loop"], u) => SignaledToday(u)'
    <2>1. CASE t = "loop"
      <3>1. SUFFICES ASSUME Enters(n, u) PROVE SignaledToday(u)'
        BY <1>3, <2>1
      <3>2. BeginsEntry(task[t], n) /\ n.u = u
        BY <1>2, <3>1 DEF Enters, Fresh, BeginsExit, BeginsSingle
      <3> QED
        BY <1>1, <3>2 DEF BeginsEntry, DInv, SignaledToday
    <2>2. CASE t # "loop"
      BY <1>3, <1>4, <2>2 DEF LInv, Threads
    <2> QED
      BY <2>1, <2>2
  <1> QED
    BY <1>1, <1>4, <1>5 DEF LInv

\* Every step keeps the signals.
LEMMA SignalsStep == SInv /\ EInv /\ LInv /\ DInv /\ [Next]_vars => LInv'
  <1> SUFFICES ASSUME SInv, EInv, LInv, DInv, [Next]_vars PROVE LInv'
    OBVIOUS
  <1>1. CASE Stops
    <2>1. book' = {} /\ task' = [t \in Threads |-> Idle]
      BY <1>1 DEF Stops, Memoryless
    <2>2. task'["loop"] = Idle
      BY <2>1 DEF Threads
    <2> QED
      BY <2>1, <2>2, IdleTyped DEF LInv, Enters
  <1>2. CASE Begins
    <2>1. task'["loop"] = Idle
      BY <1>2, StartKeeps DEF Begins
    <2>2. ASSUME Latched, NEW u \in Underlyings, NEW c \in LegSet(u) \ excused', c \in book'
          PROVE  open'[u] # <<>>
      <3>1. Fine(c)' /\ c \notin excused
        BY <1>2, <2>2, BeginFacts DEF Fine
      <3>2. /\ ~ticking
            /\ c \in book' => c \in book \/ held[c] = 1
            /\ open[u] # <<>> => open'[u] # <<>>
            /\ held[c] = 1 => (c \in book \/ open'[u] # <<>>)
        BY <1>2, <2>2, <3>1, BeginFacts
      <3> QED
        BY <2>2, <3>1, <3>2 DEF LInv
    <2> QED
      BY <2>1, <2>2, IdleTyped DEF LInv, Enters
  <1>3. CASE Fires \/ Rests
    <2>1. /\ UNCHANGED <<task, ticking, now, book, open, latch>>
          /\ excused \subseteq excused'
      BY <1>3 DEF Fires, StopFires, Rests, Pause, Resume, vars, memory, history
    <2> QED
      BY <2>1 DEF LInv, SignaledToday
  <1>4. CASE Clock
    <2>1. /\ UNCHANGED <<task, ticking, book, open, latch>> /\ now' = now + 1
          /\ Day(now') # Day(now) => /\ \A t \in Threads : task[t] = Idle
                                     /\ excused' = excused \cup (book \ TrackedContracts)
          /\ excused \subseteq excused'
      BY <1>4 DEF Clock, memory
    <2>2. CASE Day(now') = Day(now)
      BY <2>1, <2>2 DEF LInv, SignaledToday
    <2>3. CASE Day(now') # Day(now)
      <3>1. task'["loop"] = Idle
        BY <2>1, <2>3 DEF Threads
      <3>2. ASSUME NEW u \in Underlyings, NEW c \in LegSet(u) \ excused', c \in book'
            PROVE  open'[u] # <<>>
        BY <2>1, <2>3, <3>2, TrackedLeg
      <3> QED
        BY <3>1, <3>2, IdleTyped DEF LInv, Enters
    <2> QED
      BY <2>2, <2>3
  <1> QED
    BY <1>1, <1>2, <1>3, <1>4, Kinds, WalkSignals, WorkSignals

\* Every step keeps the lots.
LEMMA LotsStep == SInv /\ EInv /\ LInv /\ DInv /\ [Next]_vars => EInv'
  BY Kinds, WalkLots, WorkLots, StopLots, BeginLots, WorldLots

\* The first start: nothing is held and nothing is signaled.
LEMMA InitLots == Init => EInv /\ LInv /\ DInv
  <1> SUFFICES ASSUME Init PROVE EInv /\ LInv /\ DInv
    OBVIOUS
  <1>1. /\ book = {} /\ \A t \in Threads : task[t] = Idle
        /\ \A c \in Contracts : held[c] = 0
        /\ \A u \in Underlyings : open[u] = <<>>
    BY DEF Init, FirstStart
  <1>2. "loop" \in Threads
    BY DEF Threads
  <1>3. ASSUME NEW u \in Underlyings, NEW c \in LegSet(u) PROVE Lots(u, c)
    <2>1. held[c] = 0
      BY <1>1, LegsFacts
    <2> QED
      BY <1>1, <1>2, <2>1, IdleTyped DEF Lots, LotOK, EntersOK, ExitsOK, BookOK, Exits, Closes, Closing
  <1>4. LInv
    BY <1>1, <1>2, IdleTyped DEF LInv, Enters
  <1>5. DInv
    BY <1>1, IdleAgenda DEF DInv
  <1> QED
    BY <1>3, <1>4, <1>5 DEF EInv

\* Between call sequences, what the exchange holds is a leg of a tracked
\* structure, or the operator was alerted to that contract, or it is one of the
\* known mishaps (Runner.NothingUntracked).
THEOREM NothingIsUntracked == Spec => []NothingUntracked
  <1>1. SInv /\ EInv => NothingUntracked
    <2>1. SUFFICES ASSUME SInv, EInv, Resting, NEW c \in Contracts \ (alerted \cup excused), held[c] # 0
                   PROVE  c \in TrackedContracts
      BY DEF NothingUntracked
    <2>2. c \in Traded
      BY <2>1 DEF SInv, Outside
    <2>3. PICK u \in Underlyings : c \in LegSet(u)
      BY <2>2 DEF Traded
    <2>4. Lots(u, c) /\ Clean(c) /\ Fine(c)
      BY <2>1, <2>3 DEF EInv, Clean, Fine
    <2>5. held[c] \in Int /\ Running /\ task["loop"].act = "none"
      BY <2>1, <2>3, LotFacts DEF Resting, Threads
    <2>6. held[c] = 1
      BY <2>1, <2>4, <2>5 DEF Lots, LotOK, BookOK
    <2>7. open[u] # <<>>
      BY <2>4, <2>5, <2>6 DEF Lots, LotOK, BookOK
    <2> QED
      BY <2>3, <2>7, TrackedLeg, <2>1
  <1> QED
    BY ShapeKept, InitLots, LotsStep, SignalsStep, DaysStep, <1>1, PTL DEF Spec

\* The straddle never enters a contract whose position the risk manager still has
\* (Runner.NoEntryOverPosition).
THEOREM NoEntryIsOverAPosition ==
    ASSUME Latched
    PROVE  Spec => []NoEntryOverPosition
  <1>1. SInv /\ EInv => NoEntryOverPosition
    <2>1. SUFFICES ASSUME SInv, EInv, In("loop", {"enter"}, "open"), Sym("loop") \notin excused
                   PROVE  Sym("loop") \notin book
      BY DEF NoEntryOverPosition
    <2>2. PICK k : k = task["loop"]
      OBVIOUS
    <2>3. k.act = "enter" /\ k.at = "open" /\ Sym("loop") = Head(k.legs).sym
      BY <2>1, <2>2 DEF In, Sym, Leg1
    <2>4. /\ k.u \in Underlyings /\ k.legs # <<>> /\ Head(k.legs).sym \in LegSet(k.u)
          /\ Head(k.legs).sym \in Syms(k.legs)
      BY <2>1, <2>2, <2>3, EntryFacts
    <2>5. EntersOK(k.u, Head(k.legs).sym)
      BY <2>1, <2>3, <2>4 DEF EInv, Lots, Fine
    <2> QED
      BY <2>2, <2>3, <2>4, <2>5 DEF EntersOK, OnTheWay
  <1> QED
    BY ShapeKept, InitLots, LotsStep, SignalsStep, DaysStep, <1>1, PTL DEF Spec

-----------------------------------------------------------------------------
(***************************************************************************)
(* The types.  Beyond the shape: what is spent, the marks and the reports, *)
(* the latches' days, and that a leg has its row's id when it is sent, so  *)
(* that every row and every stop order is of an entry.                     *)
(***************************************************************************)
SpentOK ==
    /\ paused \in BOOLEAN
    /\ attempt \in 0..MaxAttempts
    /\ hooks \in 0..MaxHooks
    /\ unknown \in 0..MaxUnknown
    /\ restarts \in 0..MaxRestarts
    /\ faults \in 0..MaxFaults

MarksOK ==
    /\ exitInFlight \subseteq Contracts
    /\ unresolved \subseteq Contracts
    /\ alerted \subseteq Contracts
    /\ excused \subseteq Contracts
    /\ reported \in [Contracts -> Int]

DatesOK == latch \in [Underlyings -> Latch] /\ stratRec \in [Underlyings -> Latch]

TicketsOK == rows \subseteq Ticket /\ stops \subseteq Ticket

\* Only an entry is at "open", and what it opens or sends has a row's id.
Numbered(k) ==
    /\ k.at = "open" => k.act = "enter"
    /\ k.act = "enter" /\ k.at \in {"open", "sent"} => Head(k.legs).row # 0

NumberedOK == \A t \in Threads : Numbered(task[t])

KInv == SpentOK /\ MarksOK /\ DatesOK /\ TicketsOK /\ NumberedOK

-----------------------------------------------------------------------------
\* The steps of a goroutine between two call sequences.
Strolls(t) ==
    \/ Flatten(t) \/ NextJob(t)
    \/ t = "loop" /\ (Tick \/ Watch \/ Evaluation)

\* Every step is one of these.
LEMMA AllSteps ==
    ASSUME [Next]_vars
    PROVE  \/ \E t \in Threads : Strolls(t) \/ Works(t)
           \/ Verify \/ Crash \/ KillAndFlatten \/ Shutdown
           \/ Begins \/ Fires \/ Clock \/ Rests
  <1>1. ASSUME NEW t \in Threads, Step(t)
        PROVE  Strolls(t) \/ Works(t) \/ Verify
    BY <1>1 DEF Step, Strolls, Works, Close, Enter
  <1> QED
    BY <1>1 DEF Next, Begins, Fires, Rests

\* A job's start and its market look leave the stage, a call sequence begins at
\* the first.
LEMMA Stages ==
    ASSUME NEW k, "at" \in DOMAIN k
    PROVE  /\ Started(k).at = k.at
           /\ AtMarket(k).at = k.at /\ "at" \in DOMAIN AtMarket(k)
           /\ \A x : [k EXCEPT !.agenda = x].at = k.at /\ "at" \in DOMAIN [k EXCEPT !.agenda = x]
           /\ \A x : [k EXCEPT !.us = x].at = k.at /\ "at" \in DOMAIN [k EXCEPT !.us = x]
           /\ \A x : [k EXCEPT !.cs = x].at = k.at /\ "at" \in DOMAIN [k EXCEPT !.cs = x]
           /\ \A x, y : [k EXCEPT !.us = x, !.cs = y].at = k.at
                        /\ "at" \in DOMAIN [k EXCEPT !.us = x, !.cs = y]
           /\ \A x, y : [k EXCEPT !.part = x, !.cs = y].at = k.at
           /\ \A x, y, z : Begin(k, x, y, z).at = "ready"
  BY DEF Started, AtMarket, Begin

\* The end of a job leaves the stage, or nothing is left to do.
LEMMA AfterStage ==
    ASSUME NEW k, "at" \in DOMAIN k
    PROVE  After(k).at \in {"ready", k.at}
  <1>1. Idle.at = "ready"
    BY DEF Idle
  <1>2. Started(AtMarket(k)).at = k.at
    <2>1. PICK m : m = AtMarket(k)
      OBVIOUS
    <2> QED
      BY <2>1, Stages
  <1>3. Started([k EXCEPT !.agenda = Tail(k.agenda)]).at = k.at
    <2>1. PICK m : m = [k EXCEPT !.agenda = Tail(k.agenda)]
      OBVIOUS
    <2>2. m.at = k.at /\ "at" \in DOMAIN m
      BY <2>1, Stages
    <2> QED
      BY <2>1, <2>2, Stages
  <1> QED
    BY <1>1, <1>2, <1>3 DEF After

\* A tick, a kill and a shutdown start at the first stage.
LEMMA FirstStage ==
    /\ \A x : Started([Idle EXCEPT !.agenda = x]).at = "ready"
    /\ Started(AtMarket([Idle EXCEPT !.allowed = TRUE])).at = "ready"
  <1>1. ASSUME NEW x PROVE Started([Idle EXCEPT !.agenda = x]).at = "ready"
    <2>1. PICK m : m = [Idle EXCEPT !.agenda = x]
      OBVIOUS
    <2>2. m.at = "ready" /\ "at" \in DOMAIN m
      BY <2>1 DEF Idle
    <2> QED
      BY <2>1, <2>2, Stages
  <1>2. Started(AtMarket([Idle EXCEPT !.allowed = TRUE])).at = "ready"
    <2>1. PICK m : m = [Idle EXCEPT !.allowed = TRUE]
      OBVIOUS
    <2>2. m.at = "ready" /\ "at" \in DOMAIN m
      BY <2>1 DEF Idle
    <2>3. PICK n : n = AtMarket(m)
      OBVIOUS
    <2>4. n.at = "ready" /\ "at" \in DOMAIN n
      BY <2>2, <2>3, Stages
    <2> QED
      BY <2>1, <2>3, <2>4, Stages
  <1> QED
    BY <1>1, <1>2

\* Between two call sequences nobody comes to the second stage.
LEMMA StrollStage ==
    ASSUME SInv, NEW t \in Threads, Strolls(t)
    PROVE  \E n : Put(t, n) /\ n.at \in {"ready", task[t].at}
  <1>1. "at" \in DOMAIN task[t]
    BY DEF SInv, Types, TTask
  <1>2. PICK k : k = task[t]
    OBVIOUS
  <1>3. CASE NextJob(t)
    BY <1>1, <1>3, AfterStage DEF NextJob
  <1>4. CASE FlattenRest(t) \/ (t = "loop" /\ WatchRest)
    <2>1. \/ Put(t, After(k))
          \/ \E cs : Put(t, [k EXCEPT !.part = "contracts", !.cs = cs])
      <3>1. CASE FlattenRest(t)
        BY <1>2, <3>1 DEF FlattenRest
      <3>2. CASE t = "loop" /\ WatchRest
        BY <1>2, <3>2 DEF WatchRest
      <3> QED
        BY <1>4, <3>1, <3>2
    <2>2. \A cs : [k EXCEPT !.part = "contracts", !.cs = cs].at = k.at
      BY <1>1, <1>2, Stages
    <2>3. After(k).at \in {"ready", k.at}
      BY <1>1, <1>2, AfterStage
    <2> QED
      BY <1>2, <2>1, <2>2, <2>3
  <1>6. ASSUME NEW u \in Underlyings, FlattenStructure(t, u)
        PROVE  \E n : Put(t, n) /\ n.at \in {"ready", task[t].at}
    <2>1. PICK m : m = [k EXCEPT !.us = k.us \ {u}]
      OBVIOUS
    <2>2. m.at = k.at /\ Begin(m, "exit", u, open[u]).at = "ready"
      BY <1>1, <1>2, <2>1, Stages
    <2>3. Put(t, m) \/ Put(t, Begin(m, "exit", u, open[u]))
      BY <1>2, <1>6, <2>1 DEF FlattenStructure
    <2> QED
      BY <1>2, <2>2, <2>3
  <1>7. ASSUME NEW c \in Contracts, FlattenContract(t, c)
        PROVE  \E n : Put(t, n) /\ n.at \in {"ready", task[t].at}
    <2>1. PICK m : m = [k EXCEPT !.cs = k.cs \ {c}]
      OBVIOUS
    <2>2. Begin(m, "single", "none", <<Untracked(c)>>).at = "ready"
      BY <1>1, <1>2, <2>1, Stages
    <2>3. Put(t, Begin(m, "single", "none", <<Untracked(c)>>))
      BY <1>2, <1>7, <2>1 DEF FlattenContract
    <2> QED
      BY <2>2, <2>3
  <1>8. ASSUME t = "loop", NEW u \in Underlyings, WatchStructure(u)
        PROVE  \E n : Put(t, n) /\ n.at \in {"ready", task[t].at}
    <2> DEFINE seen(i) == [k EXCEPT !.us = @ \ {u}, !.cs = @ \cup ToSet(SymsOf(SubSeq(open[u], 1, i)))]
    <2>1. \A i : seen(i).at = k.at /\ Begin(seen(i), "exit", u, open[u]).at = "ready"
      <3>1. \A i : seen(i).at = k.at /\ "at" \in DOMAIN seen(i)
        BY <1>1, <1>2, Stages
      <3> HIDE DEF seen
      <3> QED
        BY <3>1, Stages
    <2>2. Put(t, seen(Len(open[u]))) \/ \E i \in DOMAIN open[u] : Put(t, Begin(seen(i), "exit", u, open[u]))
      BY <1>2, <1>8 DEF WatchStructure
    <2> HIDE DEF seen
    <2> QED
      BY <1>2, <2>1, <2>2
  <1>9. ASSUME t = "loop", NEW c \in Contracts, WatchContract(c)
        PROVE  \E n : Put(t, n) /\ n.at \in {"ready", task[t].at}
    <2>1. PICK m : m = [k EXCEPT !.cs = k.cs \ {c}]
      OBVIOUS
    <2>2. m.at = k.at /\ Begin(m, "single", "none", <<Untracked(c)>>).at = "ready"
      BY <1>1, <1>2, <2>1, Stages
    <2>3. Put(t, m) \/ Put(t, Begin(m, "single", "none", <<Untracked(c)>>))
      BY <1>2, <1>9, <2>1 DEF WatchContract
    <2> QED
      BY <1>2, <2>2, <2>3
  <1>10. ASSUME t = "loop", NEW u \in Underlyings, Evaluate(u)
         PROVE  \E n : Put(t, n) /\ n.at \in {"ready", task[t].at}
    <2>1. PICK m : m = [k EXCEPT !.us = k.us \ {u}]
      OBVIOUS
    <2>2. m.at = k.at /\ \A act, legs : Begin(m, act, u, legs).at = "ready"
      <3>1. m.at = k.at /\ "at" \in DOMAIN m
        BY <1>1, <1>2, <2>1, Stages
      <3> QED
        BY <3>1, Stages
    <2>3. Put(t, m) \/ \E act, legs : Put(t, Begin(m, act, u, legs))
      BY <1>2, <1>10, <2>1 DEF Evaluate
    <2> QED
      BY <1>2, <2>2, <2>3
  <1>11. CASE t = "loop" /\ Tick
    BY <1>11, FirstStage DEF Tick
  <1> QED
    BY <1>3, <1>4, <1>6, <1>7, <1>8, <1>9, <1>10, <1>11 DEF Strolls, Flatten, Watch, Evaluation

-----------------------------------------------------------------------------
\* A validated leg has its row's id.
LEMMA ValidateLegNumbers ==
    ASSUME SInv, ValidateLeg
    PROVE  \E n : Put("loop", n) /\ Numbered(n)
  <1>1. PICK k : k = task["loop"]
    OBVIOUS
  <1>2. /\ k \in TTask /\ k.act = "enter" /\ k.legs # <<>>
    BY <1>1, ValidateLegMoves
  <1>3. entries \in 0..MaxEntries
    BY DEF SInv, BooksTyped
  <1>4. PICK row : row = entries + 1
    OBVIOUS
  <1>5. row # 0
    BY <1>3, <1>4
  <1>6. PICK legs : legs = [k.legs EXCEPT ![1].row = row]
    OBVIOUS
  <1>7. Head(legs).row = row
    <2>1. /\ k.legs \in Seq(TLeg) /\ Len(k.legs) \in Nat \ {0} /\ DOMAIN k.legs = 1..Len(k.legs)
          /\ k.legs[1] \in TLeg
      BY <1>2, TaskFields, LenProperties, ElementOfSeq, EmptySeq
    <2>2. PICK leg : leg = [k.legs[1] EXCEPT !.row = row]
      OBVIOUS
    <2>3. leg.row = row
      BY <2>1, <2>2 DEF TLeg
    <2>4. legs = [k.legs EXCEPT ![1] = leg]
      BY <1>6, <2>2
    <2>5. legs[1] = leg
      BY <2>1, <2>4
    <2>6. row \in 0..MaxEntries
      BY <1>4, ValidateLegMoves DEF ValidateLeg
    <2>7. leg \in TLeg
      BY <2>1, <2>2, <2>6 DEF TLeg
    <2>8. legs \in Seq(TLeg) /\ Len(legs) = Len(k.legs)
      BY <2>1, <2>4, <2>7, ExceptSeq
    <2>9. Head(legs) = legs[1]
      BY <2>1, <2>8, HeadTailProperties, EmptySeq
    <2> QED
      BY <2>3, <2>5, <2>9
  <1>8. PICK n : n = [k EXCEPT !.at = "open", !.legs = legs]
    OBVIOUS
  <1>9. n.act = "enter" /\ n.legs = legs
    BY <1>2, <1>8 DEF TTask
  <1>10. Put("loop", n)
    BY <1>1, <1>4, <1>6, <1>8 DEF ValidateLeg
  <1> QED
    BY <1>5, <1>7, <1>9, <1>10 DEF Numbered

\* The stage that follows the last one.
LEMMA NextStages ==
    ASSUME NEW k \in TTask
    PROVE  /\ \A at \in {"ready", "record", "confirm"} : Numbered([k EXCEPT !.at = at])
           /\ k.act # "enter" => Numbered([k EXCEPT !.at = "sent"])
           /\ k.at = "open" /\ Numbered(k) => Numbered([k EXCEPT !.at = "sent"])
           /\ Numbered(Unwind(k))
           /\ Numbered(Ended(k))
           /\ \A ok : Numbered(NextLeg(k, ok))
           /\ \A ok, x : Numbered([NextLeg(k, ok) EXCEPT !.done = x])
  <1>1. "at" \in DOMAIN k /\ "act" \in DOMAIN k
    BY DEF TTask
  <1>2. /\ \A at \in {"ready", "record", "confirm"} : Numbered([k EXCEPT !.at = at])
        /\ k.act # "enter" => Numbered([k EXCEPT !.at = "sent"])
    BY <1>1 DEF Numbered
  <1>3. k.at = "open" /\ Numbered(k) => Numbered([k EXCEPT !.at = "sent"])
    BY <1>1 DEF Numbered
  <1>4. Unwind(k).at = "ready"
    BY <1>1 DEF Unwind, Begin
  <1>5. Ended(k).at = "ready"
    BY <1>1 DEF Ended
  <1>6. \A ok : NextLeg(k, ok).at = "ready" /\ "at" \in DOMAIN NextLeg(k, ok)
    BY <1>1 DEF NextLeg
  <1>7. \A ok, x : [NextLeg(k, ok) EXCEPT !.done = x].at = "ready"
    BY <1>6
  <1>8. \A n : n.at = "ready" => Numbered(n)
    BY DEF Numbered
  <1> QED
    BY <1>2, <1>3, <1>4, <1>5, <1>6, <1>7, <1>8

\* Within a call sequence a leg is sent with its row's id.
LEMMA WorkNumbers ==
    ASSUME SInv, NumberedOK, NEW t \in Threads, Works(t)
    PROVE  \E n : Put(t, n) /\ Numbered(n)
  <1>1. PICK k : k = task[t]
    OBVIOUS
  <1>2. k \in TTask /\ Numbered(k)
    BY <1>1 DEF SInv, Types, NumberedOK
  <1>3. CASE ClaimLeg(t)
    <2>1. k.act \in Closing /\ Put(t, [k EXCEPT !.at = "sent"])
      BY <1>1, <1>3 DEF ClaimLeg, In
    <2> QED
      BY <1>2, <2>1, NextStages DEF Closing
  <1>4. CASE ClaimRefused(t) \/ ExitFills(t) \/ ExitFails(t)
    <2>1. Put(t, NextLeg(k, TRUE)) \/ Put(t, NextLeg(k, FALSE))
      BY <1>1, <1>4 DEF ClaimRefused, ExitFills, ExitFails
    <2> QED
      BY <1>2, <2>1, NextStages
  <1>5. CASE LegsClosed(t) \/ ExitConfirmed(t)
    <2>1. Put(t, Ended(k))
      BY <1>1, <1>5 DEF LegsClosed, ExitConfirmed
    <2> QED
      BY <1>2, <2>1, NextStages
  <1>6. CASE Untrack(t) \/ ClearStructure(t)
    <2>1. \E at \in {"record", "confirm"} : Put(t, [k EXCEPT !.at = at])
      BY <1>1, <1>6 DEF Untrack, ClearStructure
    <2> QED
      BY <1>2, <2>1, NextStages
  <1>7. CASE t = "loop" /\ ValidateLeg
    BY <1>7, ValidateLegNumbers
  <1>8. CASE t = "loop" /\ (RefuseLeg \/ EntryRejected \/ EntryUnknown)
    <2>1. Put(t, Unwind(k))
      BY <1>1, <1>8 DEF RefuseLeg, EntryRejected, EntryUnknown
    <2> QED
      BY <1>2, <2>1, NextStages
  <1>9. CASE t = "loop" /\ OpenLeg
    <2>1. k.at = "open" /\ Put(t, [k EXCEPT !.at = "sent"])
      BY <1>1, <1>9 DEF OpenLeg, In
    <2> QED
      BY <1>2, <2>1, NextStages
  <1>10. CASE t = "loop" /\ EntryFills
    <2>1. \E done : Put(t, [NextLeg(k, TRUE) EXCEPT !.done = done])
      BY <1>1, <1>10 DEF EntryFills
    <2> QED
      BY <1>2, <2>1, NextStages
  <1>11. CASE t = "loop" /\ (TrackStructure \/ PersistStructure)
    <2>1. \E at \in {"record", "confirm"} : Put(t, [k EXCEPT !.at = at])
      BY <1>1, <1>11 DEF TrackStructure, PersistStructure
    <2> QED
      BY <1>2, <2>1, NextStages
  <1>12. CASE t = "loop" /\ EntryConfirmed
    <2>1. Put(t, Ended(k))
      BY <1>1, <1>12 DEF EntryConfirmed
    <2> QED
      BY <1>2, <2>1, NextStages
  <1> QED
    BY <1>3, <1>4, <1>5, <1>6, <1>7, <1>8, <1>9, <1>10, <1>11, <1>12 DEF Works

\* A stroll leaves the second stage to the entries.
LEMMA StrollNumbers ==
    ASSUME SInv, NumberedOK, NEW t \in Threads, Strolls(t)
    PROVE  \E n : Put(t, n) /\ Numbered(n)
  <1>1. PICK n : Put(t, n) /\ n.at \in {"ready", task[t].at}
    BY StrollStage
  <1>2. task[t].act = "none"
    BY IdleTyped DEF Strolls, Flatten, FlattenRest, FlattenStructure, FlattenContract, NextJob, Tick, Free,
           Watch, WatchRest, WatchStructure, WatchContract, Evaluation, Evaluate, On
  <1>3. task[t].at # "open"
    BY <1>2 DEF NumberedOK, Numbered
  <1>4. n.at # "open"
    BY <1>1, <1>3
  <1>5. \/ n.act = "none" \/ n.at = "ready"
    <2>1. Walks(t)
      BY RestWalks, FlattenStructureWalks, ContractWalks, NextJobWalks, TickWalks, WatchStructureWalks,
         EvaluateWalks DEF Strolls, Flatten, Watch, Evaluation
    <2>2. PICK m : Moves(t, m) /\ Fresh(t, task[t], m)
      BY <2>1 DEF Walks
    <2>3. task'[t] = m /\ task'[t] = n
      BY <1>1, <2>2 DEF Moves, Put, SInv, Types
    <2> QED
      BY <2>2, <2>3 DEF Fresh
  <1> QED
    BY <1>1, <1>4, <1>5 DEF Numbered

\* Every row and every leg that is sent has an id.
LEMMA NumberedStep == SInv /\ NumberedOK /\ [Next]_vars => NumberedOK'
  <1> SUFFICES ASSUME SInv, NumberedOK, [Next]_vars PROVE NumberedOK'
    OBVIOUS
  <1>1. ASSUME NEW t \in Threads, NEW n, Put(t, n), Numbered(n)
        PROVE  NumberedOK'
    BY <1>1 DEF Put, NumberedOK, SInv, Types
  <1>2. ASSUME task' = task PROVE NumberedOK'
    BY <1>2 DEF NumberedOK
  <1>3. Numbered(Idle) /\ \A n : n.at = "ready" => Numbered(n)
    BY DEF Idle, Numbered
  <1>4. ASSUME Memoryless PROVE NumberedOK'
    BY <1>3, <1>4 DEF Memoryless, NumberedOK
  <1>5. "loop" \in Threads /\ "api" \in Threads
    BY DEF Threads
  <1>6. ASSUME NEW t \in Threads, NEW x, Put(t, Started([Idle EXCEPT !.agenda = x]))
        PROVE  NumberedOK'
    BY <1>1, <1>3, <1>6, FirstStage
  <1>7. CASE \E t \in Threads : Strolls(t)
    BY <1>1, <1>7, StrollNumbers
  <1>8. CASE \E t \in Threads : Works(t)
    BY <1>1, <1>8, WorkNumbers
  <1>9. CASE Verify \/ Crash
    BY <1>4, <1>5, <1>6, <1>9 DEF Verify, Crash
  <1>10. CASE KillAndFlatten \/ Shutdown
    BY <1>5, <1>6, <1>10 DEF KillAndFlatten, Shutdown
  <1>11. CASE Begins \/ Fires \/ Clock \/ Rests
    BY <1>2, <1>11 DEF Begins, Fires, Rests, Start, RestoreAgain, StopFires, Clock, Pause, Resume, vars
  <1> QED
    BY <1>7, <1>8, <1>9, <1>10, <1>11, AllSteps

-----------------------------------------------------------------------------
\* A goroutine that works or strolls spends little.
LEMMA StepSpends ==
    ASSUME NEW t \in Threads, Strolls(t) \/ Works(t)
    PROVE  /\ attempt' = attempt /\ hooks' = hooks /\ restarts' = restarts
           /\ paused' = paused \/ paused' \in BOOLEAN
           /\ unknown' = unknown \/ (unknown < MaxUnknown /\ unknown' = unknown + 1)
           /\ faults' = faults \/ (faults < MaxFaults /\ faults' = faults + 1)
  <1>1. CASE Strolls(t)
    BY <1>1 DEF Strolls, Flatten, FlattenRest, FlattenStructure, FlattenContract, NextJob, Tick,
           Watch, WatchRest, WatchStructure, WatchContract, Evaluation, Evaluate, control, bounds
  <1>2. CASE ClaimLeg(t) \/ ClaimRefused(t) \/ ExitFills(t) \/ LegsClosed(t) \/ Untrack(t)
    BY <1>2 DEF ClaimLeg, ClaimRefused, ExitFills, LegsClosed, Untrack, control, bounds
  <1>3. CASE ExitFails(t)
    BY <1>3 DEF ExitFails, Unknown, control, bounds
  <1>4. CASE ClearStructure(t)
    BY <1>4 DEF ClearStructure, StoreFails, control, bounds
  <1>5. CASE ExitConfirmed(t) \/ EntryConfirmed
    BY <1>5 DEF ExitConfirmed, EntryConfirmed, SaveLatches, StoreFails, control, bounds
  <1>6. CASE ValidateLeg \/ RefuseLeg \/ OpenLeg \/ EntryFills \/ EntryRejected \/ TrackStructure
    BY <1>6 DEF ValidateLeg, RefuseLeg, OpenLeg, EntryFills, EntryRejected, TrackStructure, control, bounds
  <1>7. CASE EntryUnknown
    BY <1>7 DEF EntryUnknown, Unknown, control, bounds
  <1>8. CASE PersistStructure
    BY <1>8 DEF PersistStructure, StoreFails, control, bounds
  <1> QED
    BY <1>1, <1>2, <1>3, <1>4, <1>5, <1>6, <1>7, <1>8 DEF Works

\* No bound is passed.
LEMMA SpentStep == SpentOK /\ [Next]_vars => SpentOK'
  <1> SUFFICES ASSUME SpentOK, [Next]_vars PROVE SpentOK'
    OBVIOUS
  <1> USE RunnerAssumption
  <1>1. CASE \E t \in Threads : Strolls(t) \/ Works(t)
    BY <1>1, StepSpends DEF SpentOK
  <1>2. CASE Verify \/ Crash
    <2>1. UNCHANGED <<hooks, unknown, restarts, faults>>
      BY <1>2 DEF Verify, Crash, bounds
    <2>2. \/ paused' = FALSE /\ attempt' = 0
          \/ paused' = paused /\ attempt < MaxAttempts /\ attempt' = attempt + 1
      BY <1>2 DEF Verify, Crash, Memoryless
    <2>3. attempt' \in 0..MaxAttempts
      <3>1. attempt' = 0 \/ (attempt < MaxAttempts /\ attempt' = attempt + 1)
        BY <2>2
      <3> QED
        BY <3>1 DEF SpentOK, MaxAttempts
    <2>4. paused' \in BOOLEAN
      BY <2>2 DEF SpentOK
    <2> QED
      BY <2>1, <2>3, <2>4 DEF SpentOK
  <1>4. CASE KillAndFlatten
    BY <1>4 DEF KillAndFlatten, Called, SpentOK
  <1>5. CASE Shutdown
    BY <1>5 DEF Shutdown, SpentOK, MaxAttempts, bounds
  <1>6. CASE Begins
    BY <1>6 DEF Begins, Start, RestoreAgain, RestoreState, SpentOK, control
  <1>7. CASE Fires \/ Clock
    BY <1>7 DEF Fires, StopFires, Clock, SpentOK, control, bounds
  <1>8. CASE Rests
    <2>1. CASE Pause \/ Resume
      <3>1. paused' \in BOOLEAN /\ hooks < MaxHooks /\ hooks' = hooks + 1
            /\ UNCHANGED <<attempt, unknown, restarts, faults>>
        BY <2>1 DEF Pause, Resume, Called
      <3> QED
        BY <3>1 DEF SpentOK
    <2>2. CASE UNCHANGED vars
      BY <2>2 DEF vars, SpentOK, control, bounds
    <2> QED
      BY <1>8, <2>1, <2>2 DEF Rests
  <1> QED
    BY <1>1, <1>2, <1>4, <1>5, <1>6, <1>7, <1>8, AllSteps

-----------------------------------------------------------------------------
\* The first leg's symbol, while there is a leg.
LEMMA LegTraded ==
    ASSUME SInv, NEW t \in Threads, task[t].legs # <<>>
    PROVE  Sym(t) \in Contracts
  BY FirstLeg, TradedFacts DEF SInv, Types, Sym, Leg1

\* A call sequence's legs are of contracts.
LEMMA LegsContracts ==
    ASSUME NEW legs \in Seq(TLeg)
    PROVE  ToSet(SymsOf(legs)) \subseteq Contracts
  BY SymsSome, TradedFacts

\* Within a call sequence only contracts are marked.
LEMMA WorkMarks ==
    ASSUME SInv, MarksOK, NEW t \in Threads, Works(t)
    PROVE  MarksOK'
  <1>1. task[t] \in TTask /\ Shaped(t, task[t])
    BY DEF SInv, Types, InShape
  <1>2. CASE ClaimLeg(t) \/ ClaimRefused(t)
    <2>1. Sym(t) \in Contracts
      BY <1>2, LegTraded DEF ClaimLeg, ClaimRefused
    <2>2. /\ exitInFlight' = exitInFlight \/ exitInFlight' = exitInFlight \cup {Sym(t)}
          /\ excused' = excused \/ excused' = excused \cup {Sym(t)}
          /\ alerted' = alerted \/ alerted' = alerted \cup {Sym(t)}
          /\ UNCHANGED <<unresolved, reported>>
      BY <1>2 DEF ClaimLeg, ClaimRefused, memory, durable
    <2> QED
      BY <2>1, <2>2 DEF MarksOK
  <1>3. CASE ExitFills(t) \/ ExitFails(t)
    <2>1. Sym(t) \in Contracts
      <3>1. task[t].legs # <<>>
        BY <1>1, <1>3 DEF ExitFills, ExitFails, In, Shaped
      <3> QED
        BY <3>1, LegTraded
    <2>2. /\ exitInFlight' = exitInFlight \ {Sym(t)}
          /\ alerted' = alerted \/ alerted' = alerted \cup {Sym(t)}
          /\ unresolved' = unresolved \/ unresolved' = unresolved \cup {Sym(t)}
          /\ reported' = reported \/ reported' = [reported EXCEPT ![Sym(t)] = @ - 1]
          /\ excused' = excused
      BY <1>3 DEF ExitFills, ExitFails, history
    <2>3. reported' \in [Contracts -> Int]
      BY <2>1, <2>2 DEF MarksOK
    <2> QED
      BY <2>1, <2>2, <2>3 DEF MarksOK
  <1>4. CASE \/ LegsClosed(t) \/ Untrack(t) \/ ClearStructure(t) \/ ExitConfirmed(t)
             \/ ValidateLeg \/ RefuseLeg \/ OpenLeg \/ EntryRejected \/ TrackStructure \/ EntryConfirmed
    <2>1. UNCHANGED <<exitInFlight, unresolved, alerted, excused, reported>>
      BY <1>4 DEF LegsClosed, Untrack, ClearStructure, ExitConfirmed, ValidateLeg, RefuseLeg, OpenLeg,
             EntryRejected, TrackStructure, EntryConfirmed, memory, durable, exchange, history
    <2> QED
      BY <2>1 DEF MarksOK
  <1>5. CASE t = "loop" /\ (EntryFills \/ EntryUnknown)
    <2>1. Sym(t) \in Contracts
      <3>1. task[t].legs # <<>>
        BY <1>1, <1>5 DEF EntryFills, EntryUnknown, In, Shaped
      <3> QED
        BY <3>1, LegTraded
    <2>2. /\ alerted' = alerted \/ alerted' = alerted \cup {Sym(t)}
          /\ unresolved' = unresolved \/ unresolved' = unresolved \cup {Sym(t)}
          /\ reported' = reported \/ reported' = [reported EXCEPT ![Sym(t)] = @ + 1]
          /\ UNCHANGED <<excused, exitInFlight>>
      BY <1>5 DEF EntryFills, EntryUnknown, memory, history
    <2>3. reported' \in [Contracts -> Int]
      BY <2>1, <2>2 DEF MarksOK
    <2> QED
      BY <2>1, <2>2, <2>3 DEF MarksOK
  <1>6. CASE t = "loop" /\ PersistStructure
    <2>1. ToSet(SymsOf(task[t].done)) \subseteq Contracts
      BY <1>1, LegsContracts, TaskFields
    <2>2. /\ excused' = excused \/ excused' = excused \cup ToSet(SymsOf(task[t].done))
          /\ UNCHANGED <<exitInFlight, unresolved, alerted, reported>>
      BY <1>6 DEF PersistStructure, memory, exchange
    <2> QED
      BY <2>1, <2>2 DEF MarksOK
  <1> QED
    BY <1>2, <1>3, <1>4, <1>5, <1>6 DEF Works

\* When the process stops, what its orders are of is marked.
LEMMA LastMarks ==
    ASSUME SInv, NumberedOK, MarksOK, LastFills
    PROVE  unresolved' \subseteq Contracts /\ excused' \subseteq Contracts
  <1>1. Interrupted \subseteq Contracts
    BY InFlightTraded, TradedFacts DEF Interrupted
  <1>2. ASSUME NEW t \in Threads, task[t].at = "open" PROVE Sym(t) \in Contracts
    <2>1. task[t].legs # <<>>
      BY <1>2 DEF SInv, InShape, Shaped, NumberedOK, Numbered
    <2> QED
      BY <2>1, LegTraded
  <1>3. ASSUME NEW t \in Threads PROVE ToSet(SymsOf(task[t].legs \o task[t].done)) \subseteq Contracts
    <2>1. task[t].legs \in Seq(TLeg) /\ task[t].done \in Seq(TLeg)
      BY TaskFields DEF SInv, Types
    <2>2. PICK legs : legs = task[t].legs \o task[t].done
      OBVIOUS
    <2>3. legs \in Seq(TLeg)
      BY <2>1, <2>2, ConcatProperties
    <2> QED
      BY <2>2, <2>3, LegsContracts
  <1>4. UnderWay \subseteq Contracts
    BY <1>3 DEF UnderWay
  <1>5. book \subseteq Contracts
    BY TradedFacts DEF SInv, BooksTyped
  <1> QED
    BY <1>1, <1>2, <1>4, <1>5 DEF LastFills, MarksOK

\* Only contracts are marked.
LEMMA MarksStep == SInv /\ NumberedOK /\ MarksOK /\ [Next]_vars => MarksOK'
  <1> SUFFICES ASSUME SInv, NumberedOK, MarksOK, [Next]_vars PROVE MarksOK'
    OBVIOUS
  <1>1. book \subseteq Contracts /\ \A u \in Underlyings : ToSet(legsRec[u]) \subseteq Contracts
    <2>1. \A u \in Underlyings : legsRec[u] \in Seq(Traded)
      BY DEF SInv, BooksTyped
    <2>2. \A u \in Underlyings : ToSet(legsRec[u]) \subseteq Traded
      BY <2>1, ElementOfSeq, LenProperties DEF ToSet
    <2> QED
      BY <2>2, TradedFacts DEF SInv, BooksTyped
  <1>2. ASSUME UNCHANGED <<exitInFlight, unresolved, alerted, excused, reported>> PROVE MarksOK'
    BY <1>2 DEF MarksOK
  <1>3. CASE \E t \in Threads : Strolls(t)
    <2>1. UNCHANGED <<exitInFlight, unresolved, alerted, excused, reported>>
      BY <1>3 DEF Strolls, Flatten, FlattenRest, FlattenStructure, FlattenContract, NextJob, Tick,
             Watch, WatchRest, WatchStructure, WatchContract, Evaluation, Evaluate,
             memory, durable, exchange, history
    <2> QED
      BY <1>2, <2>1
  <1>4. CASE \E t \in Threads : Works(t)
    BY <1>4, WorkMarks
  <1>5. CASE Verify \/ Crash
    <2>1. CASE Memoryless /\ LastFills /\ UNCHANGED <<reported, alerted>>
      <3>1. exitInFlight' = {}
        BY <2>1 DEF Memoryless
      <3> QED
        BY <2>1, <3>1, LastMarks DEF MarksOK
    <2>2. CASE UNCHANGED <<memory, unresolved, excused, reported, alerted>>
      BY <1>2, <2>2 DEF memory
    <2> QED
      BY <1>5, <2>1, <2>2 DEF Verify, Crash
  <1>6. CASE KillAndFlatten \/ Shutdown \/ Rests
    <2>1. UNCHANGED <<exitInFlight, unresolved, alerted, excused, reported>>
      BY <1>6 DEF KillAndFlatten, Shutdown, Rests, Pause, Resume, vars, memory, durable, exchange, history
    <2> QED
      BY <1>2, <2>1
  <1>7. CASE Begins
    <2>1. excused' \subseteq Contracts
      <3>1. RestoreState
        BY <1>7 DEF Begins, Start, RestoreAgain
      <3>2. Mismatched \subseteq Contracts /\ Recorded \subseteq Contracts
        BY <1>1 DEF Mismatched, Recorded
      <3> QED
        BY <3>1, <3>2 DEF RestoreState, MarksOK
    <2>2. UNCHANGED <<exitInFlight, unresolved, alerted>> /\ reported' \in {reported, held}
      BY <1>7 DEF Begins, Start, RestoreAgain, durable, exchange
    <2>3. held \in [Contracts -> Int]
      BY DEF SInv, BooksTyped
    <2> QED
      BY <2>1, <2>2, <2>3 DEF MarksOK
  <1>8. CASE Fires
    <2>1. PICK ticket \in stops : StopFires(ticket)
      BY <1>8 DEF Fires
    <2>2. ticket.sym \in Contracts
      BY <2>1, TradedFacts DEF SInv, BooksTyped, TTicket
    <2>3. excused' = excused \cup {ticket.sym} /\ UNCHANGED <<exitInFlight, unresolved, alerted, reported>>
      BY <2>1 DEF StopFires, memory, durable
    <2> QED
      BY <2>2, <2>3 DEF MarksOK
  <1>9. CASE Clock
    <2>1. /\ excused' = excused \/ excused' = excused \cup (book \ TrackedContracts)
          /\ UNCHANGED <<exitInFlight, unresolved, alerted, reported>>
      BY <1>9 DEF Clock, memory, durable, exchange
    <2> QED
      BY <1>1, <2>1 DEF MarksOK
  <1> QED
    BY <1>3, <1>4, <1>5, <1>6, <1>7, <1>8, <1>9, AllSteps

-----------------------------------------------------------------------------
\* The days count up to the last instant's.
LEMMA DayTyped == ASSUME NEW n \in Instants PROVE Day(n) \in 0..Day(Horizon)
  BY NineTwentyAssumption DEF Day, Instants

\* No latch is set at the start.
LEMMA NoLatchTyped == NoLatch \in Latch
  <1>1. Horizon \in Instants
    BY NineTwentyAssumption DEF Instants
  <1>2. Day(Horizon) \in 0..Day(Horizon)
    BY <1>1, DayTyped
  <1>3. 0 \in 0..Day(Horizon)
    BY <1>2
  <1> QED
    BY <1>3 DEF NoLatch, Latch

\* What the strategy does with its latches keeps them latches.
LEMMA LatchMoves ==
    ASSUME NEW l \in Latch
    PROVE  /\ \A n \in Instants : Today(l, n) \in Latch
           /\ EntrySignaled(l) \in Latch /\ ExitSignaled(l) \in Latch
           /\ ConfirmEntry(l) \in Latch /\ ConfirmExit(l) \in Latch
           /\ \A saved \in Latch : Restore(saved, l) \in Latch
  <1>1. ASSUME NEW n \in Instants PROVE Today(l, n) \in Latch
    BY NoLatchTyped, DayTyped DEF Today, Latch
  <1>2. /\ EntrySignaled(l) \in Latch /\ ExitSignaled(l) \in Latch
        /\ ConfirmEntry(l) \in Latch /\ ConfirmExit(l) \in Latch
    BY DEF EntrySignaled, ExitSignaled, ConfirmEntry, ConfirmExit, Latch
  <1>3. ASSUME NEW saved \in Latch PROVE Restore(saved, l) \in Latch
    BY DEF Restore, Latch
  <1> QED
    BY <1>1, <1>2, <1>3

\* A snapshot saves latches, in part or whole.
LEMMA SavedTyped ==
    ASSUME DatesOK, NEW new \in [Underlyings -> Latch], SaveLatches(new)
    PROVE  stratRec' \in [Underlyings -> Latch]
  BY DEF DatesOK, SaveLatches

\* An evaluation keeps the latches' days.
LEMMA EvaluateDates ==
    ASSUME SInv, DatesOK, NEW u \in Underlyings, Evaluate(u)
    PROVE  latch' \in [Underlyings -> Latch]
  <1>1. PICK k : k = [task["loop"] EXCEPT !.us = @ \ {u}]
    OBVIOUS
  <1>2. PICK l : l = Today(latch[u], k.time)
    OBVIOUS
  <1>3. l \in Latch
    <2>1. k.time \in Instants
      BY <1>1, TaskFields DEF SInv, Types, Threads, TTask
    <2> QED
      BY <1>2, <2>1, LatchMoves DEF DatesOK
  <1>4. \/ latch' = latch
        \/ latch' = IF Latched THEN [latch EXCEPT ![u] = l] ELSE latch
        \/ latch' = IF Latched THEN [latch EXCEPT ![u] = EntrySignaled(l)] ELSE latch
        \/ latch' = IF Latched THEN [latch EXCEPT ![u] = ExitSignaled(l)] ELSE latch
    BY <1>1, <1>2, Zenon DEF Evaluate
  <1> QED
    BY <1>3, <1>4, LatchMoves DEF DatesOK

\* The latches and their records keep their days.
LEMMA DatesStep == SInv /\ DatesOK /\ [Next]_vars => DatesOK'
  <1> SUFFICES ASSUME SInv, DatesOK, [Next]_vars PROVE DatesOK'
    OBVIOUS
  <1>1. ASSUME UNCHANGED <<latch, stratRec>> PROVE DatesOK'
    BY <1>1 DEF DatesOK
  <1>2. ASSUME NEW t \in Threads, Strolls(t) PROVE DatesOK'
    <2>1. CASE latch' = latch
      <3>1. stratRec' = stratRec
        BY <1>2 DEF Strolls, Flatten, FlattenRest, FlattenStructure, FlattenContract, NextJob, Tick,
               Watch, WatchRest, WatchStructure, WatchContract, Evaluation, Evaluate, durable
      <3> QED
        BY <1>1, <2>1, <3>1
    <2>2. CASE \E u \in Underlyings : Evaluate(u)
      <3>1. stratRec' = stratRec
        BY <2>2 DEF Evaluate, durable
      <3> QED
        BY <2>2, <3>1, EvaluateDates DEF DatesOK
    <2>3. \/ latch' = latch
          \/ \E u \in Underlyings : Evaluate(u)
      BY <1>2 DEF Strolls, Flatten, FlattenRest, FlattenStructure, FlattenContract, NextJob, Tick,
             Watch, WatchRest, WatchStructure, WatchContract, Evaluation, memory
    <2> QED
      BY <2>1, <2>2, <2>3
  <1>3. ASSUME NEW t \in Threads, ExitConfirmed(t) \/ (t = "loop" /\ EntryConfirmed) PROVE DatesOK'
    <2>1. task[t].u \in Underlyings
      BY <1>3 DEF ExitConfirmed, EntryConfirmed, In, SInv, InShape, Shaped
    <2>2. PICK u \in Underlyings : u = task[t].u
      BY <2>1
    <2>3. \/ latch' = latch
          \/ \E m \in {ConfirmEntry(latch[u]), ConfirmExit(latch[u])} : latch' = [latch EXCEPT ![u] = m]
      BY <1>3, <2>2 DEF ExitConfirmed, EntryConfirmed
    <2>4. latch' \in [Underlyings -> Latch]
      BY <2>3, LatchMoves DEF DatesOK
    <2>5. SaveLatches(latch')
      BY <1>3 DEF ExitConfirmed, EntryConfirmed
    <2> QED
      BY <2>4, <2>5, SavedTyped DEF DatesOK
  <1>4. ASSUME NEW t \in Threads, Works(t), ~ExitConfirmed(t), ~(t = "loop" /\ EntryConfirmed) PROVE DatesOK'
    <2>1. UNCHANGED <<latch, stratRec>>
      BY <1>4 DEF Works, ClaimLeg, ClaimRefused, ExitFills, ExitFails, LegsClosed, Untrack, ClearStructure,
             ValidateLeg, RefuseLeg, OpenLeg, EntryFills, EntryRejected, EntryUnknown,
             TrackStructure, PersistStructure, memory, durable
    <2> QED
      BY <1>1, <2>1
  <1>5. ASSUME Verify \/ Crash PROVE DatesOK'
    <2>1. stratRec' = stratRec
      BY <1>5 DEF Verify, Crash
    <2>2. latch' = latch \/ latch' = [u \in Underlyings |-> NoLatch]
      BY <1>5 DEF Verify, Crash, Memoryless, memory
    <2> QED
      BY <2>1, <2>2, NoLatchTyped DEF DatesOK
  <1>6. ASSUME Begins PROVE DatesOK'
    <2>1. RestoreState /\ stratRec' = stratRec
      BY <1>6 DEF Begins, Start, RestoreAgain, durable
    <2>2. PICK loaded \in BOOLEAN : latch' = [u \in Underlyings |->
              IF loaded /\ stratRec[u] # NoLatch THEN Restore(stratRec[u], latch[u]) ELSE latch[u]]
      BY <2>1 DEF RestoreState
    <2>3. \A u \in Underlyings : Restore(stratRec[u], latch[u]) \in Latch /\ latch[u] \in Latch
      BY LatchMoves DEF DatesOK
    <2> QED
      BY <2>1, <2>2, <2>3 DEF DatesOK
  <1>7. ASSUME KillAndFlatten \/ Shutdown \/ Fires \/ Clock \/ Rests PROVE DatesOK'
    <2>1. UNCHANGED <<latch, stratRec>>
      BY <1>7 DEF KillAndFlatten, Shutdown, Fires, StopFires, Clock, Rests, Pause, Resume, vars, memory, durable
    <2> QED
      BY <1>1, <2>1
  <1> QED
    BY <1>2, <1>3, <1>4, <1>5, <1>6, <1>7, AllSteps

-----------------------------------------------------------------------------
\* Every row and every stop order at the exchange is of a numbered entry.
LEMMA TicketsStep == SInv /\ NumberedOK /\ TicketsOK /\ [Next]_vars => TicketsOK'
  <1> SUFFICES ASSUME SInv, NumberedOK, TicketsOK, [Next]_vars PROVE TicketsOK'
    OBVIOUS
  <1>1. ASSUME rows' \subseteq rows, stops' \subseteq stops PROVE TicketsOK'
    BY <1>1 DEF TicketsOK
  <1>2. ASSUME EntryFills PROVE TicketsOK'
    <2>1. PICK k : k = task["loop"]
      OBVIOUS
    <2>2. k \in TTask /\ k.act = "enter" /\ k.at = "sent" /\ k.legs # <<>>
      BY <1>2, <2>1, EntryFillsMoves
    <2>3. Head(k.legs).sym \in Contracts /\ Head(k.legs).row \in 0..MaxEntries
      BY <2>2, FirstLeg, TradedFacts
    <2>4. Head(k.legs).row # 0
      BY <2>1, <2>2 DEF NumberedOK, Numbered, Threads
    <2>5. PICK ticket : ticket = [sym |-> Head(k.legs).sym, row |-> Head(k.legs).row]
      OBVIOUS
    <2>6. ticket \in Ticket
      <3>1. Head(k.legs).row \in 1..MaxEntries
        BY <2>3, <2>4
      <3> QED
        BY <2>3, <2>5, <3>1 DEF Ticket
    <2>7. rows' = rows \cup {ticket} /\ (stops' = stops \/ stops' = stops \cup {ticket})
      BY <1>2, <2>1, <2>5 DEF EntryFills, Sym, Leg1
    <2> QED
      BY <2>6, <2>7 DEF TicketsOK
  <1>3. ASSUME NEW t \in Threads, Strolls(t) PROVE TicketsOK'
    <2>1. UNCHANGED <<rows, stops>>
      BY <1>3 DEF Strolls, Flatten, FlattenRest, FlattenStructure, FlattenContract, NextJob, Tick,
             Watch, WatchRest, WatchStructure, WatchContract, Evaluation, Evaluate, durable, exchange
    <2> QED
      BY <1>1, <2>1
  <1>4. ASSUME NEW t \in Threads, Works(t), ~EntryFills PROVE TicketsOK'
    <2>1. rows' \subseteq rows /\ stops' \subseteq stops
      BY <1>4 DEF Works, ClaimLeg, ClaimRefused, CancelStop, ExitFills, ExitFails, LegsClosed, Untrack,
             ClearStructure, ExitConfirmed, ValidateLeg, RefuseLeg, OpenLeg, EntryRejected, EntryUnknown,
             TrackStructure, PersistStructure, EntryConfirmed, durable, exchange
    <2> QED
      BY <1>1, <2>1
  <1>5. ASSUME Verify \/ Crash \/ KillAndFlatten \/ Shutdown \/ Begins \/ Fires \/ Clock \/ Rests
        PROVE  TicketsOK'
    <2>1. rows' \subseteq rows /\ stops' \subseteq stops
      BY <1>5 DEF Verify, Crash, KillAndFlatten, Shutdown, Begins, Start, RestoreAgain, Fires, StopFires,
             Clock, Rests, Pause, Resume, vars, durable, exchange
    <2> QED
      BY <1>1, <2>1
  <1> QED
    BY <1>2, <1>3, <1>4, <1>5, AllSteps

-----------------------------------------------------------------------------
\* More values, more sequences.
LEMMA MoreSeqs == ASSUME NEW S, NEW T, S \subseteq T PROVE Seq(S) \subseteq Seq(T)
  BY SeqDef

\* The shape and the rest are all the types.
LEMMA AllTyped == SInv /\ KInv => TypeOK
  <1> SUFFICES ASSUME SInv, KInv PROVE TypeOK
    OBVIOUS
  <1>1. TLeg \subseteq Leg
    BY TradedFacts DEF TLeg, Leg
  <1>2. Seq(TLeg) \subseteq Seq(Leg)
    BY <1>1, MoreSeqs
  <1>3. Seq(Traded) \subseteq Seq(Contracts)
    BY TradedFacts, MoreSeqs
  <1>4. TTask \subseteq Task
    BY <1>2, TradedFacts DEF TTask, Task
  <1>5. task \in [Threads -> Task] /\ open \in [Underlyings -> Seq(Leg)]
        /\ legsRec \in [Underlyings -> Seq(Contracts)]
    BY <1>2, <1>3, <1>4 DEF SInv, Types, BooksTyped
  <1>6. book \subseteq Contracts
    BY TradedFacts DEF SInv, BooksTyped
  <1> QED
    BY <1>5, <1>6 DEF SInv, Types, BooksTyped, KInv, SpentOK, MarksOK, DatesOK, TicketsOK, TypeOK

\* Every variable of the runner, its books, the records and the exchange keeps
\* its type: no bound is passed, no latch is of a day to come, and every row and
\* stop order is of a numbered entry of a contract (Runner.TypeOK).
THEOREM RunnerTyped == Spec => []TypeOK
<1>1. Init => KInv
  <2> SUFFICES ASSUME Init PROVE KInv
    OBVIOUS
  <2>1. FirstStart
    BY DEF Init
  <2>2. SpentOK
    <3>1. paused = FALSE /\ attempt = 0 /\ hooks = 0 /\ unknown = 0 /\ restarts = 0 /\ faults = 0
      BY <2>1 DEF Init, FirstStart
    <3>2. 0 \in 0..MaxAttempts /\ 0 \in 0..MaxHooks /\ 0 \in 0..MaxUnknown /\ 0 \in 0..MaxRestarts
          /\ 0 \in 0..MaxFaults
      BY RunnerAssumption DEF MaxAttempts
    <3> QED
      BY <3>1, <3>2 DEF SpentOK
  <2>3. MarksOK
    BY <2>1 DEF FirstStart, MarksOK
  <2>4. DatesOK
    BY <2>1, NoLatchTyped DEF FirstStart, DatesOK
  <2>5. TicketsOK
    BY <2>1 DEF FirstStart, TicketsOK
  <2>6. NumberedOK
    BY <2>1 DEF FirstStart, NumberedOK, Numbered, Idle
  <2> QED
    BY <2>2, <2>3, <2>4, <2>5, <2>6 DEF KInv
<1>2. SInv /\ KInv /\ [Next]_vars => KInv'
  BY SpentStep, MarksStep, DatesStep, TicketsStep, NumberedStep DEF KInv
<1> QED
  BY <1>1, <1>2, ShapeKept, AllTyped, PTL DEF Spec
=============================================================================
