------------------------------- MODULE Candles -------------------------------
(***************************************************************************)
(* The market history a strategy is given: PriceHistory, the last readings *)
(* of a symbol, and CandleAggregator, the candles of the readings by       *)
(* interval.  Volume comes as the broker's count of the day, which starts  *)
(* again at zero.  One symbol: the symbols share nothing.                  *)
(***************************************************************************)
EXTENDS Integers, Sequences, SequencesExt

CONSTANTS
    Levels,     \* prices
    MaxVolume,  \* highest count of a day's volume
    MaxKeep,    \* completed candles and readings that are kept, one at least
    MaxSkip,    \* bound: intervals that can pass without a reading
    MaxTicks    \* bound: readings

VARIABLES
    ticks,      \* history: every reading
    points,     \* PriceHistory.data of the symbol
    done,       \* CandleAggregator.done of the symbol
    building    \* CandleAggregator.building of the symbol, as a sequence of at most one

candleVars == <<ticks, points, done, building>>

-----------------------------------------------------------------------------
Tick == [bucket : Nat, price : Levels, volume : 0..MaxVolume]
Candle == [bucket : Nat, open : Levels, high : Levels, low : Levels, close : Levels, volume : Int]

Init ==
    /\ ticks = <<>>
    /\ points = <<>>
    /\ done = <<>>
    /\ building = <<>>

\* Fault: one more than the size is kept.
TrimLate(s) == IF Len(s) > MaxKeep + 1 THEN SubSeq(s, Len(s) - MaxKeep, Len(s)) ELSE s

\* Both stores drop the oldest beyond their size.
Trim(s) == IF Len(s) > MaxKeep THEN SubSeq(s, Len(s) - MaxKeep + 1, Len(s)) ELSE s

NewCandle(t) ==
    [candle |-> [bucket |-> t.bucket, open |-> t.price, high |-> t.price, low |-> t.price,
                 close |-> t.price, volume |-> 0],
     lastCumVol |-> t.volume]

\* Fault: a count that starts again is taken for a loss.
ExtendSigned(b, t) ==
    [candle |-> [b.candle EXCEPT !.close = t.price,
                                 !.high = IF t.price > @ THEN t.price ELSE @,
                                 !.low = IF t.price < @ THEN t.price ELSE @,
                                 !.volume = @ + (t.volume - b.lastCumVol)],
     lastCumVol |-> t.volume]

Extend(b, t) ==
    [candle |-> [b.candle EXCEPT !.close = t.price,
                                 !.high = IF t.price > @ THEN t.price ELSE @,
                                 !.low = IF t.price < @ THEN t.price ELSE @,
                                 !.volume = IF t.volume >= b.lastCumVol
                                                THEN @ + (t.volume - b.lastCumVol) ELSE @],
     lastCumVol |-> t.volume]

\* PriceHistory.Add and CandleAggregator.Add, as the runner's tick calls them.
Add(t) ==
    /\ Len(ticks) < MaxTicks
    /\ ticks' = Append(ticks, t)
    /\ points' = Trim(Append(points, [price |-> t.price, volume |-> t.volume]))
    /\ IF building # <<>> /\ building[1].candle.bucket = t.bucket
           THEN /\ building' = <<Extend(building[1], t)>>
                /\ UNCHANGED done
           ELSE /\ building' = <<NewCandle(t)>>
                /\ done' = IF building = <<>> THEN done
                           ELSE Trim(Append(done, building[1].candle))

\* The clock of the readings does not go back.
Next ==
    \E skip \in 0..MaxSkip, p \in Levels, v \in 0..MaxVolume :
        Add([bucket |-> (IF ticks = <<>> THEN 0 ELSE ticks[Len(ticks)].bucket) + skip,
             price |-> p, volume |-> v])

Spec == Init /\ [][Next]_candleVars

-----------------------------------------------------------------------------
TypeOK ==
    /\ ticks \in Seq(Tick)
    /\ points \in Seq([price : Levels, volume : 0..MaxVolume]) /\ Len(points) <= MaxKeep
    /\ done \in Seq(Candle) /\ Len(done) <= MaxKeep
    /\ building \in Seq([candle : Candle, lastCumVol : 0..MaxVolume]) /\ Len(building) <= 1

(***************************************************************************)
(* The reference: the candle of an interval is what its readings say.  h   *)
(* is a history; a reading is named by its place in it.                    *)
(***************************************************************************)
Of(h, b) == {i \in 1..Len(h) : h[i].bucket = b}
Buckets(h) == {h[i].bucket : i \in 1..Len(h)}

\* What the count of the day rose by since the reading before.
Rise(h) == [i \in 1..Len(h) |-> IF i = 1 THEN 0 ELSE Max({0, h[i].volume - h[i - 1].volume})]

\* The first reading of an interval says nothing of what was traded in it.
CandleOf(h, b) ==
    LET first == Min(Of(h, b))
        prices == {h[i].price : i \in Of(h, b)}
    IN [bucket |-> b, open |-> h[first].price, close |-> h[Max(Of(h, b))].price,
        high |-> Max(prices), low |-> Min(prices),
        volume |-> SumFunctionOnSet(Rise(h), Of(h, b) \ {first})]

\* d is the newest candles of the intervals E, oldest first, as many as are kept.
NewestOf(d, h, E) ==
    LET kept == {d[i].bucket : i \in 1..Len(d)}
    IN /\ kept \subseteq E
       /\ \A i \in 1..Len(d) : d[i] = CandleOf(h, d[i].bucket)
       /\ \A i, j \in 1..Len(d) : i < j => d[i].bucket < d[j].bucket
       /\ \A b \in E \ kept : Len(d) = MaxKeep /\ \A c \in kept : b < c

(***************************************************************************)
(* The candles are those of the last completed intervals with readings,    *)
(* oldest first, each with the open, range, close and volume of exactly    *)
(* its readings, through gaps, single readings and a new day's count.      *)
(***************************************************************************)
CandlesMatchTicks ==
    LET now == Max(Buckets(ticks))
    IN ticks # <<>> =>
           /\ building[1].candle = CandleOf(ticks, now)
           /\ NewestOf(done, ticks, Buckets(ticks) \ {now})
=============================================================================
