---------------------------- MODULE CandlesProofs ----------------------------
(***************************************************************************)
(* The candles are what the readings say, for histories of every length,   *)
(* any number of candles kept and any gaps between readings.               *)
(***************************************************************************)
EXTENDS Services, Sums

\* The greatest of a set is the member that none exceeds.
LEMMA GreatestIs ==
    ASSUME NEW S, S \subseteq Int, NEW m \in S, \A y \in S : m >= y
    PROVE  History!Max(S) = m
<1> DEFINE g == CHOOSE x \in S : \A y \in S : x >= y
<1>1. g \in S /\ \A y \in S : g >= y
    OBVIOUS
<1>2. g >= m /\ m >= g
    BY <1>1
<1>3. g \in Int /\ m \in Int
    BY <1>1
<1> HIDE DEF g
<1>4. g = m
    BY <1>2, <1>3
<1> QED BY <1>4 DEF History!Max, g

\* The least of a set is the member that is below all.
LEMMA LeastIs ==
    ASSUME NEW S, S \subseteq Int, NEW m \in S, \A y \in S : m <= y
    PROVE  History!Min(S) = m
<1> DEFINE g == CHOOSE x \in S : \A y \in S : x <= y
<1>1. g \in S /\ \A y \in S : g <= y
    OBVIOUS
<1>2. g <= m /\ m <= g
    BY <1>1
<1>3. g \in Int /\ m \in Int
    BY <1>1
<1> HIDE DEF g
<1>4. g = m
    BY <1>2, <1>3
<1> QED BY <1>4 DEF History!Min, g

\* The sum of the model is that of the lemmas.
LEMMA SameSum ==
    ASSUME NEW f, NEW S
    PROVE  History!SumFunctionOnSet(f, S) = SumFunctionOnSet(f, S)
BY DEF History!SumFunctionOnSet, SumFunctionOnSet, History!FoldFunctionOnSet, FoldFunctionOnSet,
       History!MapThenFoldSet, MapThenFoldSet

\* A finite set of integers that is not empty has a greatest and a least member.
LEMMA GreatestExists ==
    ASSUME NEW S, IsFiniteSet(S)
    PROVE  S \subseteq Int /\ S # {} => /\ \E m \in S : \A y \in S : m >= y
                                       /\ \E m \in S : \A y \in S : m <= y
<1> DEFINE Ends(T) == /\ \E m \in T : \A y \in T : m >= y
                      /\ \E m \in T : \A y \in T : m <= y
           C == {T \in SUBSET S : T \subseteq Int /\ T # {} /\ ~Ends(T)}
<1>1. SUFFICES ASSUME C # {} PROVE FALSE
    OBVIOUS
<1>2. PICK T \in C : \A U \in C : U \subseteq T => U = T
    <2>1. C \subseteq SUBSET S
        OBVIOUS
    <2> HIDE DEF C
    <2> QED BY <1>1, <2>1, SmallestSubset
<1>3. PICK x \in T : TRUE
    BY <1>2
<1>4. CASE T \ {x} = {}
    <2>1. T = {x} /\ x \in Int
        BY <1>2, <1>3, <1>4
    <2>2. Ends(T)
        BY <2>1
    <2> QED BY <1>2, <2>2
<1>5. CASE T \ {x} # {}
    <2>1. Ends(T \ {x})
        <3>1. T \ {x} \in SUBSET S /\ T \ {x} \subseteq T /\ T \ {x} # T
            BY <1>2, <1>3
        <3> HIDE DEF Ends
        <3> QED BY <1>2, <1>5, <3>1
    <2>2. PICK m \in T \ {x} : \A y \in T \ {x} : m >= y
        BY <2>1
    <2>3. PICK n \in T \ {x} : \A y \in T \ {x} : n <= y
        BY <2>1
    <2>4. T \subseteq Int
        BY <1>2
    <2>5. \E k \in T : \A y \in T : k >= y
        <3>1. CASE x >= m
            BY <1>3, <2>2, <2>4, <3>1
        <3>2. CASE ~(x >= m)
            BY <1>3, <2>2, <2>4, <3>2
        <3> QED BY <3>1, <3>2
    <2>6. \E k \in T : \A y \in T : k <= y
        <3>1. CASE x <= n
            BY <1>3, <2>3, <2>4, <3>1
        <3>2. CASE ~(x <= n)
            BY <1>3, <2>3, <2>4, <3>2
        <3> QED BY <3>1, <3>2
    <2> QED BY <1>2, <2>5, <2>6
<1> QED BY <1>4, <1>5

\* The greatest and the least of a set are members that bound it.
LEMMA Bounds ==
    ASSUME NEW S, IsFiniteSet(S), S \subseteq Int, S # {}
    PROVE  /\ History!Max(S) \in S /\ \A y \in S : History!Max(S) >= y
           /\ History!Min(S) \in S /\ \A y \in S : History!Min(S) <= y
<1>1. PICK m \in S : \A y \in S : m >= y
    BY GreatestExists
<1>2. PICK n \in S : \A y \in S : n <= y
    BY GreatestExists
<1>3. History!Max(S) = m /\ History!Min(S) = n
    BY <1>1, <1>2, GreatestIs, LeastIs
<1> QED BY <1>1, <1>2, <1>3

-----------------------------------------------------------------------------
(***************************************************************************)
(* What one more reading does to the reference.                            *)
(***************************************************************************)
Ordered(h) == \A i, j \in 1..Len(h) : i <= j => h[i].bucket <= h[j].bucket

\* What a reading is made of.
LEMMA TickTyped ==
    ASSUME NEW t \in History!Tick
    PROVE  /\ t.bucket \in Nat
           /\ t.price \in Levels /\ t.price \in Int
           /\ t.volume \in 0..MaxVolume /\ t.volume \in Int
<1>1. t.bucket \in Nat /\ t.price \in Levels /\ t.volume \in 0..MaxVolume
    BY DEF History!Tick
<1>2. Levels \subseteq Nat /\ MaxVolume \in Nat
    BY HistoryAssumption
<1>3. \A p \in Levels : p \in Int
    BY <1>2
<1>4. \A v \in 0..MaxVolume : v \in Int
    OBVIOUS
<1> QED BY <1>1, <1>3, <1>4

\* The readings of an interval are finitely many places in the history.
LEMMA OfFinite ==
    ASSUME NEW h \in Seq(History!Tick), NEW b
    PROVE  /\ IsFiniteSet(History!Of(h, b))
           /\ History!Of(h, b) \subseteq 1..Len(h)
           /\ History!Of(h, b) \subseteq Int
<1>1. IsFiniteSet(1..Len(h)) /\ 1..Len(h) \subseteq Int
    BY FS_Interval
<1>2. History!Of(h, b) \subseteq 1..Len(h)
    BY DEF History!Of
<1> QED BY <1>1, <1>2, FS_Subset

\* The prices of an interval are finitely many.
LEMMA PricesFinite ==
    ASSUME NEW h \in Seq(History!Tick), NEW b
    PROVE  /\ IsFiniteSet({h[i].price : i \in History!Of(h, b)})
           /\ {h[i].price : i \in History!Of(h, b)} \subseteq Levels
           /\ {h[i].price : i \in History!Of(h, b)} \subseteq Int
<1>1. \A i \in History!Of(h, b) : h[i] \in History!Tick
    BY OfFinite
<1>2. \A i \in History!Of(h, b) : h[i].price \in Levels /\ h[i].price \in Int
    BY <1>1, TickTyped
<1>3. IsFiniteSet(History!Of(h, b))
    BY OfFinite
<1>4. IsFiniteSet({h[i].price : i \in History!Of(h, b)})
    <2> DEFINE S == History!Of(h, b)
               f == [i \in S |-> h[i].price]
               P == {h[i].price : i \in S}
    <2>1. f \in Surjection(S, P)
        BY DEF Surjection
    <2>2. IsFiniteSet(S)
        BY <1>3
    <2> HIDE DEF S, f, P
    <2>3. IsFiniteSet(P)
        BY <2>1, <2>2, FS_Surjection
    <2> QED BY <2>3 DEF P, S
<1> QED BY <1>2, <1>4

\* What the count rose by, reading by reading.
LEMMA RiseIs ==
    ASSUME NEW h \in Seq(History!Tick), NEW i \in 1..Len(h)
    PROVE  /\ History!Rise(h)[i] \in Int
           /\ i > 1 => History!Rise(h)[i] = IF h[i].volume >= h[i - 1].volume
                                                THEN h[i].volume - h[i - 1].volume ELSE 0
<1>1. CASE i = 1
    BY <1>1 DEF History!Rise
<1>2. CASE i > 1
    <2>1. i - 1 \in 1..Len(h)
        BY <1>2
    <2>2. h[i] \in History!Tick /\ h[i - 1] \in History!Tick
        BY <2>1
    <2>3. h[i].volume \in Int /\ h[i - 1].volume \in Int
        BY <2>2, TickTyped
    <2> DEFINE d == h[i].volume - h[i - 1].volume
    <2>4. d \in Int
        BY <2>3
    <2>5. History!Rise(h)[i] = History!Max({0, d})
        BY <1>2 DEF History!Rise
    <2>6. (d >= 0) = (h[i].volume >= h[i - 1].volume)
        BY <2>3
    <2> HIDE DEF d
    <2>7. CASE d >= 0
        <3>1. {0, d} \subseteq Int /\ \A y \in {0, d} : d >= y
            BY <2>4, <2>7
        <3>2. History!Max({0, d}) = d
            BY <3>1, GreatestIs
        <3>3. History!Rise(h)[i] = d
            BY <2>5, <3>2
        <3> QED BY <2>3, <2>6, <2>7, <3>3 DEF d
    <2>8. CASE ~(d >= 0)
        <3>1. {0, d} \subseteq Int /\ \A y \in {0, d} : 0 >= y
            BY <2>4, <2>8
        <3>2. History!Max({0, d}) = 0
            BY <3>1, GreatestIs
        <3> QED BY <2>5, <2>6, <2>8, <3>2
    <2> QED BY <2>7, <2>8
<1> QED BY <1>1, <1>2

\* A history and one more reading.
LEMMA Appended ==
    ASSUME NEW h \in Seq(History!Tick), NEW t \in History!Tick
    PROVE  /\ Append(h, t) \in Seq(History!Tick)
           /\ Append(h, t) # <<>>
           /\ Len(h) \in Nat /\ Len(Append(h, t)) = Len(h) + 1
           /\ Append(h, t)[Len(h) + 1] = t
           /\ \A i \in 1..Len(h) : Append(h, t)[i] = h[i] /\ i \in 1..Len(Append(h, t))
OBVIOUS

\* The readings before have risen by what they had.
LEMMA RiseKept ==
    ASSUME NEW h \in Seq(History!Tick), NEW t \in History!Tick, NEW i \in 1..Len(h)
    PROVE  History!Rise(Append(h, t))[i] = History!Rise(h)[i]
<1> DEFINE g == Append(h, t)
<1>1. /\ i \in 1..Len(g) /\ g[i] = h[i]
      /\ i > 1 => i - 1 \in 1..Len(h) /\ g[i - 1] = h[i - 1]
    BY Appended
<1> HIDE DEF g
<1>2. History!Rise(g)[i] = IF i = 1 THEN 0 ELSE History!Max({0, g[i].volume - g[i - 1].volume})
    BY <1>1 DEF History!Rise
<1>3. History!Rise(h)[i] = IF i = 1 THEN 0 ELSE History!Max({0, h[i].volume - h[i - 1].volume})
    BY DEF History!Rise
<1>4. CASE i = 1
    BY <1>2, <1>3, <1>4 DEF g
<1>5. CASE i # 1
    <2>1. i > 1
        BY <1>5
    <2> QED BY <1>1, <1>2, <1>3, <1>5, <2>1 DEF g
<1> QED BY <1>4, <1>5

\* The places of another interval's readings.
LEMMA OfKept ==
    ASSUME NEW h \in Seq(History!Tick), NEW t \in History!Tick, NEW b, b # t.bucket
    PROVE  History!Of(Append(h, t), b) = History!Of(h, b)
BY Appended DEF History!Of

\* The places of the reading's interval are one more.
LEMMA OfGrows ==
    ASSUME NEW h \in Seq(History!Tick), NEW t \in History!Tick
    PROVE  History!Of(Append(h, t), t.bucket) = History!Of(h, t.bucket) \cup {Len(h) + 1}
BY Appended DEF History!Of

\* The candle of another interval is what it was.
LEMMA CandleKept ==
    ASSUME NEW h \in Seq(History!Tick), NEW t \in History!Tick, NEW b, b # t.bucket,
           History!Of(h, b) # {}
    PROVE  History!CandleOf(Append(h, t), b) = History!CandleOf(h, b)
<1> DEFINE g == Append(h, t)
           S == History!Of(h, b)
<1>1. History!Of(g, b) = S
    BY OfKept
<1>2. IsFiniteSet(S) /\ S \subseteq Int /\ \A i \in S : i \in 1..Len(h) /\ g[i] = h[i]
    BY OfFinite, Appended
<1>3. History!Min(S) \in S /\ History!Max(S) \in S
    BY <1>2, Bounds
<1>4. {g[i].price : i \in S} = {h[i].price : i \in S}
    BY <1>2
<1>5. \A i \in S : History!Rise(g)[i] = History!Rise(h)[i]
    BY <1>2, RiseKept
<1> DEFINE R == S \ {History!Min(S)}
<1>6. History!SumFunctionOnSet(History!Rise(g), R) = History!SumFunctionOnSet(History!Rise(h), R)
    <2>1. IsFiniteSet(R) /\ \A i \in R : History!Rise(g)[i] = History!Rise(h)[i]
        BY <1>2, <1>5, FS_Subset
    <2> HIDE DEF R, S, g
    <2> QED BY <2>1, SumSame, SameSum
<1>7. /\ g[History!Min(S)].price = h[History!Min(S)].price
      /\ g[History!Max(S)].price = h[History!Max(S)].price
    BY <1>2, <1>3
<1> HIDE DEF g
<1> QED BY <1>1, <1>4, <1>6, <1>7 DEF History!CandleOf, g

\* The greatest and the least of one number.
LEMMA BoundsOfOne ==
    ASSUME NEW p \in Int
    PROVE  History!Max({p}) = p /\ History!Min({p}) = p
<1>1. {p} \subseteq Int /\ p \in {p} /\ \A y \in {p} : p >= y /\ p <= y
    OBVIOUS
<1> QED BY <1>1, GreatestIs, LeastIs

\* The first reading of an interval starts its candle.
LEMMA CandleStarts ==
    ASSUME NEW h \in Seq(History!Tick), NEW t \in History!Tick,
           History!Of(h, t.bucket) = {}
    PROVE  History!CandleOf(Append(h, t), t.bucket) = History!NewCandle(t).candle
<1> DEFINE g == Append(h, t)
           n == Len(h) + 1
<1>1. History!Of(g, t.bucket) = {n}
    BY OfGrows
<1>2. n \in Int /\ g[n] = t
    BY Appended
<1>3. t.price \in Int
    BY TickTyped
<1> HIDE DEF g, n
<1>4. History!Min({n}) = n /\ History!Max({n}) = n
    BY <1>2, BoundsOfOne
<1>5. History!Min({t.price}) = t.price /\ History!Max({t.price}) = t.price
    BY <1>3, BoundsOfOne
<1>6. {g[i].price : i \in {n}} = {t.price}
    BY <1>2
<1>7. History!SumFunctionOnSet(History!Rise(g), {n} \ {n}) = 0
    <2>1. {n} \ {n} = {}
        OBVIOUS
    <2>2. History!SumFunctionOnSet(History!Rise(g), {}) = SumFunctionOnSet(History!Rise(g), {})
        BY SameSum
    <2> QED BY <2>1, <2>2, SumEmpty
<1>8. History!CandleOf(g, t.bucket) =
        [bucket |-> t.bucket, open |-> t.price, close |-> t.price,
         high |-> t.price, low |-> t.price, volume |-> 0]
    BY <1>1, <1>2, <1>4, <1>5, <1>6, <1>7 DEF History!CandleOf
<1> QED BY <1>8 DEF g, History!NewCandle

\* The greatest and the least of a set and one more number.
LEMMA BoundsGrow ==
    ASSUME NEW S, IsFiniteSet(S), S \subseteq Int, S # {}, NEW p \in Int
    PROVE  /\ History!Max(S \cup {p}) = IF p > History!Max(S) THEN p ELSE History!Max(S)
           /\ History!Min(S \cup {p}) = IF p < History!Min(S) THEN p ELSE History!Min(S)
<1> DEFINE hi == History!Max(S)
           lo == History!Min(S)
<1>1. hi \in S /\ lo \in S /\ \A y \in S : hi >= y /\ lo <= y
    BY Bounds
<1> HIDE DEF hi, lo
<1>2. hi \in Int /\ lo \in Int /\ S \cup {p} \subseteq Int
    BY <1>1
<1>3. ASSUME p > hi PROVE History!Max(S \cup {p}) = p
    <2>1. \A y \in S \cup {p} : p >= y
        BY <1>1, <1>2, <1>3
    <2> QED BY <1>2, <2>1, GreatestIs
<1>4. ASSUME ~(p > hi) PROVE History!Max(S \cup {p}) = hi
    <2>1. \A y \in S \cup {p} : hi >= y
        BY <1>1, <1>2, <1>4
    <2> QED BY <1>1, <1>2, <2>1, GreatestIs
<1>5. ASSUME p < lo PROVE History!Min(S \cup {p}) = p
    <2>1. \A y \in S \cup {p} : p <= y
        BY <1>1, <1>2, <1>5
    <2> QED BY <1>2, <2>1, LeastIs
<1>6. ASSUME ~(p < lo) PROVE History!Min(S \cup {p}) = lo
    <2>1. \A y \in S \cup {p} : lo <= y
        BY <1>1, <1>2, <1>6
    <2> QED BY <1>1, <1>2, <2>1, LeastIs
<1>7. History!Max(S \cup {p}) = IF p > hi THEN p ELSE hi
    BY <1>3, <1>4
<1>8. History!Min(S \cup {p}) = IF p < lo THEN p ELSE lo
    BY <1>5, <1>6
<1> QED BY <1>7, <1>8 DEF hi, lo

\* Every other reading of an interval extends its candle.
LEMMA CandleGrows ==
    ASSUME NEW h \in Seq(History!Tick), NEW t \in History!Tick, h # <<>>,
           h[Len(h)].bucket = t.bucket,
           NEW r, r.candle = History!CandleOf(h, t.bucket),
           r.lastCumVol = h[Len(h)].volume
    PROVE  History!CandleOf(Append(h, t), t.bucket) = History!Extend(r, t).candle
<1> DEFINE g == Append(h, t)
           n == Len(h)
           S == History!Of(h, t.bucket)
           P == {h[i].price : i \in S}
           first == History!Min(S)
           R == S \ {first}
           vol == History!SumFunctionOnSet(History!Rise(h), R)
           more == IF t.volume >= h[n].volume THEN t.volume - h[n].volume ELSE 0
<1>1. /\ g \in Seq(History!Tick) /\ n \in Nat /\ n >= 1 /\ Len(g) = n + 1 /\ g[n + 1] = t
      /\ \A i \in 1..n : g[i] = h[i]
    BY Appended
<1>2. n \in S /\ S \subseteq 1..n /\ IsFiniteSet(S) /\ S \subseteq Int /\ S # {}
    <2>1. n \in S
        BY <1>1 DEF History!Of
    <2> QED BY <2>1, OfFinite
<1>3. History!Of(g, t.bucket) = S \cup {n + 1}
    BY OfGrows
<1>4. first \in S /\ \A i \in S : first <= i
    BY <1>2, Bounds
<1>5. /\ first \in 1..n /\ R \subseteq 1..n /\ IsFiniteSet(R) /\ n + 1 \notin R
      /\ (S \cup {n + 1}) \ {first} = R \cup {n + 1}
      /\ (R \cup {n + 1}) \ {n + 1} = R
    <2>1. IsFiniteSet(R)
        BY <1>2, FS_Subset
    <2> HIDE DEF S, n, first
    <2> QED BY <1>1, <1>2, <1>4, <2>1
<1>6. History!Min(S \cup {n + 1}) = first
    <2> HIDE DEF S, n, first
    <2>1. \A i \in S \cup {n + 1} : first <= i
        BY <1>1, <1>2, <1>4, <1>5
    <2>2. n + 1 \in Int
        BY <1>1
    <2>3. S \cup {n + 1} \subseteq Int /\ first \in S \cup {n + 1}
        BY <1>2, <1>4, <2>2
    <2> QED BY <2>1, <2>3, LeastIs
<1>7. History!Max(S \cup {n + 1}) = n + 1
    <2> HIDE DEF S, n, first
    <2>1. \A i \in S \cup {n + 1} : n + 1 >= i
        BY <1>1, <1>2
    <2>2. S \cup {n + 1} \subseteq Int /\ n + 1 \in S \cup {n + 1}
        BY <1>1, <1>2
    <2> QED BY <2>1, <2>2, GreatestIs
<1>8. {g[i].price : i \in S \cup {n + 1}} = P \cup {t.price}
    <2>1. \A i \in S : g[i] = h[i]
        BY <1>1, <1>2
    <2> HIDE DEF S, n, g
    <2> QED BY <1>1, <2>1
<1>9. IsFiniteSet(P) /\ P \subseteq Int /\ P # {} /\ t.price \in Int
    BY <1>2, PricesFinite, TickTyped
<1>10. vol \in Int
    <2>1. \A i \in R : History!Rise(h)[i] \in Int
        BY <1>5, RiseIs
    <2> HIDE DEF R
    <2> QED BY <1>5, <2>1, SumInt, SameSum
<1>11. History!SumFunctionOnSet(History!Rise(g), R \cup {n + 1}) = vol + more
    <2>1. IsFiniteSet(R \cup {n + 1})
        BY <1>5, FS_AddElement
    <2>2. \A i \in R \cup {n + 1} : i \in 1..Len(g) /\ History!Rise(g)[i] \in Int
        <3>1. R \cup {n + 1} \subseteq 1..Len(g)
            BY <1>1, <1>5
        <3> QED BY <1>1, <3>1, RiseIs
    <2>3. \A i \in R : History!Rise(g)[i] = History!Rise(h)[i]
        BY <1>5, RiseKept
    <2>4. History!Rise(g)[n + 1] = more
        <3>1. n + 1 \in 1..Len(g) /\ n + 1 > 1 /\ g[(n + 1) - 1] = h[n]
            BY <1>1
        <3> QED BY <1>1, <3>1, RiseIs
    <2> HIDE DEF R, n, g, more
    <2>5. SumFunctionOnSet(History!Rise(g), R) = SumFunctionOnSet(History!Rise(h), R)
        <3>1. IsFiniteSet(R)
            BY <1>5
        <3> QED BY <2>3, <3>1, SumSame
    <2>6. SumFunctionOnSet(History!Rise(g), R \cup {n + 1}) =
            History!Rise(g)[n + 1] + SumFunctionOnSet(History!Rise(g), (R \cup {n + 1}) \ {n + 1})
        BY <2>1, <2>2, SumRemove
    <2>7. SumFunctionOnSet(History!Rise(g), R \cup {n + 1}) = more + vol
        BY <1>5, <2>4, <2>5, <2>6, SameSum
    <2>8. more \in Int
        BY <2>2, <2>4
    <2> HIDE DEF vol
    <2> QED BY <1>10, <2>7, <2>8, SameSum
<1> HIDE DEF S, n, g, R, P
<1>12. History!CandleOf(g, t.bucket) =
        [bucket |-> t.bucket, open |-> g[first].price, close |-> t.price,
         high |-> History!Max(P \cup {t.price}), low |-> History!Min(P \cup {t.price}),
         volume |-> vol + more]
    BY <1>1, <1>3, <1>5, <1>6, <1>7, <1>8, <1>11 DEF History!CandleOf
<1>13. g[first].price = h[first].price
    BY <1>1, <1>5
<1>14. r.candle = [bucket |-> t.bucket, open |-> h[first].price,
                   close |-> h[History!Max(S)].price,
                   high |-> History!Max(P), low |-> History!Min(P), volume |-> vol]
    BY DEF History!CandleOf, S, P, R
<1>15. History!Max(P \cup {t.price}) = IF t.price > History!Max(P) THEN t.price ELSE History!Max(P)
    BY <1>9, BoundsGrow
<1>16. History!Min(P \cup {t.price}) = IF t.price < History!Min(P) THEN t.price ELSE History!Min(P)
    BY <1>9, BoundsGrow
<1> DEFINE hi == History!Max(P)
           lo == History!Min(P)
<1> HIDE DEF first, vol, hi, lo
<1>17. History!Extend(r, t).candle =
        [bucket |-> t.bucket, open |-> h[first].price, close |-> t.price,
         high |-> IF t.price > hi THEN t.price ELSE hi,
         low |-> IF t.price < lo THEN t.price ELSE lo,
         volume |-> IF t.volume >= h[n].volume THEN vol + (t.volume - h[n].volume) ELSE vol]
    <2>1. r.candle = [bucket |-> t.bucket, open |-> h[first].price,
                      close |-> h[History!Max(S)].price, high |-> hi, low |-> lo, volume |-> vol]
        BY <1>14 DEF hi, lo
    <2> DEFINE c == r.candle
               v == r.lastCumVol
    <2>2. History!Extend(r, t).candle =
            [c EXCEPT !.close = t.price,
                      !.high = IF t.price > c.high THEN t.price ELSE c.high,
                      !.low = IF t.price < c.low THEN t.price ELSE c.low,
                      !.volume = IF t.volume >= v THEN c.volume + (t.volume - v) ELSE c.volume]
        BY DEF History!Extend
    <2>3. /\ c = [bucket |-> t.bucket, open |-> h[first].price,
                  close |-> h[History!Max(S)].price, high |-> hi, low |-> lo, volume |-> vol]
          /\ v = h[n].volume
        BY <2>1 DEF n
    <2> HIDE DEF c, v
    <2> QED BY <2>2, <2>3
<1>18. vol + more = IF t.volume >= h[n].volume THEN vol + (t.volume - h[n].volume) ELSE vol
    BY <1>10
<1> QED BY <1>12, <1>13, <1>15, <1>16, <1>17, <1>18 DEF g, hi, lo

-----------------------------------------------------------------------------
(***************************************************************************)
(* The stores, and the completed candles among the intervals that ended.   *)
(***************************************************************************)
\* Trim leaves a sequence of at most the size, and drops the oldest one of a
\* sequence that is one too long.
LEMMA TrimIs ==
    ASSUME NEW S, NEW s \in Seq(S), Len(s) <= MaxKeep + 1
    PROVE  /\ History!Trim(s) \in Seq(S) /\ Len(History!Trim(s)) <= MaxKeep
           /\ Len(s) <= MaxKeep => History!Trim(s) = s
           /\ Len(s) = MaxKeep + 1 => /\ Len(History!Trim(s)) = MaxKeep
                                      /\ \A i \in 1..MaxKeep : History!Trim(s)[i] = s[i + 1]
<1>1. MaxKeep \in Nat /\ Len(s) \in Nat
    BY HistoryAssumption
<1>2. CASE Len(s) <= MaxKeep
    BY <1>1, <1>2 DEF History!Trim
<1>3. CASE Len(s) = MaxKeep + 1
    <2>1. History!Trim(s) = SubSeq(s, 2, MaxKeep + 1)
        BY <1>1, <1>3 DEF History!Trim
    <2> QED BY <1>1, <1>3, <2>1
<1> QED BY <1>1, <1>2, <1>3

\* The intervals with readings are one more, or the same ones.
LEMMA BucketsGrow ==
    ASSUME NEW h \in Seq(History!Tick), NEW t \in History!Tick
    PROVE  History!Buckets(Append(h, t)) = History!Buckets(h) \cup {t.bucket}
BY Appended DEF History!Buckets

\* The interval of the last reading is the latest: the clock does not go back.
LEMMA LatestIs ==
    ASSUME NEW h \in Seq(History!Tick), h # <<>>, Ordered(h)
    PROVE  /\ History!Max(History!Buckets(h)) = h[Len(h)].bucket
           /\ h[Len(h)].bucket \in History!Buckets(h)
           /\ \A b \in History!Buckets(h) : b <= h[Len(h)].bucket
           /\ History!Buckets(h) \subseteq Nat
<1>1. Len(h) \in 1..Len(h)
    OBVIOUS
<1>2. \A i \in 1..Len(h) : h[i] \in History!Tick
    OBVIOUS
<1>3. \A i \in 1..Len(h) : h[i].bucket \in Nat
    BY <1>2, TickTyped
<1>4. /\ h[Len(h)].bucket \in History!Buckets(h)
      /\ \A b \in History!Buckets(h) : b <= h[Len(h)].bucket
      /\ History!Buckets(h) \subseteq Nat
    BY <1>1, <1>3 DEF History!Buckets, Ordered
<1> DEFINE B == History!Buckets(h)
           m == h[Len(h)].bucket
<1>5. B \subseteq Int /\ m \in B /\ \A b \in B : m >= b
    BY <1>3, <1>1, <1>4
<1> HIDE DEF B, m
<1>6. History!Max(B) = m
    BY <1>5, GreatestIs
<1> QED BY <1>4, <1>6 DEF B, m

\* A reading of another interval leaves the completed candles as they are.
LEMMA NewestKept ==
    ASSUME NEW h \in Seq(History!Tick), NEW t \in History!Tick, NEW d,
           NEW E, E \subseteq History!Buckets(h), t.bucket \notin E,
           History!NewestOf(d, h, E)
    PROVE  History!NewestOf(d, Append(h, t), E)
<1>1. \A b \in E : History!CandleOf(Append(h, t), b) = History!CandleOf(h, b)
    <2>1. \A b \in E : b # t.bucket /\ History!Of(h, b) # {}
        BY DEF History!Of, History!Buckets
    <2> QED BY <2>1, CandleKept
<1>2. \A i \in 1..Len(d) : d[i].bucket \in E
    BY DEF History!NewestOf
<1> QED BY <1>1, <1>2 DEF History!NewestOf

\* The candle of the interval that ends joins the completed ones; the oldest
\* goes if they would be too many.
LEMMA NewestGrows ==
    ASSUME NEW h, NEW d \in Seq(History!Candle), Len(d) <= MaxKeep,
           NEW E, NEW c \in History!Candle, c = History!CandleOf(h, c.bucket),
           E \subseteq Nat, \A e \in E : e < c.bucket,
           History!NewestOf(d, h, E)
    PROVE  /\ History!NewestOf(History!Trim(Append(d, c)), h, E \cup {c.bucket})
           /\ History!Trim(Append(d, c)) \in Seq(History!Candle)
           /\ Len(History!Trim(Append(d, c))) <= MaxKeep
<1> DEFINE y == Append(d, c)
           z == History!Trim(y)
           n == Len(d)
           F == E \cup {c.bucket}
           kept == {d[i].bucket : i \in 1..n}
           keptZ == {z[i].bucket : i \in 1..Len(z)}
<1>1. /\ y \in Seq(History!Candle) /\ n \in Nat /\ Len(y) = n + 1 /\ y[n + 1] = c
      /\ \A i \in 1..n : y[i] = d[i]
      /\ MaxKeep \in Nat /\ n <= MaxKeep /\ Len(y) <= MaxKeep + 1
    BY HistoryAssumption
<1>2. /\ z \in Seq(History!Candle) /\ Len(z) <= MaxKeep
      /\ Len(y) <= MaxKeep => z = y
      /\ Len(y) = MaxKeep + 1 => /\ Len(z) = MaxKeep
                                 /\ \A i \in 1..MaxKeep : z[i] = y[i + 1]
    <2> HIDE DEF y
    <2> QED BY <1>1, TrimIs
<1>3. /\ kept \subseteq E
      /\ \A i \in 1..n : d[i] = History!CandleOf(h, d[i].bucket)
      /\ \A i, j \in 1..n : i < j => d[i].bucket < d[j].bucket
      /\ \A e \in E \ kept : n = MaxKeep /\ \A k \in kept : e < k
    BY DEF History!NewestOf
<1>4. \A i \in 1..n : d[i].bucket \in E /\ d[i].bucket \in Nat
    BY <1>3
<1>5. c.bucket \in Nat
    BY DEF History!Candle
<1> HIDE DEF y, z, n
<1>6. \A i \in 1..(n + 1) : y[i].bucket \in F /\ y[i] = History!CandleOf(h, y[i].bucket)
    <2>1. \A i \in 1..(n + 1) : i = n + 1 \/ i \in 1..n
        BY <1>1
    <2> QED BY <1>1, <1>3, <1>4, <2>1
<1>7. \A i, j \in 1..(n + 1) : i < j => y[i].bucket < y[j].bucket
    <2> SUFFICES ASSUME NEW i \in 1..(n + 1), NEW j \in 1..(n + 1), i < j
                 PROVE  y[i].bucket < y[j].bucket
        OBVIOUS
    <2>1. i \in 1..n /\ y[i] = d[i]
        BY <1>1
    <2>2. CASE j = n + 1
        BY <1>1, <1>4, <2>1, <2>2
    <2>3. CASE j # n + 1
        <3>1. j \in 1..n /\ y[j] = d[j]
            BY <1>1, <2>3
        <3> QED BY <1>3, <2>1, <3>1
    <2> QED BY <2>2, <2>3
<1>8. CASE n < MaxKeep
    <2>1. z = y /\ Len(z) = n + 1
        BY <1>1, <1>2, <1>8
    <2>2. keptZ = kept \cup {c.bucket}
        <3>1. 1..(n + 1) = (1..n) \cup {n + 1}
            BY <1>1
        <3> QED BY <1>1, <2>1, <3>1
    <2>3. E \subseteq kept
        BY <1>1, <1>3, <1>8
    <2>4. F \ keptZ = {} /\ keptZ \subseteq F
        BY <1>3, <2>2, <2>3
    <2>5. History!NewestOf(z, h, F)
        BY <1>6, <1>7, <2>1, <2>4 DEF History!NewestOf
    <2> QED BY <1>2, <2>5 DEF z, y
<1>9. CASE n = MaxKeep
    <2>1. Len(z) = n /\ \A i \in 1..n : z[i] = y[i + 1] /\ i + 1 \in 1..(n + 1)
        BY <1>1, <1>2, <1>9
    <2>2. keptZ \subseteq F
        BY <1>6, <2>1
    <2>3. \A i \in 1..Len(z) : z[i] = History!CandleOf(h, z[i].bucket)
        BY <1>6, <2>1
    <2>4. \A i, j \in 1..Len(z) : i < j => z[i].bucket < z[j].bucket
        <3> SUFFICES ASSUME NEW i \in 1..n, NEW j \in 1..n, i < j
                     PROVE  z[i].bucket < z[j].bucket
            BY <2>1
        <3>1. i + 1 < j + 1
            BY <1>1
        <3> QED BY <1>7, <2>1, <3>1
    <2>5. ASSUME NEW e \in F \ keptZ, NEW i \in 1..n
          PROVE  e < z[i].bucket
        <3>1. z[i] = y[i + 1] /\ i + 1 \in 1..(n + 1) /\ 1 \in 1..(n + 1) /\ 1 < i + 1
            BY <1>1, <2>1
        <3>2. CASE e \in E \ kept
            <4>1. z[i].bucket \in kept \cup {c.bucket}
                <5>1. i + 1 = n + 1 \/ i + 1 \in 1..n
                    BY <1>1
                <5> QED BY <1>1, <3>1, <5>1
            <4> QED BY <1>3, <3>2, <4>1
        <3>3. CASE e \in kept
            <4>1. PICK k \in 1..n : e = d[k].bucket
                BY <3>3
            <4>2. CASE k = 1
                <5>1. e = y[1].bucket
                    BY <1>1, <4>1, <4>2
                <5> QED BY <1>7, <3>1, <5>1
            <4>3. CASE k # 1
                <5>1. k - 1 \in 1..n /\ (k - 1) + 1 = k
                    BY <1>1, <4>3
                <5>2. z[k - 1] = y[k] /\ y[k] = d[k]
                    BY <1>1, <2>1, <5>1
                <5>3. e \in keptZ
                    BY <2>1, <4>1, <5>1, <5>2
                <5> QED BY <2>5, <5>3
            <4> QED BY <4>2, <4>3
        <3>4. CASE e = c.bucket
            <4>1. n \in 1..n /\ z[n] = y[n + 1]
                BY <1>1, <2>1
            <4>2. e \in keptZ
                BY <1>1, <2>1, <3>4, <4>1
            <4> QED BY <2>5, <4>2
        <3> QED BY <2>5, <3>2, <3>3, <3>4
    <2>6. \A e \in F \ keptZ : Len(z) = MaxKeep /\ \A k \in keptZ : e < k
        BY <1>9, <2>1, <2>5
    <2>7. History!NewestOf(z, h, F)
        BY <2>2, <2>3, <2>4, <2>6 DEF History!NewestOf
    <2> QED BY <1>2, <2>7 DEF z, y
<1> QED BY <1>1, <1>8, <1>9

-----------------------------------------------------------------------------
(***************************************************************************)
(* The invariant.  CandlesMatchTicks says nothing of the order of the      *)
(* readings nor of the count the candle that is built was left at; the     *)
(* next candle depends on both.                                            *)
(***************************************************************************)
ReadingsOK == ticks \in Seq(History!Tick) /\ Ordered(ticks)

PointsOK ==
    points \in Seq([price : Levels, volume : 0..MaxVolume]) /\ Len(points) <= MaxKeep

\* b is what the reading h ends with has made of its interval.
BuiltFrom(b, h) ==
    /\ b \in [candle : History!Candle, lastCumVol : 0..MaxVolume]
    /\ b.candle = History!CandleOf(h, h[Len(h)].bucket)
    /\ b.lastCumVol = h[Len(h)].volume

Ended(h) == History!Buckets(h) \ {h[Len(h)].bucket}

DoneOK == done \in Seq(History!Candle) /\ Len(done) <= MaxKeep

CandlesOK ==
    IF ticks = <<>> THEN building = <<>> /\ done = <<>>
    ELSE /\ \E b : building = <<b>> /\ BuiltFrom(b, ticks)
         /\ History!NewestOf(done, ticks, Ended(ticks))

HistoryInv == ReadingsOK /\ PointsOK /\ DoneOK /\ CandlesOK

\* A symbol without readings has nothing stored.
LEMMA InitHistory == History!Init => HistoryInv
<1> SUFFICES ASSUME History!Init PROVE HistoryInv
    OBVIOUS
<1>1. ticks = <<>> /\ points = <<>> /\ done = <<>> /\ building = <<>>
    BY DEF History!Init
<1>2. MaxKeep \in Nat
    BY HistoryAssumption
<1> QED BY <1>1, <1>2 DEF HistoryInv, ReadingsOK, PointsOK, DoneOK, CandlesOK, Ordered

\* A reading's candle has the types of one.
LEMMA BuildTyped ==
    ASSUME NEW t \in History!Tick
    PROVE  /\ History!NewCandle(t) \in [candle : History!Candle, lastCumVol : 0..MaxVolume]
           /\ History!NewCandle(t).candle.bucket = t.bucket
           /\ History!NewCandle(t).lastCumVol = t.volume
           /\ \A b \in [candle : History!Candle, lastCumVol : 0..MaxVolume] :
                 /\ History!Extend(b, t) \in [candle : History!Candle, lastCumVol : 0..MaxVolume]
                 /\ History!Extend(b, t).lastCumVol = t.volume
<1>1. /\ t.bucket \in Nat /\ t.price \in Levels /\ t.volume \in 0..MaxVolume
      /\ \A v \in 0..MaxVolume : v \in Int
    BY DEF History!Tick
<1>2. /\ History!NewCandle(t) \in [candle : History!Candle, lastCumVol : 0..MaxVolume]
      /\ History!NewCandle(t).candle.bucket = t.bucket
      /\ History!NewCandle(t).lastCumVol = t.volume
    BY <1>1 DEF History!NewCandle, History!Candle
<1>3. ASSUME NEW b \in [candle : History!Candle, lastCumVol : 0..MaxVolume]
      PROVE  /\ History!Extend(b, t) \in [candle : History!Candle, lastCumVol : 0..MaxVolume]
             /\ History!Extend(b, t).lastCumVol = t.volume
    <2>1. b.candle \in History!Candle /\ b.lastCumVol \in Int
        BY <1>1
    <2>2. b.candle.volume \in Int
        BY <2>1 DEF History!Candle
    <2>3. b.candle.volume + (t.volume - b.lastCumVol) \in Int
        BY <1>1, <2>1, <2>2
    <2>4. History!Extend(b, t).candle \in History!Candle
        BY <1>1, <2>1, <2>3 DEF History!Extend, History!Candle
    <2> QED BY <1>1, <2>4 DEF History!Extend
<1> QED BY <1>2, <1>3

\* A reading whose interval is not before the last one's keeps the order.
LEMMA OrderKept ==
    ASSUME NEW h \in Seq(History!Tick), Ordered(h), NEW t \in History!Tick,
           h # <<>> => h[Len(h)].bucket <= t.bucket
    PROVE  Ordered(Append(h, t))
<1> DEFINE g == Append(h, t)
           n == Len(h)
<1>1. /\ n \in Nat /\ Len(g) = n + 1 /\ g[n + 1] = t
      /\ \A i \in 1..n : g[i] = h[i]
    BY Appended
<1>2. \A i \in 1..n : h[i].bucket \in Nat /\ h[i].bucket <= t.bucket
    <2> SUFFICES ASSUME NEW i \in 1..n PROVE h[i].bucket \in Nat /\ h[i].bucket <= t.bucket
        OBVIOUS
    <2>1. h # <<>> /\ n \in 1..n /\ i <= n
        BY <1>1
    <2>2. h[i].bucket <= h[n].bucket
        BY <2>1 DEF Ordered
    <2>3. h[i].bucket \in Nat /\ h[n].bucket \in Nat /\ t.bucket \in Nat
        BY <2>1, TickTyped
    <2> HIDE DEF n
    <2> QED BY <2>1, <2>2, <2>3 DEF n
<1>3. t.bucket \in Nat
    BY TickTyped
<1> SUFFICES ASSUME NEW i \in 1..(n + 1), NEW j \in 1..(n + 1), i <= j
             PROVE  g[i].bucket <= g[j].bucket
    BY <1>1 DEF Ordered
<1> HIDE DEF g
<1>4. CASE j \in 1..n
    <2>1. i \in 1..n
        BY <1>1, <1>4
    <2> QED BY <1>1, <1>4, <2>1 DEF Ordered
<1>5. CASE j = n + 1 /\ i \in 1..n
    BY <1>1, <1>2, <1>5
<1>6. CASE j = n + 1 /\ i = n + 1
    BY <1>1, <1>3, <1>6
<1> QED BY <1>1, <1>4, <1>5, <1>6

\* A reading that is stored keeps the invariant.
LEMMA AddKeeps ==
    ASSUME HistoryInv, NEW t \in History!Tick,
           ticks # <<>> => ticks[Len(ticks)].bucket <= t.bucket,
           History!Add(t)
    PROVE  HistoryInv'
<1> DEFINE Point == [price : Levels, volume : 0..MaxVolume]
<1>1. PICK h : h = ticks
    OBVIOUS
<1>2. h \in Seq(History!Tick) /\ Ordered(h) /\ (h # <<>> => h[Len(h)].bucket <= t.bucket)
    BY <1>1 DEF HistoryInv, ReadingsOK
<1> DEFINE g == Append(h, t)
<1>3. /\ ticks' = g /\ g \in Seq(History!Tick) /\ g # <<>> /\ Ordered(g) /\ g[Len(g)] = t
    BY <1>1, <1>2, Appended, OrderKept DEF History!Add
<1>4. ReadingsOK'
    BY <1>3 DEF ReadingsOK
<1>5. PointsOK'
    <2> DEFINE p == [price |-> t.price, volume |-> t.volume]
    <2>1. p \in Point
        BY TickTyped
    <2>2. points \in Seq(Point) /\ Len(points) <= MaxKeep /\ MaxKeep \in Nat
        BY HistoryAssumption DEF HistoryInv, PointsOK
    <2>3. points' = History!Trim(Append(points, p))
        BY DEF History!Add
    <2> HIDE DEF p, Point
    <2>4. Append(points, p) \in Seq(Point) /\ Len(Append(points, p)) <= MaxKeep + 1
        BY <2>1, <2>2
    <2>5. points' \in Seq(Point) /\ Len(points') <= MaxKeep
        BY <2>3, <2>4, TrimIs
    <2> QED BY <2>5 DEF PointsOK, Point
<1>6. DoneOK /\ CandlesOK
    BY DEF HistoryInv
<1> HIDE DEF g
<1>7. CASE h = <<>>
    <2>1. building = <<>> /\ done = <<>>
        BY <1>1, <1>6, <1>7 DEF CandlesOK
    <2>2. building' = <<History!NewCandle(t)>> /\ done' = done
        BY <2>1 DEF History!Add
    <2>3. History!Of(h, t.bucket) = {} /\ History!Buckets(h) = {}
        BY <1>7 DEF History!Of, History!Buckets
    <2>4. BuiltFrom(History!NewCandle(t), g)
        BY <1>2, <1>3, <2>3, CandleStarts, BuildTyped DEF BuiltFrom, g
    <2>5. Ended(g) = {}
        BY <1>2, <1>3, <2>3, BucketsGrow DEF Ended, g
    <2>6. History!NewestOf(done, g, {})
        BY <2>1 DEF History!NewestOf
    <2>7. CandlesOK'
        BY <1>3, <2>2, <2>4, <2>5, <2>6 DEF CandlesOK
    <2>8. DoneOK'
        BY <1>6, <2>2 DEF DoneOK
    <2> QED BY <1>4, <1>5, <2>7, <2>8 DEF HistoryInv
<1>8. CASE h # <<>>
    <2> DEFINE last == h[Len(h)]
    <2>1. PICK b : building = <<b>> /\ BuiltFrom(b, h)
        BY <1>1, <1>6, <1>8 DEF CandlesOK
    <2>2. History!NewestOf(done, h, Ended(h))
        BY <1>1, <1>6, <1>8 DEF CandlesOK
    <2>3. /\ last.bucket \in History!Buckets(h) /\ History!Buckets(h) \subseteq Nat
          /\ \A c \in History!Buckets(h) : c <= last.bucket
        BY <1>2, <1>8, LatestIs
    <2>4. /\ building # <<>> /\ building[1] = b
          /\ b \in [candle : History!Candle, lastCumVol : 0..MaxVolume]
          /\ b.candle = History!CandleOf(h, last.bucket)
          /\ b.lastCumVol = last.volume
        BY <2>1 DEF BuiltFrom
    <2>5. b.candle.bucket = last.bucket
        BY <2>4 DEF History!CandleOf
    <2>6. History!Buckets(g) = History!Buckets(h) \cup {t.bucket}
        BY <1>2, BucketsGrow DEF g
    <2>7. t.bucket \in Nat /\ last.bucket <= t.bucket
        BY <1>2, <1>8, TickTyped
    <2> HIDE DEF last
    <2>8. CASE last.bucket = t.bucket
        <3>1. building' = <<History!Extend(b, t)>> /\ done' = done
            BY <2>4, <2>5, <2>8 DEF History!Add
        <3>2. BuiltFrom(History!Extend(b, t), g)
            <4>1. History!CandleOf(g, t.bucket) = History!Extend(b, t).candle
                BY <1>2, <1>8, <2>4, <2>8, CandleGrows DEF g, last
            <4> QED BY <1>3, <2>4, <4>1, BuildTyped DEF BuiltFrom
        <3>3. /\ Ended(g) = Ended(h) /\ t.bucket \notin Ended(h)
              /\ Ended(h) \subseteq History!Buckets(h)
            BY <1>3, <2>3, <2>6, <2>8 DEF Ended, last
        <3>4. History!NewestOf(done, g, Ended(g))
            BY <1>2, <2>2, <3>3, NewestKept DEF g
        <3>5. CandlesOK'
            BY <1>3, <3>1, <3>2, <3>4 DEF CandlesOK
        <3>6. DoneOK'
            BY <1>6, <3>1 DEF DoneOK
        <3> QED BY <1>4, <1>5, <3>5, <3>6 DEF HistoryInv
    <2>9. CASE last.bucket # t.bucket
        <3> DEFINE c == b.candle
                   d == History!Trim(Append(done, c))
        <3>1. building' = <<History!NewCandle(t)>> /\ done' = d
            BY <2>4, <2>5, <2>9 DEF History!Add
        <3>2. last.bucket < t.bucket /\ t.bucket \notin History!Buckets(h)
            BY <2>3, <2>7, <2>9
        <3>3. History!Of(h, t.bucket) = {}
            BY <3>2 DEF History!Of, History!Buckets
        <3>4. BuiltFrom(History!NewCandle(t), g)
            BY <1>2, <1>3, <3>3, CandleStarts, BuildTyped DEF BuiltFrom, g
        <3>5. Ended(h) \subseteq Nat /\ \A e \in Ended(h) : e < last.bucket
            BY <2>3 DEF Ended, last
        <3>6. /\ c \in History!Candle /\ c = History!CandleOf(h, c.bucket)
              /\ \A e \in Ended(h) : e < c.bucket
            BY <2>4, <2>5, <3>5
        <3> HIDE DEF c
        <3>7. done \in Seq(History!Candle) /\ Len(done) <= MaxKeep
            BY <1>6 DEF DoneOK
        <3>8. /\ History!NewestOf(d, h, Ended(h) \cup {c.bucket})
              /\ d \in Seq(History!Candle) /\ Len(d) <= MaxKeep
            BY <2>2, <3>5, <3>6, <3>7, NewestGrows
        <3>9. Ended(g) = Ended(h) \cup {c.bucket}
            BY <1>3, <2>3, <2>5, <2>6, <3>2 DEF Ended, last, c
        <3>10. Ended(g) \subseteq History!Buckets(h) /\ t.bucket \notin Ended(g)
            BY <1>3, <2>6, <3>2 DEF Ended
        <3> HIDE DEF d
        <3>11. History!NewestOf(d, g, Ended(g))
            BY <1>2, <3>8, <3>9, <3>10, NewestKept DEF g
        <3>12. CandlesOK'
            BY <1>3, <3>1, <3>4, <3>11 DEF CandlesOK
        <3>13. DoneOK'
            BY <3>1, <3>8 DEF DoneOK
        <3> QED BY <1>4, <1>5, <3>12, <3>13 DEF HistoryInv
    <2> QED BY <2>8, <2>9
<1> QED BY <1>7, <1>8

\* Every step keeps the invariant.
LEMMA HistoryStep == HistoryInv /\ [History!Next]_candleVars => HistoryInv'
<1> SUFFICES ASSUME HistoryInv, [History!Next]_candleVars PROVE HistoryInv'
    OBVIOUS
<1>1. CASE History!Next
    <2>1. PICK skip \in 0..MaxSkip, p \in Levels, v \in 0..MaxVolume :
            History!Add([bucket |-> (IF ticks = <<>> THEN 0 ELSE ticks[Len(ticks)].bucket) + skip,
                         price |-> p, volume |-> v])
        BY <1>1 DEF History!Next
    <2> DEFINE base == IF ticks = <<>> THEN 0 ELSE ticks[Len(ticks)].bucket
               t == [bucket |-> base + skip, price |-> p, volume |-> v]
    <2>2. base \in Nat
        <3>1. CASE ticks = <<>>
            BY <3>1
        <3>2. CASE ticks # <<>>
            <4>1. ticks[Len(ticks)] \in History!Tick
                BY <3>2 DEF HistoryInv, ReadingsOK
            <4> QED BY <3>2, <4>1, TickTyped
        <3> QED BY <3>1, <3>2
    <2>3. skip \in Nat
        OBVIOUS
    <2>4. base + skip \in Nat /\ base <= base + skip
        <3> HIDE DEF base
        <3> QED BY <2>2, <2>3
    <2>5. t \in History!Tick
        BY <2>4 DEF History!Tick
    <2>6. ticks # <<>> => ticks[Len(ticks)].bucket <= t.bucket
        BY <2>4
    <2>7. History!Add(t)
        BY <2>1
    <2> HIDE DEF t
    <2> QED BY <2>5, <2>6, <2>7, AddKeeps
<1>2. CASE UNCHANGED candleVars
    <2>1. ticks' = ticks /\ points' = points /\ done' = done /\ building' = building
        BY <1>2 DEF candleVars
    <2> QED BY <2>1 DEF HistoryInv, ReadingsOK, PointsOK, DoneOK, CandlesOK
<1> QED BY <1>1, <1>2

\* What the invariant says of the property.
LEMMA InvMatches == HistoryInv => CandlesMatchTicks
<1> SUFFICES ASSUME HistoryInv, ticks # <<>> PROVE
        /\ building[1].candle = History!CandleOf(ticks, History!Max(History!Buckets(ticks)))
        /\ History!NewestOf(done, ticks,
                            History!Buckets(ticks) \ {History!Max(History!Buckets(ticks))})
    BY DEF CandlesMatchTicks, History!CandlesMatchTicks
<1>1. History!Max(History!Buckets(ticks)) = ticks[Len(ticks)].bucket
    BY LatestIs DEF HistoryInv, ReadingsOK
<1>2. building[1].candle = History!CandleOf(ticks, ticks[Len(ticks)].bucket)
    BY DEF HistoryInv, CandlesOK, BuiltFrom
<1>3. History!NewestOf(done, ticks, Ended(ticks))
    BY DEF HistoryInv, CandlesOK
<1> QED BY <1>1, <1>2, <1>3 DEF Ended

\* The history holds what it is said to hold: neither store outgrows its size.
THEOREM HistoryTyped == History!Spec => []History!TypeOK
<1>1. HistoryInv => History!TypeOK
    <2> SUFFICES ASSUME HistoryInv PROVE History!TypeOK
        OBVIOUS
    <2>1. ticks \in Seq(History!Tick) /\ PointsOK /\ DoneOK
        BY DEF HistoryInv, ReadingsOK
    <2>2. /\ building \in Seq([candle : History!Candle, lastCumVol : 0..MaxVolume])
          /\ Len(building) <= 1
        <3>1. CASE ticks = <<>>
            <4>1. building = <<>>
                BY <3>1 DEF HistoryInv, CandlesOK
            <4> QED BY <4>1
        <3>2. CASE ticks # <<>>
            <4>1. PICK b : building = <<b>> /\ BuiltFrom(b, ticks)
                BY <3>2 DEF HistoryInv, CandlesOK
            <4>2. b \in [candle : History!Candle, lastCumVol : 0..MaxVolume]
                BY <4>1 DEF BuiltFrom
            <4> QED BY <4>1, <4>2
        <3> QED BY <3>1, <3>2
    <2> QED BY <2>1, <2>2 DEF History!TypeOK, PointsOK, DoneOK
<1> QED BY <1>1, InitHistory, HistoryStep, PTL DEF History!Spec, candleVars, History!candleVars

\* The candles a strategy is given are those of the last completed intervals
\* with readings, each of exactly its readings (CandleAggregator.Add), for any
\* readings, gaps and counts, and any number of candles kept.
THEOREM CandlesAreTheReadings == History!Spec => []CandlesMatchTicks
BY InitHistory, HistoryStep, InvMatches, PTL DEF History!Spec, candleVars, History!candleVars
=============================================================================
