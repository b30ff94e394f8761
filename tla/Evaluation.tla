----------------------------- MODULE Evaluation -----------------------------
(***************************************************************************)
(* What a strategy is given at a tick and what becomes of its signal:      *)
(* evaluateSymbol of the runner with the strategies but NineTwenty, for    *)
(* one underlying.  Runner has any strategy signal at will; here they do   *)
(* as they are written, on a series whose length and kind depend on what   *)
(* is held.                                                                *)
(*                                                                         *)
(* Of a series only the length is kept, and of the market what the         *)
(* strategies' rules ask of it.  Each cuts the RSI in bands of its own.    *)
(***************************************************************************)
EXTENDS Naturals

CONSTANTS
    HistorySize,    \* RunnerConfig.HistorySize
    MinDataPoints,  \* RunnerConfig.MinDataPoints
    Needs           \* how long a series each strategy needs to decide anything

VARIABLES
    strategy,       \* the one the runner was configured with
    readings,       \* length of the price history of the underlying
    bars,           \* completed candles of the runner
    own,            \* candles of SniperStrategy.agg, the one that is forming with them
    structure,      \* Runner.open of the underlying
    lastDirection,  \* RSIReversalStrategy.lastDirection of the underlying
    owed,    \* history: evaluations in a row that owed an exit and gave none
    forgot   \* history: the process ended since the structure was entered

evaluationVars == <<strategy, readings, bars, own, structure, lastDirection, owed, forgot>>

-----------------------------------------------------------------------------
Strategies == {"short_straddle", "iron_fly", "rsi_reversal", "sniper", "ema_crossover",
               "momentum"}
Directions == {"BUY", "SELL"}

\* premiums is the length of PremiumHistory, known that EntryPremium is.
Structure == [held : BOOLEAN, direction : Directions, multiLeg : BOOLEAN, known : BOOLEAN,
              premiums : 0..HistorySize]
Flat == [held |-> FALSE, direction |-> "BUY", multiLeg |-> FALSE, known |-> FALSE, premiums |-> 0]

Market == [rsi : {"oversold", "low", "middle", "high", "overbought"},
           price : {"below", "above"},    \* its average
           premium : {"below", "above"},  \* the stop, of all legs together
           setup : Directions \cup {"none"},
           closes : {"none", "runner", "sniper"}]  \* whose candle ends

Init ==
    /\ strategy \in Strategies
    /\ readings = 0
    /\ bars = 0
    /\ own = 0
    /\ structure = Flat
    /\ lastDirection = "none"
    /\ owed = 0
    /\ forgot = FALSE

Grow(n) == IF n < HistorySize THEN n + 1 ELSE n

-----------------------------------------------------------------------------
(***************************************************************************)
(* The strategies, once their series is long enough.  s is the structure.  *)
(***************************************************************************)
IronFly(s, m) ==
    IF s.held THEN IF m.rsi # "middle" THEN "EXIT" ELSE "HOLD"
    ELSE IF m.rsi = "middle" THEN "SELL" ELSE "HOLD"

PremiumStop(s, m) == s.held /\ s.known /\ m.premium = "above"

ShortStraddle(s, m) == IF PremiumStop(s, m) THEN "EXIT" ELSE IronFly(s, m)

\* A position of unknown direction is taken for a bought one.
Reverted(direction, m) ==
    IF direction = "SELL" THEN m.price = "below" \/ m.rsi \in {"oversold", "low"}
    ELSE m.price = "above" \/ m.rsi \in {"overbought", "high"}

Extreme(m) ==
    CASE m.rsi = "oversold" -> "BUY"
      [] m.rsi = "overbought" -> "SELL"
      [] OTHER -> "none"

Offered(direction) == IF direction = "none" THEN "HOLD" ELSE direction

RSIReversal(s, m) ==
    IF s.held THEN IF Reverted(lastDirection, m) THEN "EXIT" ELSE "HOLD"
    ELSE Offered(Extreme(m))

\* Fault: the direction is overwritten while a position is held.
RememberLatest(s, m) == Extreme(m)

Remember(s, m) == IF s.held THEN lastDirection ELSE Extreme(m)

\* A pattern in the trend, a crossing, a score: none looks at what is held.
Sniper(m) == Offered(m.setup)
EMACrossover(m) == Offered(m.setup)
Momentum(m) == Offered(m.setup)

\* The sniper feeds its own aggregator when the runner has no candle for it.  The
\* two cut at the same minutes, so one of its own can end first only where the
\* runner's is not fed: with legs restored after a restart, whose premiums it
\* takes, and at the first evaluation after them.
OwnEnds(s, m) ==
    /\ m.closes = "sniper"
    /\ own > 0
    /\ s.multiLeg \/ readings + 1 = MinDataPoints

\* The sniper's series is of candles, and with its own it decides when one ends.
Ready(series, candles, ended) ==
    CASE strategy # "sniper" -> series >= Needs[strategy]
      [] strategy = "sniper" /\ candles > 0 -> candles >= Needs[strategy]
      [] OTHER -> ended /\ own >= Needs[strategy]

Signal(s, m) ==
    CASE strategy = "short_straddle" -> ShortStraddle(s, m)
      [] strategy = "iron_fly" -> IronFly(s, m)
      [] strategy = "rsi_reversal" -> RSIReversal(s, m)
      [] strategy = "sniper" -> Sniper(m)
      [] strategy = "ema_crossover" -> EMACrossover(m)
      [] strategy = "momentum" -> Momentum(m)

-----------------------------------------------------------------------------
(***************************************************************************)
(* evaluateSymbol, for a symbol that has a price.                          *)
(***************************************************************************)
\* Legs, or a single contract in a direction.
Entered(direction) ==
    [held |-> TRUE, direction |-> direction, known |-> TRUE, premiums |-> 0,
     multiLeg |-> strategy \in {"short_straddle", "iron_fly"}]

\* An entry can be skipped or refused.
Enter(direction) == {Flat, Entered(direction)}

\* It can be forbidden, and an exit can fail.
After(s, signal) ==
    CASE signal = "EXIT" -> {s, Flat}
      [] signal \in Directions /\ ~s.held -> Enter(signal)
      [] OTHER -> {s}

\* What the position's own rules call for: the stop of a short straddle, and
\* the reversion that the position was entered for.
Due(s, m, series) ==
    \/ strategy = "short_straddle" /\ PremiumStop(s, m)
    \/ strategy = "rsi_reversal" /\ s.held /\ series >= Needs[strategy]
           /\ Reverted(s.direction, m)

\* With legs the series is their combined premium, and neither the price history
\* nor the candles go on.
Evaluate ==
    \E m \in Market :
        LET s == IF structure.multiLeg THEN [structure EXCEPT !.premiums = Grow(@)] ELSE structure
            prices == IF structure.multiLeg THEN readings ELSE Grow(readings)
            candles == IF m.closes = "runner" /\ ~structure.multiLeg THEN Grow(bars) ELSE bars
            series == IF structure.multiLeg THEN s.premiums ELSE prices
            asked == s.held \/ prices >= MinDataPoints
            ended == asked /\ candles = 0 /\ OwnEnds(s, m)
            decides == asked /\ Ready(series, candles, ended)
            signal == IF decides THEN Signal(s, m) ELSE "HOLD"
        IN  /\ readings' = prices
            /\ bars' = candles
            /\ own' = IF strategy = "sniper" /\ asked /\ candles = 0 /\ (own = 0 \/ ended)
                      THEN Grow(own) ELSE own
            /\ structure' \in After(s, signal)
            /\ lastDirection' = IF strategy = "rsi_reversal" /\ decides THEN Remember(s, m)
                                ELSE lastDirection
            /\ owed' = IF Due(s, m, series) /\ signal # "EXIT" THEN Grow(owed) ELSE 0
            /\ forgot' = (forgot /\ structure'.held)
            /\ UNCHANGED strategy

\* The soft stop, the square-off, a kill or a stop order ends it.
ClosedElsewhere ==
    /\ structure.held
    /\ structure' = Flat
    /\ owed' = 0
    /\ forgot' = FALSE
    /\ UNCHANGED <<strategy, readings, bars, own, lastDirection>>

\* The process ends and RestoreState takes the structure over: as one of legs
\* whatever it was, perhaps without its entry premium, which is a record of its
\* own.  The series and the direction are gone.
Restart ==
    /\ readings' = 0
    /\ bars' = 0
    /\ own' = 0
    /\ lastDirection' = "none"
    /\ structure' \in IF ~structure.held THEN {Flat}
                      ELSE {[structure EXCEPT !.multiLeg = TRUE, !.premiums = 0, !.known = k] :
                               k \in {structure.known, FALSE}}
    /\ owed' = 0
    /\ forgot' = structure.held
    /\ UNCHANGED strategy

Next == Evaluate \/ ClosedElsewhere \/ Restart

Spec == Init /\ [][Next]_evaluationVars

-----------------------------------------------------------------------------
TypeOK ==
    /\ strategy \in Strategies
    /\ readings \in 0..HistorySize
    /\ bars \in 0..HistorySize
    /\ own \in 0..HistorySize
    /\ structure \in Structure
    /\ lastDirection \in Directions \cup {"none"}
    /\ owed \in 0..HistorySize
    /\ forgot \in BOOLEAN

(***************************************************************************)
(* A position is left when its own rules say so.  A short straddle whose   *)
(* premium stands above its stop is exited before as many evaluations pass *)
(* as the RSI needs readings, which the series of premiums does not have   *)
(* right after an entry or a restart; and a reversal position is left at   *)
(* the reversion it was entered for, not at the opposite one.  Exception:  *)
(* a restart forgets the direction, and a short is then left as a long is. *)
(***************************************************************************)
ExitsAreTimely ==
    ~(forgot /\ strategy = "rsi_reversal" /\ structure.direction = "SELL")
        => owed < Needs[strategy]
=============================================================================
