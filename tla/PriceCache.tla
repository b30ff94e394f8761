----------------------------- MODULE PriceCache -----------------------------
(***************************************************************************)
(* The price cache of AngelBroker and the software stop that reads it.     *)
(* The batch poll that Subscribe starts, the ticks of the live feed and    *)
(* the fetch of a symbol never priced all write it, each stamping what it  *)
(* stores with the time it stores it.                                      *)
(*                                                                         *)
(* Time is counted in poll periods and kept as ages: a cached price has    *)
(* the age its stamp says and the real one, since Angel One quoted it.     *)
(* The poll and the tick loop keep their periods: time does not pass over  *)
(* a poll or a stop check that is due.                                     *)
(***************************************************************************)
EXTENDS Naturals

CONSTANTS
    Symbols,     \* contracts whose stops are checked
    Subscribed,  \* those main subscribed, to the poll and to the feed
    StaleAge,    \* RunnerConfig.StaleAge
    MaxTrip,     \* how long a quote can be on its way
    MaxLosses    \* bound: requests that fail and quotes without a price

VARIABLES
    quote,      \* marketPrices and priceUpdated by symbol
    poll,       \* the batch request of the poller
    fetch,      \* the tick loop's request for one symbol
    todo,       \* symbols whose stop this tick still has to check
    polled,     \* the poller has asked in this period
    decision,   \* how the last check of each symbol's stop came out
    losses      \* spent bound

priceVars == <<quote, poll, fetch, todo, polled, decision, losses>>

-----------------------------------------------------------------------------
OldStamp == StaleAge + 1
OldQuote == OldStamp + MaxTrip
Unpriced == [known |-> FALSE, stamped |-> 0, real |-> 0]
Fresh(real) == [known |-> TRUE, stamped |-> 0, real |-> real]

\* A request waits for Angel One, then carries a quote of some age.
NoRequest == [at |-> "idle", sym |-> "none", real |-> 0]
Trip == [at : {"idle", "out", "back"}, sym : Symbols \cup {"none"}, real : 0..MaxTrip]

Older(request) ==
    IF request.at = "back" THEN [request EXCEPT !.real = @ + 1] ELSE request
CanWait(request) == request.at = "back" => request.real < MaxTrip

Loss == losses < MaxLosses /\ losses' = losses + 1

Init ==
    /\ quote = [s \in Symbols |-> Unpriced]
    /\ poll = NoRequest
    /\ fetch = NoRequest
    /\ todo = {}
    /\ polled = FALSE
    /\ decision = [s \in Symbols |-> "none"]
    /\ losses = 0

-----------------------------------------------------------------------------
(***************************************************************************)
(* FetchMarketDataBatch, in the goroutine Subscribe starts.                *)
(***************************************************************************)
AskBatch ==
    /\ poll.at = "idle"
    /\ ~polled
    /\ poll' = [NoRequest EXCEPT !.at = "out"]
    /\ polled' = TRUE
    /\ UNCHANGED <<quote, fetch, todo, decision, losses>>

QuoteBatch ==
    /\ poll.at = "out"
    /\ poll' = [poll EXCEPT !.at = "back"]
    /\ UNCHANGED <<quote, fetch, todo, polled, decision, losses>>

\* Fault: a quote without a price stamps the cached one.
StoreBatchStamps ==
    /\ poll.at = "back"
    /\ poll' = NoRequest
    /\ \E priced \in SUBSET Subscribed :
          /\ IF priced = Subscribed THEN UNCHANGED losses ELSE Loss
          /\ quote' = [s \in Symbols |->
                 IF s \in priced THEN Fresh(poll.real)
                 ELSE IF s \in Subscribed THEN [quote[s] EXCEPT !.stamped = 0] ELSE quote[s]]
    /\ UNCHANGED <<fetch, todo, polled, decision>>

\* Fault: the batch stores prices without their time.
StoreBatchUnstamped ==
    /\ poll.at = "back"
    /\ poll' = NoRequest
    /\ \E priced \in SUBSET Subscribed :
          /\ IF priced = Subscribed THEN UNCHANGED losses ELSE Loss
          /\ quote' = [s \in Symbols |->
                 IF s \in priced THEN [quote[s] EXCEPT !.known = TRUE, !.real = poll.real]
                 ELSE quote[s]]
    /\ UNCHANGED <<fetch, todo, polled, decision>>

\* Only a positive price is stored and stamped.
StoreBatch ==
    /\ poll.at = "back"
    /\ poll' = NoRequest
    /\ \E priced \in SUBSET Subscribed :
          /\ IF priced = Subscribed THEN UNCHANGED losses ELSE Loss
          /\ quote' = [s \in Symbols |-> IF s \in priced THEN Fresh(poll.real) ELSE quote[s]]
    /\ UNCHANGED <<fetch, todo, polled, decision>>

BatchFails ==
    /\ poll.at = "out"
    /\ Loss
    /\ poll' = NoRequest
    /\ UNCHANGED <<quote, fetch, todo, polled, decision>>

\* applyTick: the feed's quote is as old as its way was long.
ApplyTick(s) ==
    /\ \E real \in 0..MaxTrip : quote' = [quote EXCEPT ![s] = Fresh(real)]
    /\ UNCHANGED <<poll, fetch, todo, polled, decision, losses>>

-----------------------------------------------------------------------------
(***************************************************************************)
(* softStopLossCheck, with priceWithAge and GetCurrentPriceWithAge: a      *)
(* cached price decides or is too old to, one never stored is fetched.     *)
(***************************************************************************)
CheckStop(s) ==
    /\ fetch.at = "idle"
    /\ quote[s].known
    /\ todo' = todo \ {s}
    /\ decision' = [decision EXCEPT ![s] =
                        IF quote[s].stamped > StaleAge THEN "skipped" ELSE "decided"]
    /\ UNCHANGED <<quote, poll, fetch, polled, losses>>

AskOne(s) ==
    /\ fetch.at = "idle"
    /\ ~quote[s].known
    /\ fetch' = [NoRequest EXCEPT !.at = "out", !.sym = s]
    /\ UNCHANGED <<quote, poll, todo, polled, decision, losses>>

QuoteOne ==
    /\ fetch.at = "out"
    /\ fetch' = [fetch EXCEPT !.at = "back"]
    /\ UNCHANGED <<quote, poll, todo, polled, decision, losses>>

StoreOne ==
    /\ fetch.at = "back"
    /\ quote' = [quote EXCEPT ![fetch.sym] = Fresh(fetch.real)]
    /\ decision' = [decision EXCEPT ![fetch.sym] = "decided"]
    /\ todo' = todo \ {fetch.sym}
    /\ fetch' = NoRequest
    /\ UNCHANGED <<poll, polled, losses>>

\* An error, or no positive price: ErrNoPrice.
NoPrice ==
    /\ fetch.at \in {"out", "back"}
    /\ Loss
    /\ decision' = [decision EXCEPT ![fetch.sym] = "skipped"]
    /\ todo' = todo \ {fetch.sym}
    /\ fetch' = NoRequest
    /\ UNCHANGED <<quote, poll, polled>>

-----------------------------------------------------------------------------
\* The tick loop starts another round once it has ended the last.
Clock ==
    /\ polled \/ poll.at # "idle"
    /\ todo = {} \/ fetch.at # "idle"
    /\ CanWait(poll) /\ CanWait(fetch)
    /\ quote' = [s \in Symbols |->
           [quote[s] EXCEPT !.stamped = IF quote[s].known /\ @ < OldStamp THEN @ + 1 ELSE @,
                            !.real = IF quote[s].known /\ @ < OldQuote THEN @ + 1 ELSE @]]
    /\ poll' = Older(poll)
    /\ fetch' = Older(fetch)
    /\ polled' = FALSE
    /\ todo' = IF todo = {} THEN Symbols ELSE todo
    /\ UNCHANGED <<decision, losses>>

Poller == AskBatch \/ QuoteBatch \/ StoreBatch \/ BatchFails
Looper == (\E s \in todo : CheckStop(s) \/ AskOne(s)) \/ QuoteOne \/ StoreOne \/ NoPrice

Next == Poller \/ Looper \/ Clock \/ \E s \in Subscribed : ApplyTick(s)

\* The two goroutines go on and time passes; the feed need not ever connect.
Spec ==
    /\ Init /\ [][Next]_priceVars
    /\ WF_priceVars(Poller) /\ WF_priceVars(Looper) /\ WF_priceVars(Clock)

-----------------------------------------------------------------------------
TypeOK ==
    /\ quote \in [Symbols -> [known : BOOLEAN, stamped : 0..OldStamp, real : 0..OldQuote]]
    /\ poll \in Trip
    /\ fetch \in Trip
    /\ todo \subseteq Symbols
    /\ polled \in BOOLEAN
    /\ decision \in [Symbols -> {"none", "skipped", "decided"}]
    /\ losses \in 0..MaxLosses

(***************************************************************************)
(* The stamp can be relied on: whichever writer came last, a cached price  *)
(* is older than its stamp says by no more than a quote's way, so no stop  *)
(* is decided on one that is older than StaleAge and that.                 *)
(***************************************************************************)
StampIsHonest ==
    \A s \in Symbols : quote[s].known => quote[s].real <= quote[s].stamped + MaxTrip

(***************************************************************************)
(* The software stop of a subscribed contract stays active: it is decided  *)
(* on again and again, even if the feed never connects.                    *)
(***************************************************************************)
SubscribedStopsDecide ==
    \A s \in Subscribed : []<>(decision[s] = "decided")

(***************************************************************************)
(* The software stop of every contract stays active.                       *)
(***************************************************************************)
StopsDecide ==
    \A s \in Symbols : []<>(decision[s] = "decided")
=============================================================================
