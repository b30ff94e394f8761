--------------------------- MODULE ServicesProofs ---------------------------
(***************************************************************************)
(* Proofs about the smaller components of Services, one after the other:   *)
(* the price cache, the live feed, the watchdog, the strategies that       *)
(* Evaluation has, the control server, the backtest, the paper account.    *)
(* At the end the types of all the components are put together.            *)
(***************************************************************************)
EXTENDS AngelSessionProofs, AngelBrokerProofs, CandlesProofs

-----------------------------------------------------------------------------
(***************************************************************************)
(* Proofs about PriceCache, for any number of contracts, any age a price   *)
(* may have and any time a quote may take.  StampIsHonest is inductive     *)
(* once the quotes on their way are known to be no older than MaxTrip,     *)
(* which is their type, kept because time does not pass one by.            *)
(***************************************************************************)
QuoteType == [known : BOOLEAN, stamped : 0..Price!OldStamp, real : 0..Price!OldQuote]
Honest(q) == q.known => q.real <= q.stamped + MaxTrip

\* What TypeOK says of the cache and of the requests, and StampIsHonest.
CacheOK == quote \in [Symbols -> QuoteType] /\ \A s \in Symbols : Honest(quote[s])
TripsOK == poll \in Price!Trip /\ fetch \in Price!Trip
RoundOK ==
    /\ todo \subseteq Symbols
    /\ polled \in BOOLEAN
    /\ decision \in [Symbols -> {"none", "skipped", "decided"}]
    /\ losses \in 0..MaxLosses

PriceIInv == CacheOK /\ TripsOK /\ RoundOK

-----------------------------------------------------------------------------
\* A request that is not on its way is one.
LEMMA NoTrip == Price!NoRequest \in Price!Trip
  BY PriceAssumption DEF Price!NoRequest, Price!Trip

\* What has just been stored is as old as its way was long.
LEMMA FreshHonest ==
    ASSUME NEW real \in 0..MaxTrip
    PROVE  Price!Fresh(real) \in QuoteType /\ Honest(Price!Fresh(real))
  BY PriceAssumption DEF Price!Fresh, QuoteType, Honest, Price!OldStamp, Price!OldQuote

\* A quote grows older as its stamp does.
LEMMA OlderHonest ==
    ASSUME NEW q \in QuoteType, Honest(q),
           NEW r, r = [q EXCEPT !.stamped = IF q.known /\ @ < Price!OldStamp THEN @ + 1 ELSE @,
                                !.real = IF q.known /\ @ < Price!OldQuote THEN @ + 1 ELSE @]
    PROVE  r \in QuoteType /\ Honest(r)
  <1>1. /\ Price!OldStamp \in Nat /\ Price!OldQuote \in Nat
        /\ Price!OldQuote = Price!OldStamp + MaxTrip
        /\ MaxTrip \in Nat
    BY PriceAssumption DEF Price!OldStamp, Price!OldQuote
  <1>2. /\ r.known = q.known
        /\ r.stamped = IF q.known /\ q.stamped < Price!OldStamp THEN q.stamped + 1 ELSE q.stamped
        /\ r.real = IF q.known /\ q.real < Price!OldQuote THEN q.real + 1 ELSE q.real
        /\ r = [known |-> r.known, stamped |-> r.stamped, real |-> r.real]
    BY DEF QuoteType
  <1>3. q.stamped \in 0..Price!OldStamp /\ q.real \in 0..Price!OldQuote /\ q.known \in BOOLEAN
    BY DEF QuoteType
  <1>4. r.stamped \in 0..Price!OldStamp /\ r.real \in 0..Price!OldQuote
    BY <1>1, <1>2, <1>3
  <1>5. r \in QuoteType
    BY <1>2, <1>3, <1>4 DEF QuoteType
  <1>6. ASSUME q.known PROVE r.real <= r.stamped + MaxTrip
    <2>1. q.real <= q.stamped + MaxTrip
      BY <1>6 DEF Honest
    <2>2. CASE q.stamped < Price!OldStamp
      BY <1>1, <1>2, <1>3, <1>6, <2>1, <2>2
    <2>3. CASE q.stamped = Price!OldStamp
      BY <1>1, <1>2, <1>3, <1>4, <2>3
    <2> QED
      BY <1>1, <1>3, <2>2, <2>3
  <1> QED
    BY <1>2, <1>5, <1>6 DEF Honest

\* A quote on its way grows older, but not over MaxTrip.
LEMMA OlderTrip ==
    ASSUME NEW trip \in Price!Trip, Price!CanWait(trip)
    PROVE  Price!Older(trip) \in Price!Trip
  <1>1. CASE trip.at = "back"
    <2>1. trip.real + 1 \in 0..MaxTrip
      BY <1>1, PriceAssumption DEF Price!CanWait, Price!Trip
    <2>2. [trip EXCEPT !.real = @ + 1] \in Price!Trip
      BY <2>1 DEF Price!Trip
    <2> QED
      BY <1>1, <2>2 DEF Price!Older
  <1>2. CASE trip.at # "back"
    BY <1>2 DEF Price!Older
  <1> QED
    BY <1>1, <1>2

-----------------------------------------------------------------------------
\* The initial states satisfy the invariant.
LEMMA PriceInit == Price!Init => PriceIInv
  <1> SUFFICES ASSUME Price!Init PROVE PriceIInv
    OBVIOUS
  <1>1. Price!Unpriced \in QuoteType /\ Honest(Price!Unpriced)
    BY PriceAssumption DEF Price!Unpriced, QuoteType, Honest, Price!OldStamp, Price!OldQuote
  <1>2. CacheOK
    BY <1>1 DEF CacheOK, Price!Init
  <1>3. TripsOK
    BY NoTrip DEF TripsOK, Price!Init
  <1>4. RoundOK
    <2>1. polled \in BOOLEAN /\ todo \subseteq Symbols
      BY DEF Price!Init
    <2>2. losses \in 0..MaxLosses
      BY PriceAssumption DEF Price!Init
    <2>3. decision \in [Symbols -> {"none", "skipped", "decided"}]
      BY DEF Price!Init
    <2> QED
      BY <2>1, <2>2, <2>3 DEF RoundOK
  <1> QED
    BY <1>2, <1>3, <1>4 DEF PriceIInv

\* The batch poll preserves the invariant.
LEMMA PollerIInv ==
    ASSUME PriceIInv, Price!Poller
    PROVE  PriceIInv'
  <1>1. TripsOK' /\ RoundOK'
    <2>1. CASE Price!AskBatch
      <3>1. poll' \in Price!Trip
        BY <2>1, PriceAssumption DEF Price!AskBatch, Price!NoRequest, Price!Trip
      <3>2. polled' \in BOOLEAN
        BY <2>1 DEF Price!AskBatch
      <3> QED
        BY <2>1, <3>1, <3>2 DEF Price!AskBatch, PriceIInv, TripsOK, RoundOK
    <2>2. CASE Price!QuoteBatch
      <3>1. [poll EXCEPT !.at = "back"] \in Price!Trip
        BY DEF PriceIInv, TripsOK, Price!Trip
      <3> QED
        BY <2>2, <3>1 DEF Price!QuoteBatch, PriceIInv, TripsOK, RoundOK
    <2>3. CASE Price!StoreBatch \/ Price!BatchFails
      <3>1. /\ poll' = Price!NoRequest /\ fetch' = fetch /\ todo' = todo /\ polled' = polled
            /\ decision' = decision
        BY <2>3 DEF Price!StoreBatch, Price!BatchFails
      <3>2. losses' = losses \/ (losses < MaxLosses /\ losses' = losses + 1)
        BY <2>3 DEF Price!StoreBatch, Price!BatchFails, Price!Loss
      <3>3. losses' \in 0..MaxLosses
        BY <3>2, PriceAssumption DEF PriceIInv, RoundOK
      <3> QED
        BY <3>1, <3>3, NoTrip DEF PriceIInv, TripsOK, RoundOK
    <2> QED
      BY <2>1, <2>2, <2>3 DEF Price!Poller
  <1>2. CacheOK'
    <2>1. CASE Price!StoreBatch
      <3>1. PICK priced \in SUBSET Subscribed :
              quote' = [s \in Symbols |-> IF s \in priced THEN Price!Fresh(poll.real) ELSE quote[s]]
        BY <2>1 DEF Price!StoreBatch
      <3>2. Price!Fresh(poll.real) \in QuoteType /\ Honest(Price!Fresh(poll.real))
        BY FreshHonest DEF PriceIInv, TripsOK, Price!Trip
      <3> QED
        BY <3>1, <3>2 DEF PriceIInv, CacheOK
    <2>2. CASE Price!AskBatch \/ Price!QuoteBatch \/ Price!BatchFails
      <3>1. quote' = quote
        BY <2>2 DEF Price!AskBatch, Price!QuoteBatch, Price!BatchFails
      <3> QED
        BY <3>1 DEF PriceIInv, CacheOK
    <2> QED
      BY <2>1, <2>2 DEF Price!Poller
  <1> QED
    BY <1>1, <1>2 DEF PriceIInv

\* The feed's ticks preserve the invariant.
LEMMA ApplyTickIInv ==
    ASSUME PriceIInv, NEW t \in Symbols, Price!ApplyTick(t)
    PROVE  PriceIInv'
  <1>1. PICK real \in 0..MaxTrip : quote' = [quote EXCEPT ![t] = Price!Fresh(real)]
    BY DEF Price!ApplyTick
  <1>2. Price!Fresh(real) \in QuoteType /\ Honest(Price!Fresh(real))
    BY FreshHonest
  <1>3. CacheOK'
    BY <1>1, <1>2 DEF PriceIInv, CacheOK
  <1> QED
    BY <1>3 DEF Price!ApplyTick, PriceIInv, TripsOK, RoundOK

\* The tick loop's stop checks preserve the invariant.
LEMMA LooperIInv ==
    ASSUME PriceIInv, Price!Looper
    PROVE  PriceIInv'
  <1>1. CASE \E s \in todo : Price!CheckStop(s)
    <2>1. PICK s \in todo : Price!CheckStop(s)
      BY <1>1
    <2>2. CacheOK'
      BY <2>1 DEF Price!CheckStop, PriceIInv, CacheOK
    <2>3. /\ todo' = todo \ {s} /\ poll' = poll /\ fetch' = fetch /\ polled' = polled
          /\ losses' = losses
          /\ \E d \in {"skipped", "decided"} : decision' = [decision EXCEPT ![s] = d]
      BY <2>1 DEF Price!CheckStop
    <2>4. decision' \in [Symbols -> {"none", "skipped", "decided"}]
      BY <2>3 DEF PriceIInv, RoundOK
    <2> QED
      BY <2>2, <2>3, <2>4 DEF PriceIInv, TripsOK, RoundOK
  <1>2. CASE \E s \in todo : Price!AskOne(s)
    <2>1. PICK s \in todo : Price!AskOne(s)
      BY <1>2
    <2>2. s \in Symbols
      BY <2>1 DEF PriceIInv, RoundOK
    <2>3. [Price!NoRequest EXCEPT !.at = "out", !.sym = s] \in Price!Trip
      <3>1. ASSUME NEW trip \in Price!Trip
            PROVE  [trip EXCEPT !.at = "out", !.sym = s] \in Price!Trip
        BY <2>2 DEF Price!Trip
      <3> QED
        BY <3>1, NoTrip
    <2> QED
      BY <2>1, <2>3 DEF Price!AskOne, PriceIInv, CacheOK, TripsOK, RoundOK
  <1>3. CASE Price!QuoteOne
    <2>1. [fetch EXCEPT !.at = "back"] \in Price!Trip
      BY DEF PriceIInv, TripsOK, Price!Trip
    <2> QED
      BY <1>3, <2>1 DEF Price!QuoteOne, PriceIInv, CacheOK, TripsOK, RoundOK
  <1>4. CASE Price!StoreOne
    <2>1. Price!Fresh(fetch.real) \in QuoteType /\ Honest(Price!Fresh(fetch.real))
      BY FreshHonest DEF PriceIInv, TripsOK, Price!Trip
    <2>2. /\ quote' = [quote EXCEPT ![fetch.sym] = Price!Fresh(fetch.real)]
          /\ decision' = [decision EXCEPT ![fetch.sym] = "decided"]
          /\ todo' = todo \ {fetch.sym} /\ fetch' = Price!NoRequest
          /\ poll' = poll /\ polled' = polled /\ losses' = losses
      BY <1>4 DEF Price!StoreOne
    <2>3. CacheOK'
      BY <2>1, <2>2 DEF PriceIInv, CacheOK
    <2> QED
      BY <2>2, <2>3, NoTrip DEF PriceIInv, TripsOK, RoundOK
  <1>5. CASE Price!NoPrice
    <2>1. /\ decision' = [decision EXCEPT ![fetch.sym] = "skipped"]
          /\ todo' = todo \ {fetch.sym} /\ fetch' = Price!NoRequest
          /\ poll' = poll /\ polled' = polled /\ quote' = quote
          /\ losses < MaxLosses /\ losses' = losses + 1
      BY <1>5 DEF Price!NoPrice, Price!Loss
    <2>2. losses' \in 0..MaxLosses
      BY <2>1, PriceAssumption DEF PriceIInv, RoundOK
    <2> QED
      BY <2>1, <2>2, NoTrip DEF PriceIInv, CacheOK, TripsOK, RoundOK
  <1> QED
    BY <1>1, <1>2, <1>3, <1>4, <1>5 DEF Price!Looper

\* The passing of a poll period preserves the invariant.
LEMMA ClockIInv ==
    ASSUME PriceIInv, Price!Clock
    PROVE  PriceIInv'
  <1> DEFINE old(s) ==
        [quote[s] EXCEPT !.stamped = IF quote[s].known /\ @ < Price!OldStamp THEN @ + 1 ELSE @,
                         !.real = IF quote[s].known /\ @ < Price!OldQuote THEN @ + 1 ELSE @]
  <1>1. /\ quote' = [s \in Symbols |-> old(s)]
        /\ poll' = Price!Older(poll) /\ fetch' = Price!Older(fetch)
        /\ Price!CanWait(poll) /\ Price!CanWait(fetch)
        /\ polled' = FALSE
        /\ todo' = IF todo = {} THEN Symbols ELSE todo
        /\ decision' = decision /\ losses' = losses
    BY DEF Price!Clock
  <1>2. ASSUME NEW s \in Symbols PROVE old(s) \in QuoteType /\ Honest(old(s))
    <2>1. quote[s] \in QuoteType /\ Honest(quote[s])
      BY DEF PriceIInv, CacheOK
    <2> QED
      BY <2>1, OlderHonest
  <1> HIDE DEF old
  <1>3. CacheOK'
    BY <1>1, <1>2 DEF CacheOK
  <1>4. TripsOK'
    BY <1>1, OlderTrip DEF PriceIInv, TripsOK
  <1>5. RoundOK'
    BY <1>1 DEF PriceIInv, RoundOK
  <1> QED
    BY <1>3, <1>4, <1>5 DEF PriceIInv

\* Every step preserves the invariant.
LEMMA PriceNext == PriceIInv /\ [Price!Next]_(Price!priceVars) => PriceIInv'
  <1> SUFFICES ASSUME PriceIInv, [Price!Next]_(Price!priceVars) PROVE PriceIInv'
    OBVIOUS
  <1>1. CASE UNCHANGED Price!priceVars
    BY <1>1 DEF Price!priceVars, PriceIInv, CacheOK, TripsOK, RoundOK
  <1>2. CASE \E s \in Subscribed : Price!ApplyTick(s)
    BY <1>2, ApplyTickIInv, PriceAssumption
  <1> QED
    BY <1>1, <1>2, PollerIInv, LooperIInv, ClockIInv DEF Price!Next

-----------------------------------------------------------------------------
\* Type correctness: every variable keeps its type.
THEOREM PriceTyped == Price!Spec => []Price!TypeOK
  <1>1. Price!Init => PriceIInv
    BY PriceInit
  <1>2. PriceIInv /\ [Price!Next]_(Price!priceVars) => PriceIInv'
    BY PriceNext
  <1>3. PriceIInv => Price!TypeOK
    BY DEF PriceIInv, CacheOK, TripsOK, RoundOK, Price!TypeOK, QuoteType
  <1> QED
    BY <1>1, <1>2, <1>3, PTL DEF Price!Spec

\* Whichever of the batch poll, the feed and the single fetch stored a price
\* last, the age the software stop goes by is the price's own but for the time
\* a quote is on its way.
THEOREM StampHonest == Price!Spec => []StampIsHonest
  <1>1. Price!Init => PriceIInv
    BY PriceInit
  <1>2. PriceIInv /\ [Price!Next]_(Price!priceVars) => PriceIInv'
    BY PriceNext
  <1>3. PriceIInv => StampIsHonest
    BY DEF PriceIInv, CacheOK, Honest, StampIsHonest, Price!StampIsHonest
  <1> QED
    BY <1>1, <1>2, <1>3, PTL DEF Price!Spec

-----------------------------------------------------------------------------
(***************************************************************************)
(* Proofs about LiveFeed, for any symbols, channel size, number of calls   *)
(* and failures.                                                           *)
(*                                                                         *)
(* That everything sent has been written tells the queue is empty, not     *)
(* what it had in it.  While the connection is up, each desired symbol has *)
(* somebody who will still put it through: the feed's goroutine with the   *)
(* set it read, the channel, or main's call, which only writes to the      *)
(* channel if it read it after the set was (SymbolsOK).                    *)
(***************************************************************************)
Connected == {"joined", "writing", "serving", "tearing"}

Asks(frame, s) == frame.action = "subscribe" /\ s \in frame.syms
Drops(frame, s) == frame.action = "unsubscribe" /\ s \in frame.syms

\* Once q is written, a server that streams S streams s.
Promised(q, S, s) ==
    \/ s \in S /\ \A j \in 1..Len(q) : ~Drops(q[j], s)
    \/ \E i \in 1..Len(q) : Asks(q[i], s) /\ \A j \in (i + 1)..Len(q) : ~Drops(q[j], s)

\* Main's call will put s on the current channel.
Calling(s) ==
    /\ Asks(caller.frame, s)
    /\ caller.at \in {"added", "started"} \/ (caller.at = "sending" /\ caller.channel = "current")

LinkOK ==
    /\ published <=> feed \in Connected
    /\ socket = "none" <=> feed \notin Connected
    /\ feed \notin Connected => helpers = {}
    /\ feed \notin {"joined", "writing"} => snapshot = {}
    /\ caller.channel = "current" => published

SymbolsOK ==
    /\ socket = "up" =>
           \A s \in desired \ dropped :
               s \in snapshot \/ Promised(queue, streamed, s) \/ Calling(s)
    /\ \A s \in desired : caller.at = "sending" => ~Drops(caller.frame, s)
    /\ caller.at \in {"added", "started"} => caller.frame.action = "subscribe"

\* The closer ends once it has closed the connection, and stop() has cancelled
\* the feed it waits for.
ClosersOK ==
    /\ feed \in Connected => "closer" \in helpers \/ socket = "closed"
    /\ caller.at = "stopping" => cancelled \/ feed = "off"

FeedIInv == Feed!TypeOK /\ LinkOK /\ SymbolsOK /\ ClosersOK

(***************************************************************************)
(* While Close waits, somebody it waits for can always go on: nobody waits *)
(* for a goroutine that waits for it, nor for a server that is silent.     *)
(***************************************************************************)
CloseGoesOn ==
    caller.at = "stopping" =>
        \/ feed \in {"off", "ended", "joined", "writing"}
        \/ feed \in {"dial", "backoff"} /\ cancelled
        \/ feed = "serving" /\ (socket # "up" \/ ("closer" \in helpers /\ cancelled))
        \/ feed = "tearing" /\ (\/ helpers \cap {"writer", "heartbeat", "closer"} # {}
                                \/ helpers = {}
                                \/ socket = "closed")

-----------------------------------------------------------------------------
\* A frame is one of the frames, and the beat names no symbol.
LEMMA FrameTyped ==
    /\ Feed!Beat \in Feed!Frames
    /\ Feed!Idle \in Feed!Calls
    /\ \A action \in {"subscribe", "unsubscribe"}, S \in SUBSET Contracts :
           Feed!Frame(action, S) \in Feed!Frames
    /\ \A s : ~Drops(Feed!Beat, s)
  BY DEF Feed!Beat, Feed!Idle, Feed!Frame, Feed!Frames, Feed!Calls, Drops

\* A frame put behind a promise does not break it unless it drops the symbol.
LEMMA PromisedBehind ==
    ASSUME NEW q \in Seq(Feed!Frames), NEW S, NEW s, NEW f \in Feed!Frames,
           Promised(q, S, s), ~Drops(f, s)
    PROVE  Promised(Append(q, f), S, s)
  <1> DEFINE n == Append(q, f)
  <1>1. /\ Len(n) = Len(q) + 1 /\ Len(q) \in Nat
        /\ \A i \in 1..Len(q) : n[i] = q[i]
        /\ n[Len(q) + 1] = f
    OBVIOUS
  <1> HIDE DEF n
  <1>2. CASE s \in S /\ \A j \in 1..Len(q) : ~Drops(q[j], s)
    <2>1. ASSUME NEW j \in 1..Len(n) PROVE ~Drops(n[j], s)
      BY <1>1, <1>2
    <2> QED
      BY <1>2, <2>1 DEF Promised
  <1>3. ASSUME NEW i \in 1..Len(q), Asks(q[i], s), \A j \in (i + 1)..Len(q) : ~Drops(q[j], s)
        PROVE  Promised(n, S, s)
    <2>1. ASSUME NEW j \in (i + 1)..Len(n) PROVE ~Drops(n[j], s)
      BY <1>1, <1>3
    <2>2. i \in 1..Len(n) /\ Asks(n[i], s)
      BY <1>1, <1>3
    <2> QED
      BY <2>1, <2>2 DEF Promised
  <1> QED
    BY <1>2, <1>3 DEF Promised, n

\* A subscription put on the channel promises its symbols.
LEMMA PromisedLast ==
    ASSUME NEW q \in Seq(Feed!Frames), NEW S, NEW s, NEW f \in Feed!Frames, Asks(f, s)
    PROVE  Promised(Append(q, f), S, s)
  <1> DEFINE n == Append(q, f)
  <1>1. Len(n) = Len(q) + 1 /\ Len(q) \in Nat /\ n[Len(q) + 1] = f
    OBVIOUS
  <1> HIDE DEF n
  <1>2. Len(n) \in 1..Len(n) /\ Asks(n[Len(n)], s) /\ (Len(n) + 1)..Len(n) = {}
    BY <1>1
  <1> QED
    BY <1>2 DEF Promised, n

\* The writer keeps the promises as it writes to a server that hears it.
LEMMA PromisedWritten ==
    ASSUME NEW q \in Seq(Feed!Frames), q # <<>>, NEW S, NEW s, NEW T,
           Promised(q, S, s),
           Asks(Head(q), s) => s \in T,
           s \in S /\ ~Drops(Head(q), s) => s \in T
    PROVE  Promised(Tail(q), T, s)
  <1> DEFINE n == Tail(q)
  <1>1. /\ Len(q) = Len(n) + 1 /\ Len(n) \in Nat /\ Head(q) = q[1]
        /\ \A i \in 1..Len(n) : n[i] = q[i + 1]
    OBVIOUS
  <1> HIDE DEF n
  <1>2. CASE s \in S /\ \A j \in 1..Len(q) : ~Drops(q[j], s)
    <2>1. s \in T
      BY <1>1, <1>2
    <2>2. ASSUME NEW j \in 1..Len(n) PROVE ~Drops(n[j], s)
      BY <1>1, <1>2
    <2> QED
      BY <2>1, <2>2 DEF Promised, n
  <1>3. ASSUME NEW i \in 1..Len(q), Asks(q[i], s), \A j \in (i + 1)..Len(q) : ~Drops(q[j], s)
        PROVE  Promised(n, T, s)
    <2>1. CASE i = 1
      <3>1. s \in T
        BY <1>1, <1>3, <2>1
      <3>2. ASSUME NEW j \in 1..Len(n) PROVE ~Drops(n[j], s)
        BY <1>1, <1>3, <2>1
      <3> QED
        BY <3>1, <3>2 DEF Promised
    <2>2. CASE i # 1
      <3>1. i - 1 \in 1..Len(n) /\ Asks(n[i - 1], s)
        BY <1>1, <1>3, <2>2
      <3>2. ASSUME NEW j \in ((i - 1) + 1)..Len(n) PROVE ~Drops(n[j], s)
        BY <1>1, <1>3, <2>2
      <3> QED
        BY <3>1, <3>2 DEF Promised
    <2> QED
      BY <2>1, <2>2
  <1> QED
    BY <1>2, <1>3 DEF Promised, n

\* A frame is put on the channel or refused: the channel stays one, what is
\* promised and not dropped by the frame stays promised, and so is what it asks
\* for, a symbol that was refused before with it.
LEMMA EnqueueKeeps ==
    ASSUME FeedAssumption, NEW f \in Feed!Frames, Feed!TypeOK, Feed!Enqueue(f)
    PROVE  /\ queue' \in Seq(Feed!Frames) /\ Len(queue') <= QueueSize
           /\ dropped' \subseteq Contracts
           /\ \A S, s : s \in dropped \ dropped' => Promised(queue', S, s)
           /\ \A S, s : Promised(queue, S, s) /\ ~Drops(f, s) => Promised(queue', S, s)
           /\ \A S, s : Asks(f, s) => s \in dropped' \/ Promised(queue', S, s)
  <1>1. queue \in Seq(Feed!Frames) /\ Len(queue) <= QueueSize /\ dropped \subseteq Contracts
    BY DEF Feed!TypeOK
  <1>2. CASE Len(queue) < QueueSize
    <2>1. queue' = Append(queue, f) /\ dropped' = dropped \ Feed!Asked(f)
      BY <1>2 DEF Feed!Enqueue
    <2>2. queue' \in Seq(Feed!Frames) /\ Len(queue') <= QueueSize
      BY <1>1, <1>2, <2>1, FeedAssumption
    <2>3. \A s \in dropped \ dropped' : Asks(f, s)
      BY <2>1 DEF Feed!Asked, Asks
    <2>4. \A S, s : Asks(f, s) => Promised(queue', S, s)
      BY <1>1, <2>1, PromisedLast
    <2>5. \A S, s : Promised(queue, S, s) /\ ~Drops(f, s) => Promised(queue', S, s)
      BY <1>1, <2>1, PromisedBehind
    <2> QED
      BY <1>1, <2>1, <2>2, <2>3, <2>4, <2>5
  <1>3. CASE ~(Len(queue) < QueueSize)
    <2>1. queue' = queue /\ dropped' = dropped \cup Feed!Asked(f)
      BY <1>3 DEF Feed!Enqueue
    <2>2. Feed!Asked(f) \subseteq Contracts /\ \A s : Asks(f, s) => s \in Feed!Asked(f)
      BY DEF Feed!Frames, Feed!Asked, Asks
    <2> QED
      BY <1>1, <2>1, <2>2
  <1> QED
    BY <1>2, <1>3

-----------------------------------------------------------------------------
\* The initial states satisfy the invariant.
LEMMA FeedInit == ASSUME Feed!Init PROVE FeedIInv
  <1>1. <<>> \in Seq(Feed!Frames) /\ Len(<<>>) = 0 /\ Feed!Idle.at = "idle" /\ Feed!Idle.channel = "nil"
    BY DEF Feed!Idle
  <1>2. Feed!TypeOK
    <2>1. queue \in Seq(Feed!Frames) /\ Len(queue) <= QueueSize
      BY <1>1, FeedAssumption DEF Feed!Init
    <2>2. /\ desired \subseteq Contracts /\ snapshot \subseteq Contracts
          /\ streamed \subseteq Contracts /\ dropped \subseteq Contracts
          /\ feed \in Feed!Feeds /\ cancelled \in BOOLEAN /\ published \in BOOLEAN
          /\ socket = "none" /\ helpers = {} /\ calls \in 0..MaxCalls /\ breaks \in 0..MaxBreaks
      <3>1. /\ desired = {} /\ snapshot = {} /\ streamed = {} /\ dropped = {} /\ feed = "off"
            /\ cancelled = FALSE /\ published = FALSE /\ socket = "none" /\ helpers = {}
            /\ calls = 0 /\ breaks = 0
        BY DEF Feed!Init
      <3>2. calls \in 0..MaxCalls /\ breaks \in 0..MaxBreaks
        BY <3>1, FeedAssumption
      <3> QED
        BY <3>1, <3>2, Zenon DEF Feed!Feeds
    <2>3. caller \in Feed!Calls
      BY FrameTyped DEF Feed!Init
    <2> QED
      BY <2>1, <2>2, <2>3 DEF Feed!TypeOK
  <1> QED
    BY <1>1, <1>2 DEF Feed!Init, FeedIInv, LinkOK, SymbolsOK, ClosersOK, Connected

\* Main's calls, but for what they put on the channel.
LEMMA MainKeeps ==
    ASSUME FeedIInv,
           \/ \E s \in Contracts : Feed!AddSymbols(s) \/ Feed!Unsubscribe(s)
           \/ Feed!EnsureStarted \/ Feed!ReadChannel \/ Feed!Stop \/ Feed!Stopped
    PROVE  FeedIInv'
  <1> USE DEF Feed!feedSide
  <1>1. ASSUME NEW s \in Contracts, Feed!AddSymbols(s) PROVE FeedIInv'
    <2>1. /\ desired' = desired \cup {s} /\ calls' = calls + 1 /\ calls < MaxCalls
          /\ caller' = [Feed!Idle EXCEPT !.at = "added", !.frame = Feed!Frame("subscribe", {s})]
          /\ caller.at = "idle"
          /\ UNCHANGED <<snapshot, published, socket, helpers, breaks, streamed, feed, cancelled, queue, dropped>>
      BY <1>1 DEF Feed!AddSymbols
    <2>2. caller' \in Feed!Calls /\ caller'.at = "added" /\ caller'.channel = "nil"
          /\ caller'.frame.action = "subscribe" /\ caller'.frame.syms = {s}
      BY <2>1, FrameTyped DEF Feed!Idle, Feed!Calls, Feed!Frame
    <2>3. Feed!TypeOK'
      BY <2>1, <2>2, FeedAssumption DEF FeedIInv, Feed!TypeOK
    <2>4. LinkOK' /\ ClosersOK'
      BY <2>1, <2>2 DEF FeedIInv, LinkOK, ClosersOK
    <2>5. SymbolsOK'
      BY <2>1, <2>2 DEF FeedIInv, SymbolsOK, Calling, Asks, Drops
    <2> QED
      BY <2>3, <2>4, <2>5 DEF FeedIInv
  <1>2. ASSUME NEW s \in Contracts, Feed!Unsubscribe(s) PROVE FeedIInv'
    <2>1. /\ desired' = desired \ {s} /\ calls' = calls + 1 /\ calls < MaxCalls
          /\ caller' = [at |-> "sending", frame |-> Feed!Frame("unsubscribe", {s}), channel |-> Feed!Channel]
          /\ caller.at = "idle"
          /\ UNCHANGED <<snapshot, published, socket, helpers, breaks, streamed, feed, cancelled, queue, dropped>>
      BY <1>2 DEF Feed!Unsubscribe
    <2>2. caller' \in Feed!Calls /\ caller'.at = "sending"
          /\ (caller'.channel = "current" => published)
          /\ caller'.frame.action = "unsubscribe" /\ caller'.frame.syms = {s}
      BY <2>1, FrameTyped DEF Feed!Calls, Feed!Frame, Feed!Channel
    <2>3. Feed!TypeOK'
      BY <2>1, <2>2, FeedAssumption DEF FeedIInv, Feed!TypeOK
    <2>4. LinkOK' /\ ClosersOK'
      BY <2>1, <2>2 DEF FeedIInv, LinkOK, ClosersOK
    <2>5. SymbolsOK'
      BY <2>1, <2>2 DEF FeedIInv, SymbolsOK, Calling, Asks, Drops
    <2> QED
      BY <2>3, <2>4, <2>5 DEF FeedIInv
  <1>3. CASE Feed!EnsureStarted \/ Feed!ReadChannel
    <2>1. /\ caller.at \in {"added", "started"} /\ caller'.frame = caller.frame
          /\ caller' \in Feed!Calls
          /\ caller'.at \in {"started", "sending"}
          /\ caller'.at = "sending" => caller'.channel = Feed!Channel
          /\ caller'.at # "sending" => caller'.channel = caller.channel
          /\ feed' = feed \/ (feed = "off" /\ feed' = "dial")
          /\ UNCHANGED <<snapshot, published, socket, helpers, breaks, streamed, desired,
                         cancelled, queue, calls, dropped>>
      BY <1>3 DEF Feed!EnsureStarted, Feed!ReadChannel, FeedIInv, Feed!TypeOK, Feed!Calls, Feed!Channel
    <2>2. Feed!TypeOK'
      BY <2>1 DEF FeedIInv, Feed!TypeOK, Feed!Feeds
    <2>3. LinkOK' /\ ClosersOK'
      BY <2>1 DEF FeedIInv, LinkOK, ClosersOK, Connected, Feed!Channel
    <2>4. SymbolsOK'
      <3>1. socket = "up" => published
        BY DEF FeedIInv, LinkOK
      <3>2. ASSUME NEW s, Calling(s), socket = "up" PROVE Calling(s)'
        BY <2>1, <3>1, <3>2 DEF Calling, Feed!Channel
      <3> QED
        BY <2>1, <3>2 DEF FeedIInv, SymbolsOK, Drops
    <2> QED
      BY <2>2, <2>3, <2>4 DEF FeedIInv
  <1>4. CASE Feed!Stop \/ Feed!Stopped
    <2>1. /\ caller.at \in {"idle", "stopping"} /\ caller' \in Feed!Calls
          /\ caller'.at \in {"stopping", "stopped"}
          /\ caller'.channel = "current" => caller.channel = "current"
          /\ caller'.at = "stopping" => cancelled' \/ feed = "off"
          /\ cancelled' \in BOOLEAN
          /\ UNCHANGED <<snapshot, published, socket, helpers, breaks, streamed, desired, feed,
                         queue, calls, dropped>>
      BY <1>4, FrameTyped DEF Feed!Stop, Feed!Stopped, FeedIInv, Feed!TypeOK, Feed!Calls, Feed!Idle
    <2>2. Feed!TypeOK'
      BY <2>1 DEF FeedIInv, Feed!TypeOK
    <2>3. LinkOK' /\ ClosersOK'
      BY <2>1 DEF FeedIInv, LinkOK, ClosersOK
    <2>4. SymbolsOK'
      BY <2>1 DEF FeedIInv, SymbolsOK, Calling
    <2> QED
      BY <2>2, <2>3, <2>4 DEF FeedIInv
  <1> QED
    BY <1>1, <1>2, <1>3, <1>4

\* Main's frame goes on the channel it read, or nowhere.
LEMMA SendKeeps == ASSUME FeedIInv, Feed!SendFrame PROVE FeedIInv'
  <1>1. /\ caller.at = "sending" /\ caller' = Feed!Idle
        /\ UNCHANGED <<snapshot, published, socket, helpers, breaks, streamed, desired, feed,
                       cancelled, calls>>
    BY DEF Feed!SendFrame, Feed!feedSide
  <1>2. caller'.at = "idle" /\ caller'.channel = "nil" /\ caller' \in Feed!Calls
    BY <1>1, FrameTyped DEF Feed!Idle
  <1>3. caller.frame \in Feed!Frames
    BY DEF FeedIInv, Feed!TypeOK, Feed!Calls
  <1>4. /\ queue' \in Seq(Feed!Frames) /\ Len(queue') <= QueueSize
        /\ dropped' \subseteq Contracts
        /\ \A S, s : s \in dropped \ dropped' => Promised(queue', S, s)
        /\ \A S, s : Promised(queue, S, s) /\ ~Drops(caller.frame, s) => Promised(queue', S, s)
        /\ \A S, s : Asks(caller.frame, s) /\ caller.channel = "current" =>
               s \in dropped' \/ Promised(queue', S, s)
    <2>1. CASE caller.channel = "current"
      <3>1. Feed!Enqueue(caller.frame) /\ Feed!TypeOK
        BY <2>1 DEF Feed!SendFrame, FeedIInv
      <3> QED
        BY <1>3, <3>1, EnqueueKeeps, FeedAssumption
    <2>2. CASE caller.channel # "current"
      <3>1. queue' = queue /\ dropped' = dropped
        BY <2>2 DEF Feed!SendFrame
      <3> QED
        BY <2>2, <3>1 DEF FeedIInv, Feed!TypeOK
    <2> QED
      BY <2>1, <2>2
  <1>5. Feed!TypeOK'
    BY <1>1, <1>2, <1>4 DEF FeedIInv, Feed!TypeOK
  <1>6. LinkOK' /\ ClosersOK'
    BY <1>1, <1>2 DEF FeedIInv, LinkOK, ClosersOK
  <1>7. ASSUME NEW s \in desired' \ dropped', socket' = "up"
        PROVE  s \in snapshot' \/ Promised(queue', streamed', s)
    <2>1. s \in desired /\ socket = "up" /\ ~Drops(caller.frame, s)
      BY <1>1, <1>7 DEF FeedIInv, SymbolsOK
    <2>2. CASE s \in dropped
      BY <1>4, <1>7, <2>2
    <2>3. CASE s \notin dropped
      <3>1. s \in snapshot \/ Promised(queue, streamed, s) \/ Calling(s)
        BY <2>1, <2>3 DEF FeedIInv, SymbolsOK
      <3> QED
        BY <1>1, <1>4, <1>7, <2>1, <3>1 DEF Calling
    <2> QED
      BY <2>2, <2>3
  <1>8. SymbolsOK'
    BY <1>2, <1>7 DEF SymbolsOK
  <1> QED
    BY <1>5, <1>6, <1>8 DEF FeedIInv

\* The feed's goroutine, from the dial to the end.
LEMMA FeedGoesOnKeeps == ASSUME FeedIInv, Feed!FeedGoesOn \/ Feed!DialFails PROVE FeedIInv'
  <1> USE DEF Feed!mainSide, Feed!connection
  <1>1. CASE Feed!DialEnds \/ Feed!DialFails \/ Feed!Backoff
    <2>1. /\ feed \in {"dial", "backoff"} /\ feed' \in {"dial", "backoff", "ended"}
          /\ breaks' \in 0..MaxBreaks
          /\ UNCHANGED <<desired, cancelled, caller, calls, queue, socket, helpers, streamed,
                         dropped, snapshot, published>>
      BY <1>1, FeedAssumption DEF Feed!DialEnds, Feed!DialFails, Feed!Backoff, Feed!Break, FeedIInv, Feed!TypeOK
    <2>2. Feed!TypeOK'
      BY <2>1 DEF FeedIInv, Feed!TypeOK, Feed!Feeds
    <2>3. LinkOK' /\ ClosersOK'
      BY <2>1 DEF FeedIInv, LinkOK, ClosersOK, Connected
    <2>4. SymbolsOK'
      BY <2>1 DEF FeedIInv, SymbolsOK, Calling
    <2> QED
      BY <2>2, <2>3, <2>4 DEF FeedIInv
  <1>2. CASE Feed!Publish
    <2>1. /\ feed = "dial" /\ feed' = "joined" /\ published' = TRUE /\ snapshot' = desired
          /\ queue' = <<>> /\ dropped' = {} /\ socket' = "up" /\ streamed' = {}
          /\ helpers' = {"closer"}
          /\ UNCHANGED <<desired, cancelled, caller, calls, breaks>>
      BY <1>2 DEF Feed!Publish
    <2>2. Feed!TypeOK'
      <3>1. queue' \in Seq(Feed!Frames) /\ Len(queue') <= QueueSize
        BY <2>1, FeedAssumption
      <3>2. feed' \in Feed!Feeds
        BY <2>1 DEF Feed!Feeds
      <3> QED
        BY <2>1, <3>1, <3>2 DEF FeedIInv, Feed!TypeOK
    <2>3. LinkOK' /\ ClosersOK'
      BY <2>1 DEF FeedIInv, LinkOK, ClosersOK, Connected
    <2>4. SymbolsOK'
      BY <2>1 DEF FeedIInv, SymbolsOK
    <2> QED
      BY <2>2, <2>3, <2>4 DEF FeedIInv
  <1>3. CASE Feed!StartWriter \/ Feed!ReadFails
    <2>1. /\ \/ feed = "joined" /\ feed' = "writing"
             \/ feed = "serving" /\ feed' = "tearing"
          /\ helpers \subseteq helpers' /\ helpers' \subseteq helpers \cup {"writer"}
          /\ UNCHANGED <<desired, cancelled, caller, calls, queue, socket, streamed,
                         dropped, snapshot, published, breaks>>
      BY <1>3 DEF Feed!StartWriter, Feed!ReadFails
    <2>2. Feed!TypeOK'
      BY <2>1 DEF FeedIInv, Feed!TypeOK, Feed!Feeds
    <2>3. LinkOK' /\ ClosersOK'
      BY <2>1 DEF FeedIInv, LinkOK, ClosersOK, Connected
    <2>4. SymbolsOK'
      BY <2>1 DEF FeedIInv, SymbolsOK, Calling
    <2> QED
      BY <2>2, <2>3, <2>4 DEF FeedIInv
  <1>4. CASE Feed!SubscribeAll
    <2>1. /\ feed = "writing" /\ feed' = "serving" /\ snapshot' = {}
          /\ helpers' = helpers \cup {"heartbeat"}
          /\ UNCHANGED <<desired, cancelled, caller, calls, socket, streamed, published, breaks>>
      BY <1>4 DEF Feed!SubscribeAll
    <2>2. /\ queue' \in Seq(Feed!Frames) /\ Len(queue') <= QueueSize
          /\ dropped' \subseteq Contracts
          /\ \A S, s : s \in dropped \ dropped' => Promised(queue', S, s)
          /\ \A S, s : Promised(queue, S, s) => Promised(queue', S, s)
          /\ \A S : \A s \in snapshot : s \in dropped' \/ Promised(queue', S, s)
      <3>1. CASE snapshot = {}
        BY <1>4, <3>1 DEF Feed!SubscribeAll, FeedIInv, Feed!TypeOK
      <3>2. CASE snapshot # {}
        <4> DEFINE f == Feed!Frame("subscribe", snapshot)
        <4>1. f \in Feed!Frames /\ Feed!Enqueue(f) /\ Feed!TypeOK
          BY <1>4, <3>2, FrameTyped DEF Feed!SubscribeAll, FeedIInv, Feed!TypeOK
        <4>2. (\A s : ~Drops(f, s)) /\ \A s \in snapshot : Asks(f, s)
          BY DEF Feed!Frame, Drops, Asks
        <4> HIDE DEF f
        <4> QED
          BY <4>1, <4>2, EnqueueKeeps, FeedAssumption
      <3> QED
        BY <3>1, <3>2
    <2>3. Feed!TypeOK'
      BY <2>1, <2>2 DEF FeedIInv, Feed!TypeOK, Feed!Feeds
    <2>4. LinkOK' /\ ClosersOK'
      BY <2>1 DEF FeedIInv, LinkOK, ClosersOK, Connected
    <2>5. SymbolsOK'
      BY <2>1, <2>2 DEF FeedIInv, SymbolsOK, Calling
    <2> QED
      BY <2>3, <2>4, <2>5 DEF FeedIInv
  <1>5. CASE Feed!Teardown
    <2>1. /\ feed = "tearing" /\ feed' \in {"ended", "backoff"} /\ published' = FALSE
          /\ helpers = {} /\ helpers' = {} /\ queue' = <<>> /\ dropped' = {}
          /\ socket' = "none" /\ streamed' = {}
          /\ caller' \in Feed!Calls /\ caller'.channel # "current"
          /\ caller'.at = caller.at /\ caller'.frame = caller.frame
          /\ UNCHANGED <<desired, snapshot, cancelled, calls, breaks>>
      BY <1>5 DEF Feed!Teardown, FeedIInv, Feed!TypeOK, Feed!Calls
    <2>2. Feed!TypeOK'
      <3>1. queue' \in Seq(Feed!Frames) /\ Len(queue') <= QueueSize
        BY <2>1, FeedAssumption
      <3>2. feed' \in Feed!Feeds
        BY <2>1 DEF Feed!Feeds
      <3> QED
        BY <2>1, <3>1, <3>2 DEF FeedIInv, Feed!TypeOK
    <2>3. feed' \notin Connected
      BY <2>1 DEF Connected
    <2>4. caller'.at = "stopping" => cancelled'
      BY <2>1 DEF FeedIInv, ClosersOK
    <2>5. LinkOK' /\ ClosersOK'
      BY <2>1, <2>3, <2>4 DEF FeedIInv, LinkOK, ClosersOK
    <2>6. SymbolsOK'
      BY <2>1 DEF FeedIInv, SymbolsOK
    <2> QED
      BY <2>2, <2>5, <2>6 DEF FeedIInv
  <1> QED
    BY <1>1, <1>2, <1>3, <1>4, <1>5 DEF Feed!FeedGoesOn

\* Beats on the channel.
LEMMA BeatKeeps == ASSUME FeedIInv, Feed!Pong \/ Feed!Heartbeat PROVE FeedIInv'
  <1>1. /\ Feed!Enqueue(Feed!Beat)
        /\ UNCHANGED <<desired, cancelled, caller, calls, feed, snapshot, published, socket,
                       helpers, breaks, streamed>>
    BY DEF Feed!Pong, Feed!Heartbeat, Feed!mainSide, Feed!feedSteps
  <1>2. /\ queue' \in Seq(Feed!Frames) /\ Len(queue') <= QueueSize
        /\ dropped' \subseteq Contracts
        /\ \A S, s : s \in dropped \ dropped' => Promised(queue', S, s)
        /\ \A S, s : Promised(queue, S, s) => Promised(queue', S, s)
    BY <1>1, FrameTyped, EnqueueKeeps, FeedAssumption DEF FeedIInv
  <1>3. Feed!TypeOK'
    BY <1>1, <1>2 DEF FeedIInv, Feed!TypeOK
  <1>4. LinkOK' /\ ClosersOK'
    BY <1>1 DEF FeedIInv, LinkOK, ClosersOK
  <1>5. SymbolsOK'
    BY <1>1, <1>2 DEF FeedIInv, SymbolsOK, Calling
  <1> QED
    BY <1>3, <1>4, <1>5 DEF FeedIInv

\* What a frame makes of what the server streams.
LEMMA WriteKeeps == ASSUME FeedIInv, Feed!Write PROVE FeedIInv'
  <1>1. /\ queue # <<>> /\ "writer" \in helpers
        /\ UNCHANGED <<desired, cancelled, caller, calls, feed, snapshot, published, socket,
                       breaks, dropped>>
    BY DEF Feed!Write, Feed!feedSteps, Feed!mainSide
  <1>2. queue \in Seq(Feed!Frames) /\ Head(queue) \in Feed!Frames /\ Tail(queue) \in Seq(Feed!Frames)
        /\ Len(Tail(queue)) <= QueueSize /\ Len(queue) <= QueueSize
    BY <1>1, FeedAssumption DEF FeedIInv, Feed!TypeOK
  <1>3. CASE socket = "up"
    <2>1. /\ queue' = Tail(queue) /\ helpers' = helpers
          /\ streamed' = CASE Head(queue).action = "subscribe" -> streamed \cup Head(queue).syms
                           [] Head(queue).action = "unsubscribe" -> streamed \ Head(queue).syms
                           [] OTHER -> streamed
      BY <1>3 DEF Feed!Write
    <2>2. \A s : /\ Asks(Head(queue), s) => s \in streamed'
                 /\ s \in streamed /\ ~Drops(Head(queue), s) => s \in streamed'
      BY <2>1 DEF Asks, Drops
    <2>3. streamed' \subseteq Contracts
      BY <1>2, <2>1 DEF FeedIInv, Feed!TypeOK, Feed!Frames
    <2>4. \A s : Promised(queue, streamed, s) => Promised(queue', streamed', s)
      BY <1>1, <1>2, <2>1, <2>2, PromisedWritten
    <2>5. Feed!TypeOK'
      BY <1>1, <1>2, <2>1, <2>3 DEF FeedIInv, Feed!TypeOK
    <2>6. LinkOK' /\ ClosersOK'
      BY <1>1, <2>1 DEF FeedIInv, LinkOK, ClosersOK
    <2>7. SymbolsOK'
      BY <1>1, <2>4 DEF FeedIInv, SymbolsOK, Calling
    <2> QED
      BY <2>5, <2>6, <2>7 DEF FeedIInv
  <1>4. CASE socket # "up"
    <2>1. /\ queue' \in {queue, Tail(queue)} /\ streamed' = streamed
          /\ helpers' \subseteq helpers /\ ("closer" \in helpers => "closer" \in helpers')
      BY <1>4 DEF Feed!Write
    <2>2. Feed!TypeOK'
      BY <1>1, <1>2, <2>1 DEF FeedIInv, Feed!TypeOK
    <2>3. LinkOK' /\ ClosersOK'
      BY <1>1, <2>1 DEF FeedIInv, LinkOK, ClosersOK
    <2>4. SymbolsOK'
      BY <1>1, <1>4 DEF FeedIInv, SymbolsOK
    <2> QED
      BY <2>2, <2>3, <2>4 DEF FeedIInv
  <1> QED
    BY <1>3, <1>4

\* The helpers end, and the network fails.
LEMMA HelpersKeep ==
    ASSUME FeedIInv,
           \/ Feed!WriteBlocks \/ Feed!WriterEnds \/ Feed!HeartbeatEnds \/ Feed!Closer
           \/ Feed!ConnectionFails
    PROVE  FeedIInv'
  <1>1. /\ feed \in Connected
        /\ helpers' \subseteq helpers \cup {"blocked"}
        /\ "closer" \in helpers => "closer" \in helpers' \/ socket' = "closed"
        /\ socket' = socket \/ socket' \in {"closed", "broken", "silent"}
        /\ socket = "closed" => socket' = "closed"
        /\ breaks' \in 0..MaxBreaks
        /\ UNCHANGED <<desired, cancelled, caller, calls, feed, snapshot, published, queue,
                       streamed, dropped>>
    BY FeedAssumption DEF Feed!WriteBlocks, Feed!WriterEnds, Feed!HeartbeatEnds, Feed!Closer,
       Feed!ConnectionFails, Feed!Break, Feed!feedSteps, Feed!mainSide, FeedIInv, Feed!TypeOK, LinkOK
  <1>2. Feed!TypeOK'
    BY <1>1 DEF FeedIInv, Feed!TypeOK
  <1>3. LinkOK' /\ ClosersOK'
    BY <1>1 DEF FeedIInv, LinkOK, ClosersOK, Feed!TypeOK
  <1>4. SymbolsOK'
    BY <1>1 DEF FeedIInv, SymbolsOK, Calling
  <1> QED
    BY <1>2, <1>3, <1>4 DEF FeedIInv

\* Every step keeps the invariant.
LEMMA FeedNext == FeedIInv /\ [Feed!Next]_(Feed!feedVars) => FeedIInv'
  <1>1. ASSUME FeedIInv, Feed!Next PROVE FeedIInv'
    BY <1>1, MainKeeps, SendKeeps, FeedGoesOnKeeps, BeatKeeps, WriteKeeps, HelpersKeep
    DEF Feed!Next, Feed!MainGoesOn, Feed!Writer
  <1>2. ASSUME FeedIInv, UNCHANGED Feed!feedVars PROVE FeedIInv'
    BY <1>2 DEF Feed!feedVars, FeedIInv, Feed!TypeOK, LinkOK, SymbolsOK, Calling, ClosersOK
  <1> QED
    BY <1>1, <1>2

\* Every variable of the live feed keeps its type.
THEOREM FeedTyped == Feed!Spec => []Feed!TypeOK
  <1>1. FeedIInv => Feed!TypeOK
    BY DEF FeedIInv
  <1> QED
    BY <1>1, FeedInit, FeedNext, PTL DEF Feed!Spec

(***************************************************************************)
(* SubscribeLive and a connection that is being made or made again: no     *)
(* symbol falls between them.                                              *)
(***************************************************************************)
THEOREM SubscriptionsArrive == Feed!Spec => []NoSymbolFallsBetween
  <1>1. ASSUME FeedIInv PROVE NoSymbolFallsBetween
    <2> SUFFICES ASSUME Feed!AllSent, NEW s \in desired, s \notin dropped
                 PROVE  s \in streamed
      BY DEF NoSymbolFallsBetween, Feed!NoSymbolFallsBetween, Feed!Streaming
    <2>1. snapshot = {} /\ ~Calling(s) /\ socket = "up" /\ queue = <<>>
      BY <1>1 DEF Feed!AllSent, FeedIInv, LinkOK, Calling
    <2>2. Promised(queue, streamed, s)
      BY <1>1, <2>1 DEF FeedIInv, SymbolsOK
    <2> QED
      BY <2>1, <2>2 DEF Promised
  <1> QED
    BY <1>1, FeedInit, FeedNext, PTL DEF Feed!Spec

\* Close always has somebody who goes on.
THEOREM CloseIsNotStuck == Feed!Spec => []CloseGoesOn
  <1>1. ASSUME FeedIInv PROVE CloseGoesOn
    BY <1>1 DEF FeedIInv, Feed!TypeOK, Feed!Feeds, LinkOK, ClosersOK, Connected, CloseGoesOn
  <1> QED
    BY <1>1, FeedInit, FeedNext, PTL DEF Feed!Spec

-----------------------------------------------------------------------------
(***************************************************************************)
(* Proofs about Watchdog, for every age, cooldown and run of the command.  *)
(*                                                                         *)
(* OutageIsHeard is not inductive.  How long an outage can have been       *)
(* silent depends on who would have spoken: while the command runs, since  *)
(* when it does; in an episode, since when its last alert is.              *)
(***************************************************************************)
\* Only a stale file is silent.
FreshOK == ~Watch!Stale => silent = 0

\* While the command runs nobody else speaks, and its alert came first.
CommandOK == restarting.on => alerted /\ silent <= restarting.lasted

\* Within the cooldown of an episode's last alert.
EpisodeOK == alerted /\ sinceAlert < Cooldown => silent <= sinceAlert

\* Once a check has been made, an outage was heard at it or not long before.
CheckedOK ==
    ~due => silent = 0 \/ (~restarting.on /\ alerted /\ sinceAlert < Cooldown)

\* What maybeRestart goes by is how long no command has begun.
RestingOK == sinceRestart = resting

WatchIInv ==
    /\ Watch!TypeOK /\ FreshOK /\ CommandOK /\ EpisodeOK /\ CheckedOK
    /\ Watch!OutageIsHeard /\ RestingOK

-----------------------------------------------------------------------------
\* A capped counter stays within its cap and grows by one below it.
LEMMA WatchGrows ==
    ASSUME NEW limit \in Nat, NEW n \in 0..limit
    PROVE  /\ Watch!Grow(n, limit) \in 0..limit
           /\ Watch!Grow(n, limit) <= n + 1
           /\ Watch!Grow(n, limit) < limit => Watch!Grow(n, limit) = n + 1
  BY DEF Watch!Grow

\* The initial states satisfy the invariant.
LEMMA WatchInit == Watch!Init => WatchIInv
  <1> SUFFICES ASSUME Watch!Init PROVE WatchIInv
    OBVIOUS
  <1>1. alive \in BOOLEAN /\ alerted \in BOOLEAN /\ due \in BOOLEAN
    BY DEF Watch!Init
  <1>2. /\ age \in 0..(MaxAge + 1)
        /\ sinceAlert \in 0..Cooldown
        /\ sinceRestart \in 0..Cooldown
        /\ silent \in 0..(Cooldown + MaxRun + 1)
        /\ resting \in 0..Cooldown
    BY WatchAssumption DEF Watch!Init
  <1>3. restarting \in [on : BOOLEAN, lasted : 0..MaxRun] /\ ~restarting.on
    BY WatchAssumption DEF Watch!Init, Watch!NotRunning
  <1>4. FreshOK /\ CommandOK /\ EpisodeOK /\ CheckedOK /\ Watch!OutageIsHeard /\ RestingOK
    BY <1>3, WatchAssumption DEF Watch!Init, FreshOK, CommandOK, EpisodeOK, CheckedOK,
       Watch!OutageIsHeard, RestingOK
  <1> QED
    BY <1>1, <1>2, <1>3, <1>4 DEF WatchIInv, Watch!TypeOK

\* A poll period preserves the invariant.
LEMMA PollIInv ==
    ASSUME WatchIInv, Watch!Poll
    PROVE  WatchIInv'
  <1>1. /\ ~due \/ restarting.on
        /\ restarting.on => restarting.lasted < MaxRun
        /\ due' = TRUE
        /\ age' = Watch!Grow(age, MaxAge + 1)
        /\ sinceAlert' = Watch!Grow(sinceAlert, Cooldown)
        /\ sinceRestart' = Watch!Grow(sinceRestart, Cooldown)
        /\ silent' = IF age' > MaxAge THEN Watch!Grow(silent, Cooldown + MaxRun + 1) ELSE 0
        /\ resting' = Watch!Grow(resting, Cooldown)
        /\ alive' = alive /\ alerted' = alerted
    BY DEF Watch!Poll
  <1>2. /\ restarting' \in [on : BOOLEAN, lasted : 0..MaxRun]
        /\ restarting'.on = restarting.on
        /\ restarting.on => restarting'.lasted = restarting.lasted + 1
    <2>1. restarting \in [on : BOOLEAN, lasted : 0..MaxRun]
      BY DEF WatchIInv, Watch!TypeOK
    <2>2. CASE restarting.on
      <3>1. restarting' = [restarting EXCEPT !.lasted = @ + 1]
        BY <2>2 DEF Watch!Poll
      <3>2. restarting.lasted + 1 \in 0..MaxRun
        BY <1>1, <2>1, <2>2, WatchAssumption
      <3> QED
        BY <2>1, <3>1, <3>2
    <2>3. CASE ~restarting.on
      <3>1. restarting' = restarting
        BY <2>3 DEF Watch!Poll
      <3> QED
        BY <2>1, <2>3, <3>1
    <2> QED
      BY <2>2, <2>3
  <1>3. /\ MaxAge + 1 \in Nat /\ Cooldown \in Nat /\ Cooldown + MaxRun + 1 \in Nat
        /\ age \in 0..(MaxAge + 1) /\ sinceAlert \in 0..Cooldown
        /\ sinceRestart \in 0..Cooldown /\ resting \in 0..Cooldown
        /\ silent \in 0..(Cooldown + MaxRun + 1)
    BY WatchAssumption DEF WatchIInv, Watch!TypeOK
  <1>4. /\ age' \in 0..(MaxAge + 1) /\ sinceAlert' \in 0..Cooldown
        /\ sinceRestart' \in 0..Cooldown /\ resting' \in 0..Cooldown
        /\ silent' \in 0..(Cooldown + MaxRun + 1)
        /\ silent' <= silent + 1
        /\ sinceAlert' < Cooldown => sinceAlert' = sinceAlert + 1
    <2>1. Watch!Grow(silent, Cooldown + MaxRun + 1) \in 0..(Cooldown + MaxRun + 1)
      BY <1>3, WatchGrows
    <2>2. Watch!Grow(silent, Cooldown + MaxRun + 1) <= silent + 1
      BY <1>3, WatchGrows
    <2>3. Watch!Grow(age, MaxAge + 1) \in 0..(MaxAge + 1)
      BY <1>3, WatchGrows
    <2>4. sinceAlert' \in 0..Cooldown /\ sinceRestart' \in 0..Cooldown /\ resting' \in 0..Cooldown
      BY <1>1, <1>3, WatchGrows
    <2>5. sinceAlert' < Cooldown => sinceAlert' = sinceAlert + 1
      BY <1>1, <1>3, WatchGrows
    <2>6. silent' \in 0..(Cooldown + MaxRun + 1) /\ silent' <= silent + 1
      BY <1>1, <1>3, <2>1, <2>2
    <2> QED
      BY <1>1, <2>3, <2>4, <2>5, <2>6
  <1>5. Watch!TypeOK'
    <2>1. alive' \in BOOLEAN /\ alerted' \in BOOLEAN /\ due' \in BOOLEAN
      BY <1>1 DEF WatchIInv, Watch!TypeOK
    <2> QED
      BY <1>2, <1>4, <2>1 DEF Watch!TypeOK
  <1>6. FreshOK'
    BY <1>1 DEF FreshOK, Watch!Stale
  <1>7. restarting.on => alerted /\ silent <= restarting.lasted
    BY DEF WatchIInv, CommandOK
  <1>8. restarting \in [on : BOOLEAN, lasted : 0..MaxRun]
    BY DEF WatchIInv, Watch!TypeOK
  <1>9. CommandOK'
    <2>1. restarting.on => silent' <= restarting'.lasted
      BY <1>2, <1>3, <1>4, <1>7, <1>8
    <2> QED
      BY <1>1, <1>2, <1>7, <2>1 DEF CommandOK
  <1>10. EpisodeOK'
    <2> SUFFICES ASSUME alerted', sinceAlert' < Cooldown PROVE silent' <= sinceAlert'
      BY DEF EpisodeOK
    <2>1. sinceAlert' = sinceAlert + 1 /\ sinceAlert < Cooldown /\ alerted
      BY <1>1, <1>3, <1>4
    <2>2. silent <= sinceAlert
      BY <2>1 DEF WatchIInv, EpisodeOK
    <2> QED
      BY <1>3, <1>4, <2>1, <2>2
  <1>11. CheckedOK'
    BY <1>1 DEF CheckedOK
  <1>12. Watch!OutageIsHeard'
    <2>1. CASE restarting.on
      BY <1>1, <1>3, <1>4, <1>7, <1>8, <2>1, WatchAssumption DEF Watch!OutageIsHeard
    <2>2. CASE ~restarting.on
      <3>1. silent = 0 \/ (alerted /\ sinceAlert < Cooldown)
        BY <1>1, <2>2 DEF WatchIInv, CheckedOK
      <3>2. silent < Cooldown
        BY <1>3, <3>1, WatchAssumption DEF WatchIInv, EpisodeOK
      <3> QED
        BY <1>3, <1>4, <3>2, WatchAssumption DEF Watch!OutageIsHeard
    <2> QED
      BY <2>1, <2>2
  <1>13. RestingOK'
    BY <1>1 DEF WatchIInv, RestingOK
  <1> QED
    BY <1>5, <1>6, <1>9, <1>10, <1>11, <1>12, <1>13 DEF WatchIInv

\* The environment's steps and the end of a command preserve the invariant.
LEMMA OutsideIInv ==
    ASSUME WatchIInv, Watch!Touch \/ Watch!EngineStops \/ Watch!EngineStarts \/ Watch!CommandEnds
    PROVE  WatchIInv'
  <1>1. CASE Watch!Touch
    <2>1. /\ age' = 0 /\ silent' = 0 /\ alive' = alive /\ due' = due /\ alerted' = alerted
          /\ sinceAlert' = sinceAlert /\ sinceRestart' = sinceRestart
          /\ restarting' = restarting /\ resting' = resting
      BY <1>1 DEF Watch!Touch
    <2>2. restarting.lasted >= 0 /\ sinceAlert >= 0
      BY WatchAssumption DEF WatchIInv, Watch!TypeOK
    <2>3. Watch!TypeOK'
      <3>1. age' \in 0..(MaxAge + 1) /\ silent' \in 0..(Cooldown + MaxRun + 1)
        BY <2>1, WatchAssumption
      <3> QED
        BY <2>1, <3>1 DEF WatchIInv, Watch!TypeOK
    <2>4. FreshOK' /\ CommandOK' /\ EpisodeOK' /\ CheckedOK'
      BY <2>1, <2>2 DEF WatchIInv, FreshOK, CommandOK, EpisodeOK, CheckedOK
    <2>5. Watch!OutageIsHeard' /\ RestingOK'
      BY <2>1, WatchAssumption DEF WatchIInv, Watch!OutageIsHeard, RestingOK
    <2> QED
      BY <2>3, <2>4, <2>5 DEF WatchIInv
  <1>2. CASE Watch!EngineStops \/ Watch!EngineStarts
    <2>1. /\ alive' \in BOOLEAN /\ age' = age /\ silent' = silent /\ due' = due
          /\ alerted' = alerted /\ sinceAlert' = sinceAlert /\ sinceRestart' = sinceRestart
          /\ restarting' = restarting /\ resting' = resting
      BY <1>2 DEF Watch!EngineStops, Watch!EngineStarts
    <2>2. Watch!TypeOK'
      BY <2>1 DEF WatchIInv, Watch!TypeOK
    <2>3. FreshOK' /\ CommandOK' /\ EpisodeOK' /\ CheckedOK' /\ Watch!OutageIsHeard' /\ RestingOK'
      BY <2>1 DEF WatchIInv, FreshOK, Watch!Stale, CommandOK, EpisodeOK, CheckedOK,
         Watch!OutageIsHeard, RestingOK
    <2> QED
      BY <2>2, <2>3 DEF WatchIInv
  <1>3. CASE Watch!CommandEnds
    <2>1. /\ restarting.on /\ restarting' = Watch!NotRunning
          /\ alive' = alive /\ age' = age /\ silent' = silent /\ due' = due
          /\ alerted' = alerted /\ sinceAlert' = sinceAlert /\ sinceRestart' = sinceRestart
          /\ resting' = resting
      BY <1>3 DEF Watch!CommandEnds
    <2>2. restarting' \in [on : BOOLEAN, lasted : 0..MaxRun] /\ ~restarting'.on
      BY <2>1, WatchAssumption DEF Watch!NotRunning
    <2>3. Watch!TypeOK'
      BY <2>1, <2>2 DEF WatchIInv, Watch!TypeOK
    <2>4. CommandOK' /\ CheckedOK'
      BY <2>1, <2>2 DEF WatchIInv, CommandOK, CheckedOK
    <2>5. FreshOK' /\ EpisodeOK' /\ Watch!OutageIsHeard' /\ RestingOK'
      BY <2>1 DEF WatchIInv, FreshOK, Watch!Stale, EpisodeOK, Watch!OutageIsHeard, RestingOK
    <2> QED
      BY <2>3, <2>4, <2>5 DEF WatchIInv
  <1> QED
    BY <1>1, <1>2, <1>3

\* The first check of an episode preserves the invariant.
LEMMA CheckStaleIInv ==
    ASSUME WatchIInv, Watch!CheckStale
    PROVE  WatchIInv'
  <1>1. /\ due' = FALSE /\ alive' = alive /\ age' = age
        /\ alerted' = TRUE /\ sinceAlert' = 0 /\ silent' = 0 /\ ~restarting.on /\ Watch!Stale
    BY DEF Watch!CheckStale, Watch!Check, Watch!Alert
  <1>2. /\ \/ /\ restarting' = restarting
              /\ sinceRestart' = sinceRestart
              /\ resting' = resting
           \/ /\ restarting' = [on |-> TRUE, lasted |-> 0]
              /\ sinceRestart' = 0
              /\ resting' = 0
    BY DEF Watch!CheckStale, Watch!MaybeRestart
  <1>3. restarting' \in [on : BOOLEAN, lasted : 0..MaxRun]
    <2>1. [on |-> TRUE, lasted |-> 0] \in [on : BOOLEAN, lasted : 0..MaxRun]
      BY WatchAssumption
    <2>2. restarting \in [on : BOOLEAN, lasted : 0..MaxRun]
      BY DEF WatchIInv, Watch!TypeOK
    <2> QED
      BY <1>2, <2>1, <2>2
  <1>4. Watch!TypeOK'
    <2>1. /\ sinceAlert' \in 0..Cooldown /\ silent' \in 0..(Cooldown + MaxRun + 1)
          /\ sinceRestart' \in 0..Cooldown /\ resting' \in 0..Cooldown
      BY <1>1, <1>2, WatchAssumption DEF WatchIInv, Watch!TypeOK
    <2>2. alerted' \in BOOLEAN /\ due' \in BOOLEAN
      BY <1>1
    <2> QED
      BY <1>1, <1>3, <2>1, <2>2 DEF WatchIInv, Watch!TypeOK
  <1>5. restarting'.lasted >= 0
    BY <1>3, WatchAssumption
  <1>6. FreshOK' /\ CommandOK' /\ EpisodeOK' /\ CheckedOK'
    BY <1>1, <1>5 DEF FreshOK, CommandOK, EpisodeOK, CheckedOK
  <1>7. Watch!OutageIsHeard' /\ RestingOK'
    BY <1>1, <1>2, WatchAssumption DEF WatchIInv, Watch!OutageIsHeard, RestingOK
  <1> QED
    BY <1>4, <1>6, <1>7 DEF WatchIInv

\* The other checks preserve the invariant.
LEMMA OtherChecksIInv ==
    ASSUME WatchIInv, Watch!CheckStillStale \/ Watch!CheckRecovered \/ Watch!CheckHealthy
    PROVE  WatchIInv'
  <1>1. /\ due' = FALSE /\ alive' = alive /\ age' = age /\ ~restarting.on
        /\ sinceRestart' = sinceRestart /\ restarting' = restarting /\ resting' = resting
    BY DEF Watch!CheckStillStale, Watch!CheckRecovered, Watch!CheckHealthy, Watch!Check
  <1>2. \/ /\ alerted /\ sinceAlert < Cooldown
           /\ alerted' = alerted /\ sinceAlert' = sinceAlert /\ silent' = silent
        \/ alerted' = TRUE /\ sinceAlert' = 0 /\ silent' = 0
        \/ /\ ~Watch!Stale /\ alerted' = FALSE /\ sinceAlert' = sinceAlert /\ silent' = silent
    <2>1. CASE Watch!CheckStillStale
      BY <2>1 DEF Watch!CheckStillStale, Watch!Alert
    <2>2. CASE Watch!CheckRecovered
      BY <2>2 DEF Watch!CheckRecovered
    <2>3. CASE Watch!CheckHealthy
      BY <2>3 DEF Watch!CheckHealthy, WatchIInv, Watch!TypeOK
    <2> QED
      BY <2>1, <2>2, <2>3
  <1>3. Watch!TypeOK'
    <2>1. sinceAlert' \in 0..Cooldown /\ silent' \in 0..(Cooldown + MaxRun + 1)
      BY <1>2, WatchAssumption DEF WatchIInv, Watch!TypeOK
    <2>2. alerted' \in BOOLEAN
      BY <1>2 DEF WatchIInv, Watch!TypeOK
    <2> QED
      BY <1>1, <2>1, <2>2 DEF WatchIInv, Watch!TypeOK
  <1>4. FreshOK'
    BY <1>1, <1>2 DEF WatchIInv, FreshOK, Watch!Stale
  <1>5. CommandOK'
    BY <1>1 DEF CommandOK
  <1>6. EpisodeOK'
    <2>1. alerted /\ sinceAlert < Cooldown => silent <= sinceAlert
      BY DEF WatchIInv, EpisodeOK
    <2>2. CASE alerted /\ sinceAlert < Cooldown /\ sinceAlert' = sinceAlert /\ silent' = silent
      BY <2>1, <2>2 DEF EpisodeOK
    <2>3. CASE sinceAlert' = 0 /\ silent' = 0
      BY <2>3 DEF EpisodeOK
    <2>4. CASE alerted' = FALSE
      BY <2>4 DEF EpisodeOK
    <2> QED
      BY <1>2, <2>2, <2>3, <2>4
  <1>7. CheckedOK'
    BY <1>1, <1>2 DEF WatchIInv, FreshOK, CheckedOK
  <1>8. Watch!OutageIsHeard' /\ RestingOK'
    BY <1>1, <1>2, WatchAssumption DEF WatchIInv, Watch!OutageIsHeard, RestingOK
  <1> QED
    BY <1>3, <1>4, <1>5, <1>6, <1>7, <1>8 DEF WatchIInv

\* Every step preserves the invariant.
LEMMA WatchNext == WatchIInv /\ [Watch!Next]_(Watch!watchVars) => WatchIInv'
  <1> SUFFICES ASSUME WatchIInv, [Watch!Next]_(Watch!watchVars) PROVE WatchIInv'
    OBVIOUS
  <1>1. CASE UNCHANGED Watch!watchVars
    <2>1. Watch!TypeOK'
      BY <1>1 DEF WatchIInv, Watch!TypeOK, Watch!watchVars
    <2>2. FreshOK' /\ CommandOK' /\ EpisodeOK' /\ CheckedOK' /\ Watch!OutageIsHeard' /\ RestingOK'
      BY <1>1 DEF WatchIInv, FreshOK, Watch!Stale, CommandOK, EpisodeOK, CheckedOK,
         Watch!OutageIsHeard, RestingOK, Watch!watchVars
    <2> QED
      BY <2>1, <2>2 DEF WatchIInv
  <1>2. CASE Watch!Next
    BY <1>2, PollIInv, OutsideIInv, CheckStaleIInv, OtherChecksIInv DEF Watch!Next
  <1> QED
    BY <1>1, <1>2

-----------------------------------------------------------------------------
\* No outage is silent for longer than the cooldown and the run of a command
\* (check, and maybeRestart that it waits for), whatever the age of a file that
\* counts as stale and however the heartbeat flaps.
THEOREM Heard == Watch!Spec => []OutageIsHeard
  <1>1. Watch!Init => WatchIInv
    BY WatchInit
  <1>2. WatchIInv /\ [Watch!Next]_(Watch!watchVars) => WatchIInv'
    BY WatchNext
  <1>3. WatchIInv => OutageIsHeard
    BY DEF WatchIInv, OutageIsHeard
  <1> QED
    BY <1>1, <1>2, <1>3, PTL DEF Watch!Spec

\* The restart command never begins within a cooldown of its last beginning
\* (maybeRestart), not even in another episode.
THEOREM Rests == Watch!Spec => Watch!RestartsRest
  <1>1. Watch!Init => WatchIInv
    BY WatchInit
  <1>2. WatchIInv /\ [Watch!Next]_(Watch!watchVars) => WatchIInv'
    BY WatchNext
  <1>3. WatchIInv /\ [Watch!Next]_(Watch!watchVars)
            => [restarting'.on /\ ~restarting.on => resting = Cooldown]_(Watch!watchVars)
    <2> SUFFICES ASSUME WatchIInv, Watch!Next, restarting'.on, ~restarting.on
                 PROVE  resting = Cooldown
      OBVIOUS
    <2>1. Watch!CheckStale
      <3>1. ~Watch!Touch /\ ~Watch!EngineStops /\ ~Watch!EngineStarts
        BY DEF Watch!Touch, Watch!EngineStops, Watch!EngineStarts
      <3>2. ~Watch!Poll
        BY DEF Watch!Poll
      <3>3. /\ ~Watch!CheckStillStale /\ ~Watch!CheckRecovered
            /\ ~Watch!CheckHealthy /\ ~Watch!CommandEnds
        BY DEF Watch!CheckStillStale, Watch!CheckRecovered, Watch!CheckHealthy, Watch!CommandEnds
      <3> QED
        BY <3>1, <3>2, <3>3 DEF Watch!Next
    <2>2. ~(sinceRestart < Cooldown)
      BY <2>1 DEF Watch!CheckStale, Watch!MaybeRestart
    <2> QED
      BY <2>2, WatchAssumption DEF WatchIInv, Watch!TypeOK, RestingOK
  <1> QED
    BY <1>1, <1>2, <1>3, PTL DEF Watch!Spec, Watch!RestartsRest

-----------------------------------------------------------------------------
(***************************************************************************)
(* Proofs about Evaluation, for histories of every length and every need   *)
(* of the strategies.                                                      *)
(*                                                                         *)
(* ExitsAreTimely is not inductive: that a short straddle owes an exit no  *)
(* longer than its series is short rests on the series having grown with   *)
(* every evaluation that owed it, and that a reversal position owes none   *)
(* rests on the strategy remembering the direction that was entered.       *)
(***************************************************************************)
\* The exception of ExitsAreTimely.
Mistaken == forgot /\ structure.direction = "SELL"

\* An exit is owed by what is held only, and by the two strategies with a rule.
DebtsOK ==
    /\ ~structure.held => owed = 0
    /\ strategy \notin {"short_straddle", "rsi_reversal"} => owed = 0

\* The premiums seen since the entry are at least the evaluations in debt.
StraddleOK ==
    strategy = "short_straddle" =>
        /\ structure.held => structure.multiLeg
        /\ owed <= structure.premiums
        /\ owed < Needs[strategy]

\* The direction the strategy goes by is the one that was entered.
ReversalOK ==
    strategy = "rsi_reversal" /\ structure.held /\ ~Mistaken =>
        /\ owed = 0
        /\ lastDirection = "SELL" <=> structure.direction = "SELL"

SignalsIInv == Signals!TypeOK /\ DebtsOK /\ StraddleOK /\ ReversalOK

-----------------------------------------------------------------------------
\* A counter grows by one up to the size of the history.
LEMMA SignalsGrow ==
    ASSUME HistorySize \in Nat, NEW n \in 0..HistorySize
    PROVE  /\ Signals!Grow(n) \in 0..HistorySize
           /\ n <= Signals!Grow(n)
           /\ \A k \in 0..HistorySize : k <= n => Signals!Grow(k) <= Signals!Grow(n)
  BY DEF Signals!Grow

\* A strategy answers with a signal, and holds or exits with what it holds.
LEMMA SignalTypes ==
    ASSUME NEW s \in Signals!Structure, NEW m \in Signals!Market, strategy \in Signals!Strategies
    PROVE  Signals!Signal(s, m) \in Signals!Directions \cup {"HOLD", "EXIT"}
  BY DEF Signals!Signal, Signals!ShortStraddle, Signals!IronFly, Signals!RSIReversal,
     Signals!Sniper, Signals!EMACrossover, Signals!Momentum, Signals!Offered, Signals!Extreme,
     Signals!Strategies, Signals!Directions, Signals!Market

\* What a signal leaves of a structure: nothing, the structure or an entry.
LEMMA AfterCases ==
    ASSUME NEW s \in Signals!Structure, NEW signal, NEW t \in Signals!After(s, signal)
    PROVE  \/ t = s
           \/ t = Signals!Flat /\ (signal = "EXIT" \/ ~s.held)
           \/ signal \in Signals!Directions /\ ~s.held /\ t = Signals!Entered(signal)
  BY DEF Signals!After, Signals!Enter, Signals!Directions

-----------------------------------------------------------------------------
\* The initial states satisfy the invariant.
LEMMA SignalsInit == Signals!Init => SignalsIInv
  <1> SUFFICES ASSUME Signals!Init PROVE SignalsIInv
    OBVIOUS
  <1>1. Signals!Flat \in Signals!Structure /\ ~Signals!Flat.held /\ Signals!Flat.premiums = 0
    BY SignalsAssumption DEF Signals!Flat, Signals!Structure, Signals!Directions
  <1>2. Signals!TypeOK
    <2>1. forgot \in BOOLEAN
      BY DEF Signals!Init
    <2>2. /\ readings \in 0..HistorySize /\ bars \in 0..HistorySize /\ own \in 0..HistorySize
          /\ owed \in 0..HistorySize
      BY SignalsAssumption DEF Signals!Init
    <2>3. lastDirection \in Signals!Directions \cup {"none"} /\ strategy \in Signals!Strategies
      BY DEF Signals!Init
    <2>4. structure \in Signals!Structure
      BY <1>1 DEF Signals!Init
    <2> QED
      BY <2>1, <2>2, <2>3, <2>4 DEF Signals!TypeOK
  <1>3. DebtsOK /\ StraddleOK /\ ReversalOK
    BY <1>1, SignalsAssumption DEF DebtsOK, StraddleOK, ReversalOK, Signals!Init
  <1> QED
    BY <1>2, <1>3 DEF SignalsIInv

\* An evaluation preserves the invariant.
LEMMA EvaluateIInv ==
    ASSUME SignalsIInv, Signals!Evaluate
    PROVE  SignalsIInv'
  <1>1. PICK m \in Signals!Market :
          LET s == IF structure.multiLeg THEN [structure EXCEPT !.premiums = Signals!Grow(@)]
                   ELSE structure
              prices == IF structure.multiLeg THEN readings ELSE Signals!Grow(readings)
              candles == IF m.closes = "runner" /\ ~structure.multiLeg THEN Signals!Grow(bars) ELSE bars
              series == IF structure.multiLeg THEN s.premiums ELSE prices
              asked == s.held \/ prices >= MinDataPoints
              ended == asked /\ candles = 0 /\ Signals!OwnEnds(s, m)
              decides == asked /\ Signals!Ready(series, candles, ended)
              signal == IF decides THEN Signals!Signal(s, m) ELSE "HOLD"
          IN  /\ readings' = prices
              /\ bars' = candles
              /\ own' = IF strategy = "sniper" /\ asked /\ candles = 0 /\ (own = 0 \/ ended)
                        THEN Signals!Grow(own) ELSE own
              /\ structure' \in Signals!After(s, signal)
              /\ lastDirection' = IF strategy = "rsi_reversal" /\ decides THEN Signals!Remember(s, m)
                                  ELSE lastDirection
              /\ owed' = IF Signals!Due(s, m, series) /\ signal # "EXIT" THEN Signals!Grow(owed) ELSE 0
              /\ forgot' = (forgot /\ structure'.held)
              /\ UNCHANGED strategy
    BY Zenon DEF Signals!Evaluate
  <1> DEFINE s == IF structure.multiLeg THEN [structure EXCEPT !.premiums = Signals!Grow(@)]
                  ELSE structure
             prices == IF structure.multiLeg THEN readings ELSE Signals!Grow(readings)
             candles == IF m.closes = "runner" /\ ~structure.multiLeg THEN Signals!Grow(bars) ELSE bars
             series == IF structure.multiLeg THEN s.premiums ELSE prices
             asked == s.held \/ prices >= MinDataPoints
             ended == asked /\ candles = 0 /\ Signals!OwnEnds(s, m)
             decides == asked /\ Signals!Ready(series, candles, ended)
             signal == IF decides THEN Signals!Signal(s, m) ELSE "HOLD"
             mustLeave == Signals!Due(s, m, series)
             remembered == IF strategy = "rsi_reversal" /\ decides THEN Signals!Remember(s, m)
                           ELSE lastDirection
  <1>2. /\ readings' = prices
        /\ bars' = candles
        /\ own' \in {own, Signals!Grow(own)}
        /\ structure' \in Signals!After(s, signal)
        /\ lastDirection' = remembered
        /\ owed' = IF mustLeave /\ signal # "EXIT" THEN Signals!Grow(owed) ELSE 0
        /\ forgot' = (forgot /\ structure'.held)
        /\ strategy' = strategy
    BY <1>1, Zenon
  <1>3. /\ Signals!TypeOK /\ HistorySize \in Nat /\ Needs[strategy] \in Nat \ {0}
        /\ structure \in Signals!Structure /\ strategy \in Signals!Strategies
    BY SignalsAssumption DEF SignalsIInv, Signals!TypeOK
  <1>4. /\ s \in Signals!Structure
        /\ s.held = structure.held /\ s.direction = structure.direction
        /\ s.multiLeg = structure.multiLeg /\ s.known = structure.known
        /\ s.premiums = IF structure.multiLeg THEN Signals!Grow(structure.premiums)
                        ELSE structure.premiums
    <2>1. Signals!Grow(structure.premiums) \in 0..HistorySize
      BY <1>3, SignalsGrow DEF Signals!Structure
    <2> QED
      BY <1>3, <2>1 DEF Signals!Structure
  <1>5. prices \in 0..HistorySize /\ candles \in 0..HistorySize
    BY <1>3, SignalsGrow DEF Signals!TypeOK
  <1>6. signal \in Signals!Directions \cup {"HOLD", "EXIT"}
    BY <1>3, <1>4, SignalTypes
  <1>7. \/ structure' = s
        \/ structure' = Signals!Flat /\ (signal = "EXIT" \/ ~s.held)
        \/ signal \in Signals!Directions /\ ~s.held /\ structure' = Signals!Entered(signal)
    BY <1>2, <1>4, AfterCases
  <1>8. mustLeave => /\ s.held
               /\ \/ strategy = "short_straddle" /\ s.known /\ m.premium = "above"
                  \/ /\ strategy = "rsi_reversal" /\ Signals!Reverted(s.direction, m)
                     /\ series >= Needs[strategy]
    BY DEF Signals!Due, Signals!PremiumStop
  <1>9. decides = ((s.held \/ prices >= MinDataPoints) /\ Signals!Ready(series, candles, ended))
    OBVIOUS
  <1>10. series = IF structure.multiLeg THEN s.premiums ELSE prices
    OBVIOUS
  <1>11. signal = IF decides THEN Signals!Signal(s, m) ELSE "HOLD"
    OBVIOUS
  <1>12. remembered = IF strategy = "rsi_reversal" /\ decides THEN Signals!Remember(s, m)
                      ELSE lastDirection
    OBVIOUS
  <1> HIDE DEF s, prices, candles, series, asked, ended, decides, signal, mustLeave, remembered
  <1>13. /\ Signals!Flat \in Signals!Structure /\ ~Signals!Flat.held
         /\ Signals!Flat.premiums = 0 /\ Signals!Flat.direction = "BUY"
    BY <1>3 DEF Signals!Flat, Signals!Structure, Signals!Directions
  <1>14. ASSUME signal \in Signals!Directions
         PROVE  /\ Signals!Entered(signal) \in Signals!Structure
                /\ Signals!Entered(signal).direction = signal
                /\ Signals!Entered(signal).premiums = 0
                /\ Signals!Entered(signal).multiLeg = (strategy \in {"short_straddle", "iron_fly"})
    BY <1>3, <1>14 DEF Signals!Entered, Signals!Structure, Signals!Directions
  <1>15. structure' \in Signals!Structure
    BY <1>4, <1>7, <1>13, <1>14
  <1>16. owed' \in 0..HistorySize
    <2>1. owed \in 0..HistorySize
      BY <1>3 DEF Signals!TypeOK
    <2>2. Signals!Grow(owed) \in 0..HistorySize
      BY <2>1, <1>3, SignalsGrow
    <2> QED
      BY <1>2, <1>3, <2>2
  <1>17. lastDirection' \in Signals!Directions \cup {"none"}
    <2>1. Signals!Extreme(m) \in Signals!Directions \cup {"none"}
      BY DEF Signals!Extreme, Signals!Directions
    <2> QED
      BY <1>2, <1>3, <1>12, <2>1 DEF Signals!Remember, Signals!TypeOK
  <1>18. Signals!TypeOK'
    <2>1. forgot' \in BOOLEAN
      BY <1>2, <1>3, <1>15 DEF Signals!TypeOK, Signals!Structure
    <2>2. own' \in 0..HistorySize
      BY <1>2, <1>3, SignalsGrow DEF Signals!TypeOK
    <2> QED
      BY <1>2, <1>3, <1>5, <1>15, <1>16, <1>17, <2>1, <2>2 DEF Signals!TypeOK
  <1>19. DebtsOK'
    <2>1. ~structure'.held => owed' = 0
      BY <1>2, <1>7, <1>8
    <2>2. strategy \notin {"short_straddle", "rsi_reversal"} => owed' = 0
      BY <1>2, <1>8
    <2> QED
      BY <1>2, <2>1, <2>2 DEF DebtsOK
  <1>20. StraddleOK'
    <2> SUFFICES ASSUME strategy = "short_straddle"
                 PROVE  /\ structure'.held => structure'.multiLeg
                        /\ owed' <= structure'.premiums
                        /\ owed' < Needs[strategy]
      BY <1>2 DEF StraddleOK
    <2>1. structure.held => structure.multiLeg
      BY DEF SignalsIInv, StraddleOK
    <2>2. structure'.held => structure'.multiLeg
      BY <1>4, <1>7, <1>13, <1>14, <2>1
    <2>3. CASE owed' = 0
      <3>1. structure'.premiums \in Nat
        BY <1>3, <1>15 DEF Signals!Structure
      <3> QED
        BY <1>3, <2>2, <2>3, <3>1
    <2>4. CASE owed' # 0
      <3>1. mustLeave /\ signal # "EXIT" /\ owed' = Signals!Grow(owed)
        BY <1>2, <2>4
      <3>2. s.held /\ s.known /\ m.premium = "above"
        BY <1>8, <3>1
      <3>3. structure' = s
        BY <1>7, <3>1, <3>2
      <3>4. series = s.premiums /\ s.premiums = Signals!Grow(structure.premiums)
        BY <1>4, <1>10, <2>1, <3>2
      <3>5. ~decides
        <4>1. Signals!Signal(s, m) = "EXIT"
          BY <3>2 DEF Signals!Signal, Signals!ShortStraddle, Signals!PremiumStop
        <4> QED
          BY <1>11, <3>1, <4>1
      <3>6. ~(s.premiums >= Needs[strategy])
        BY <1>9, <3>2, <3>4, <3>5 DEF Signals!Ready
      <3>7. owed <= structure.premiums
        BY DEF SignalsIInv, StraddleOK
      <3>8. owed \in 0..HistorySize /\ structure.premiums \in 0..HistorySize
        BY <1>3 DEF Signals!TypeOK, Signals!Structure
      <3>9. Signals!Grow(owed) <= Signals!Grow(structure.premiums)
        BY <1>3, <3>7, <3>8, SignalsGrow
      <3>10. Signals!Grow(owed) \in Nat /\ Signals!Grow(structure.premiums) \in Nat
        BY <1>3, <3>8 DEF Signals!Grow
      <3>11. owed' <= structure'.premiums
        BY <3>1, <3>3, <3>4, <3>9
      <3>12. owed' < Needs[strategy]
        BY <1>3, <3>1, <3>4, <3>6, <3>9, <3>10
      <3> QED
        BY <2>2, <3>11, <3>12
    <2> QED
      BY <2>3, <2>4
  <1>21. ReversalOK'
    <2> SUFFICES ASSUME strategy = "rsi_reversal", structure'.held, ~Mistaken'
                 PROVE  /\ owed' = 0
                        /\ lastDirection' = "SELL" <=> structure'.direction = "SELL"
      BY <1>2 DEF ReversalOK
    <2>1. CASE structure' = s
      <3>1. s.held
        BY <2>1
      <3>2. lastDirection' = lastDirection
        BY <1>2, <1>12, <3>1 DEF Signals!Remember
      <3>3. ~Mistaken
        BY <1>2, <1>4, <2>1 DEF Mistaken
      <3>4. lastDirection = "SELL" <=> s.direction = "SELL"
        BY <1>4, <3>1, <3>3 DEF SignalsIInv, ReversalOK
      <3>5. owed' = 0
        <4> SUFFICES ASSUME mustLeave, signal # "EXIT" PROVE FALSE
          BY <1>2
        <4>1. series >= Needs[strategy] /\ Signals!Reverted(s.direction, m)
          BY <1>8
        <4>2. Signals!Reverted(lastDirection, m)
          BY <3>4, <4>1 DEF Signals!Reverted
        <4>3. decides
          BY <1>9, <3>1, <4>1 DEF Signals!Ready
        <4>4. Signals!Signal(s, m) = "EXIT"
          BY <3>1, <4>2 DEF Signals!Signal, Signals!RSIReversal
        <4> QED
          BY <1>11, <4>3, <4>4
      <3> QED
        BY <2>1, <3>2, <3>4, <3>5
    <2>2. CASE signal \in Signals!Directions /\ ~s.held /\ structure' = Signals!Entered(signal)
      <3>1. decides /\ signal = Signals!Offered(Signals!Extreme(m))
        BY <1>11, <2>2 DEF Signals!Signal, Signals!RSIReversal, Signals!Directions
      <3>2. Signals!Extreme(m) = signal
        BY <2>2, <3>1 DEF Signals!Offered, Signals!Extreme, Signals!Directions
      <3>3. lastDirection' = signal
        BY <1>2, <1>12, <2>2, <3>1, <3>2 DEF Signals!Remember
      <3>4. owed' = 0
        BY <1>2, <1>8, <2>2
      <3> QED
        BY <1>14, <2>2, <3>3, <3>4
    <2> QED
      BY <1>7, <1>13, <2>1, <2>2
  <1> QED
    BY <1>18, <1>19, <1>20, <1>21 DEF SignalsIInv

\* A structure closed elsewhere preserves the invariant.
LEMMA ClosedElsewhereIInv ==
    ASSUME SignalsIInv, Signals!ClosedElsewhere
    PROVE  SignalsIInv'
  <1>1. Signals!Flat \in Signals!Structure /\ ~Signals!Flat.held /\ Signals!Flat.premiums = 0
    BY SignalsAssumption DEF Signals!Flat, Signals!Structure, Signals!Directions
  <1>2. /\ structure' = Signals!Flat /\ owed' = 0 /\ forgot' = FALSE
        /\ strategy' = strategy /\ readings' = readings /\ bars' = bars
        /\ own' = own
        /\ lastDirection' = lastDirection
    BY DEF Signals!ClosedElsewhere
  <1>3. Signals!TypeOK'
    <2>1. forgot' \in BOOLEAN
      BY <1>2
    <2>2. owed' \in 0..HistorySize
      BY <1>2, SignalsAssumption
    <2>3. structure' \in Signals!Structure
      BY <1>1, <1>2
    <2> QED
      BY <1>2, <2>1, <2>2, <2>3 DEF SignalsIInv, Signals!TypeOK
  <1>4. Needs[strategy] \in Nat \ {0}
    BY SignalsAssumption DEF SignalsIInv, Signals!TypeOK
  <1>5. DebtsOK' /\ StraddleOK' /\ ReversalOK'
    BY <1>1, <1>2, <1>4 DEF DebtsOK, StraddleOK, ReversalOK
  <1> QED
    BY <1>3, <1>5 DEF SignalsIInv

\* A restart preserves the invariant.
LEMMA RestartIInv ==
    ASSUME SignalsIInv, Signals!Restart
    PROVE  SignalsIInv'
  <1>1. Signals!Flat \in Signals!Structure /\ ~Signals!Flat.held /\ Signals!Flat.premiums = 0
    BY SignalsAssumption DEF Signals!Flat, Signals!Structure, Signals!Directions
  <1>2. /\ readings' = 0 /\ bars' = 0 /\ own' = 0 /\ lastDirection' = "none" /\ owed' = 0
        /\ forgot' = structure.held /\ strategy' = strategy
    BY DEF Signals!Restart
  <1>3. structure \in Signals!Structure /\ HistorySize \in Nat
    BY SignalsAssumption DEF SignalsIInv, Signals!TypeOK
  <1>4. /\ structure' \in Signals!Structure /\ structure'.held = structure.held
        /\ structure'.held => /\ structure'.multiLeg
                              /\ structure'.direction = structure.direction
    <2>1. CASE ~structure.held
      BY <1>1, <1>3, <2>1 DEF Signals!Restart, Signals!Flat, Signals!Structure
    <2>2. CASE structure.held
      <3>1. PICK k \in {structure.known, FALSE} :
              structure' = [structure EXCEPT !.multiLeg = TRUE, !.premiums = 0, !.known = k]
        BY <2>2 DEF Signals!Restart
      <3>2. k \in BOOLEAN /\ 0 \in 0..HistorySize
        <4>1. structure.known \in BOOLEAN
          BY <1>3 DEF Signals!Structure
        <4>2. k \in BOOLEAN
          BY <4>1
        <4>3. 0 \in 0..HistorySize
          BY <1>3
        <4> QED
          BY <4>2, <4>3
      <3>3. structure' \in Signals!Structure
        BY <1>3, <3>1, <3>2 DEF Signals!Structure
      <3>4. /\ structure'.held = structure.held /\ structure'.multiLeg = TRUE
            /\ structure'.direction = structure.direction
        BY <1>3, <3>1 DEF Signals!Structure
      <3> QED
        BY <3>3, <3>4
    <2> QED
      BY <2>1, <2>2
  <1>5. Signals!TypeOK'
    BY <1>2, <1>3, <1>4 DEF SignalsIInv, Signals!TypeOK, Signals!Structure
  <1>6. Needs[strategy] \in Nat \ {0} /\ structure'.premiums \in Nat
    BY <1>3, <1>4, SignalsAssumption DEF SignalsIInv, Signals!TypeOK, Signals!Structure
  <1>7. DebtsOK' /\ StraddleOK'
    BY <1>2, <1>4, <1>6 DEF DebtsOK, StraddleOK
  <1>8. ReversalOK'
    BY <1>2, <1>4 DEF ReversalOK, Mistaken
  <1> QED
    BY <1>5, <1>7, <1>8 DEF SignalsIInv

\* Every step preserves the invariant.
LEMMA SignalsNext == SignalsIInv /\ [Signals!Next]_(Signals!evaluationVars) => SignalsIInv'
  <1> SUFFICES ASSUME SignalsIInv, [Signals!Next]_(Signals!evaluationVars) PROVE SignalsIInv'
    OBVIOUS
  <1>1. CASE UNCHANGED Signals!evaluationVars
    BY <1>1 DEF Signals!evaluationVars, SignalsIInv, Signals!TypeOK, DebtsOK, StraddleOK,
       ReversalOK, Mistaken
  <1>2. CASE Signals!Evaluate
    BY <1>2, EvaluateIInv
  <1>3. CASE Signals!ClosedElsewhere
    BY <1>3, ClosedElsewhereIInv
  <1>4. CASE Signals!Restart
    BY <1>4, RestartIInv
  <1> QED
    BY <1>1, <1>2, <1>3, <1>4 DEF Signals!Next

\* The invariant implies the property.
LEMMA SignalsTimely == SignalsIInv => ExitsAreTimely
  <1> SUFFICES ASSUME SignalsIInv, ~(strategy = "rsi_reversal" /\ Mistaken)
               PROVE  owed < Needs[strategy]
    BY DEF ExitsAreTimely, Signals!ExitsAreTimely, Mistaken
  <1>1. Needs[strategy] \in Nat \ {0}
    BY SignalsAssumption DEF SignalsIInv, Signals!TypeOK
  <1>2. CASE strategy = "short_straddle"
    BY <1>2 DEF SignalsIInv, StraddleOK
  <1>3. CASE strategy = "rsi_reversal"
    BY <1>1, <1>3 DEF SignalsIInv, ReversalOK, DebtsOK
  <1>4. CASE strategy \notin {"short_straddle", "rsi_reversal"}
    BY <1>1, <1>4 DEF SignalsIInv, DebtsOK
  <1> QED
    BY <1>2, <1>3, <1>4

-----------------------------------------------------------------------------
\* Type correctness: every variable keeps its type, however short or long the
\* histories are.
THEOREM SignalsTyped == Signals!Spec => []Signals!TypeOK
  <1>1. Signals!Init => SignalsIInv
    BY SignalsInit
  <1>2. SignalsIInv /\ [Signals!Next]_(Signals!evaluationVars) => SignalsIInv'
    BY SignalsNext
  <1>3. SignalsIInv => Signals!TypeOK
    BY DEF SignalsIInv
  <1> QED
    BY <1>1, <1>2, <1>3, PTL DEF Signals!Spec

\* A position is left when its own rules say so (evaluateSymbol with each
\* strategy's GenerateSignal): a premium stop is never overdue by as many
\* evaluations as the strategy needs premiums, and a reversal never, but for a
\* short one that a restart made the strategy forget.
THEOREM Timely == Signals!Spec => []ExitsAreTimely
  <1>1. Signals!Init => SignalsIInv
    BY SignalsInit
  <1>2. SignalsIInv /\ [Signals!Next]_(Signals!evaluationVars) => SignalsIInv'
    BY SignalsNext
  <1>3. SignalsIInv => ExitsAreTimely
    BY SignalsTimely DEF ExitsAreTimely
  <1> QED
    BY <1>1, <1>2, <1>3, PTL DEF Signals!Spec

-----------------------------------------------------------------------------
(***************************************************************************)
(* Proofs about ControlServer, for any number of apps, operators and       *)
(* connections.  CapHolds is not inductive: an app past the check is not   *)
(* registered yet.  Of those that were alone when they passed it there is  *)
(* one at most, and room for it (EnteringOK).                              *)
(***************************************************************************)
Admitted == wsClients \ raced
Entering == {a \in Apps : conn[a].handler = "checked"} \ raced

ServerTypes ==
    /\ wsClients \subseteq Apps
    /\ conn \in [Apps -> Server!Conns]
    /\ command \in [Operators -> Server!Commands]

EnteringOK ==
    /\ \A a, b \in Entering : a = b
    /\ Entering # {} => Cardinality(Admitted) < MaxConns

ServerIInv == ServerTypes /\ EnteringOK /\ Cardinality(Admitted) <= MaxConns

-----------------------------------------------------------------------------
\* The instance counts as the library does.
LEMMA ServerCardinality == ASSUME NEW S PROVE Server!Cardinality(S) = Cardinality(S)
  BY DEF Server!Cardinality, Cardinality

\* What is left of a buffer is one.
LEMMA TailIsSeq == ASSUME NEW S, NEW s \in Seq(S), s # <<>> PROVE Tail(s) \in Seq(S)
  OBVIOUS

\* It is one shorter.
LEMMA ShorterTail ==
    ASSUME NEW S, NEW s \in Seq(S), s # <<>>
    PROVE  Len(Tail(s)) = Len(s) - 1 /\ Len(s) \in Nat
  OBVIOUS

\* Fewer clients are no more in number.
LEMMA FewerClients ==
    ASSUME NEW C \in SUBSET Apps, NEW D \in SUBSET C
    PROVE  /\ Cardinality(D) <= Cardinality(C)
           /\ Cardinality(C) \in Nat /\ Cardinality(D) \in Nat
  <1>1. IsFiniteSet(C)
    BY FS_Subset, ServerAssumption
  <1>2. IsFiniteSet(D) /\ Cardinality(D) <= Cardinality(C)
    BY <1>1, FS_Subset
  <1> QED
    BY <1>1, <1>2, FS_CardinalityType

\* A step that lets nobody in and registers nobody.
LEMMA NobodyEnters ==
    ASSUME ServerIInv, ServerTypes', Entering' \subseteq Entering, Admitted' \subseteq Admitted
    PROVE  ServerIInv'
  <1> PICK C : C = Admitted
    OBVIOUS
  <1> PICK D : D = Admitted'
    OBVIOUS
  <1>1. Cardinality(D) <= Cardinality(C) /\ Cardinality(C) \in Nat /\ Cardinality(D) \in Nat
    <2>1. C \in SUBSET Apps /\ D \in SUBSET C
      BY DEF ServerIInv, ServerTypes, Admitted
    <2> QED
      BY <2>1, FewerClients
  <1>2. Cardinality(C) <= MaxConns /\ (Entering # {} => Cardinality(C) < MaxConns)
    BY DEF ServerIInv, EnteringOK
  <1>3. Cardinality(D) <= MaxConns /\ (Entering' # {} => Cardinality(D) < MaxConns)
    BY <1>1, <1>2, ServerAssumption
  <1>4. \A a, b \in Entering' : a = b
    BY DEF ServerIInv, EnteringOK
  <1> QED
    BY <1>3, <1>4 DEF ServerIInv, EnteringOK

\* A step that changes one connection, lets nobody in and registers nobody.
LEMMA OneConnection ==
    ASSUME ServerIInv, NEW a \in Apps, NEW r \in Server!Conns,
           conn' = [conn EXCEPT ![a] = r],
           r.handler = "checked" => conn[a].handler = "checked",
           wsClients' \subseteq wsClients, raced' = raced,
           command' \in [Operators -> Server!Commands]
    PROVE  ServerIInv'
  <1>1. conn' \in [Apps -> Server!Conns] /\ conn'[a] = r
        /\ \A b \in Apps \ {a} : conn'[b] = conn[b]
    BY DEF ServerIInv, ServerTypes
  <1>2. Entering' \subseteq Entering
    BY <1>1 DEF Entering
  <1>3. Admitted' \subseteq Admitted
    BY DEF Admitted
  <1>4. ServerTypes'
    BY <1>1 DEF ServerIInv, ServerTypes
  <1> QED
    BY <1>2, <1>3, <1>4, NobodyEnters

\* A message is queued, or its client dropped: the connection stays one.
LEMMA OfferKeeps ==
    ASSUME ServerIInv, NEW a \in Apps, NEW msg \in BOOLEAN,
           NEW sent \in {"none", "checked", "serving", "beating", "ended"},
           NEW refused \in {"none", "checked", "serving", "beating", "ended"},
           "checked" \in {sent, refused} => conn[a].handler = "checked",
           Server!Offer(a, msg, sent, refused), raced' = raced,
           command' \in [Operators -> Server!Commands]
    PROVE  ServerIInv'
  <1> PICK c : c = conn[a]
    OBVIOUS
  <1>1. c \in Server!Conns /\ conn \in [Apps -> Server!Conns]
    BY DEF ServerIInv, ServerTypes
  <1>2. CASE Server!Takes(a)
    <2> PICK q : q = Append(c.send, msg)
      OBVIOUS
    <2> DEFINE r == [c EXCEPT !.send = q, !.handler = sent]
    <2>1. r \in Server!Conns /\ r.handler = sent
      <3>1. c.send \in Seq(BOOLEAN)
        BY <1>1 DEF Server!Conns
      <3>2. q \in Seq(BOOLEAN)
        BY <3>1
      <3> QED
        BY <1>1, <3>2 DEF Server!Conns
    <2>2. conn' = [conn EXCEPT ![a] = r] /\ UNCHANGED wsClients
      BY <1>1, <1>2 DEF Server!Offer, Server!Queued
    <2> HIDE DEF r
    <2> QED
      BY <2>1, <2>2, OneConnection
  <1>3. CASE ~Server!Takes(a)
    <2> DEFINE r == [c EXCEPT !.closed = TRUE, !.handler = refused]
    <2>1. r \in Server!Conns /\ r.handler = refused
      BY <1>1 DEF Server!Conns
    <2>2. conn' = [conn EXCEPT ![a] = r] /\ wsClients' = wsClients \ {a}
      BY <1>1, <1>3 DEF Server!Offer
    <2> HIDE DEF r
    <2> QED
      BY <2>1, <2>2, OneConnection
  <1> QED
    BY <1>2, <1>3

-----------------------------------------------------------------------------
\* The initial states satisfy the invariant.
LEMMA ServerInit == Server!Init => ServerIInv
  <1> SUFFICES ASSUME Server!Init PROVE ServerIInv
    OBVIOUS
  <1>1. Server!NoConn \in Server!Conns /\ Server!NoConn.handler = "none"
    BY DEF Server!NoConn, Server!Conns
  <1>2. Server!NoCommand \in Server!Commands
    BY DEF Server!NoCommand, Server!Commands
  <1>3. ServerTypes
    BY <1>1, <1>2 DEF Server!Init, ServerTypes
  <1>4. Entering = {} /\ Admitted = {}
    BY <1>1 DEF Server!Init, Entering, Admitted
  <1>5. Cardinality(Admitted) = 0
    BY <1>4, FS_EmptySet
  <1> QED
    BY <1>3, <1>4, <1>5, ServerAssumption DEF ServerIInv, EnteringOK

\* The check of the cap (handleWebSocket) preserves the invariant: whoever
\* passes it alone finds room for one.
LEMMA CheckCapKeeps ==
    ASSUME ServerIInv, NEW a \in Apps, Server!CheckCap(a)
    PROVE  ServerIInv'
  <1> PICK c : c = conn[a]
    OBVIOUS
  <1>1. c \in Server!Conns /\ conn \in [Apps -> Server!Conns]
    BY DEF ServerIInv, ServerTypes
  <1> DEFINE r == [c EXCEPT !.handler = IF Server!BelowCap THEN "checked" ELSE "ended"]
  <1>2. r \in Server!Conns /\ r.handler = IF Server!BelowCap THEN "checked" ELSE "ended"
    BY <1>1 DEF Server!Conns
  <1>3. conn' = [conn EXCEPT ![a] = r] /\ UNCHANGED <<wsClients, command>>
    BY <1>1 DEF Server!CheckCap, Server!restVars
  <1> HIDE DEF r
  <1>4. conn'[a] = r /\ \A b \in Apps \ {a} : conn'[b] = conn[b]
    BY <1>1, <1>3
  <1>5. ServerTypes'
    BY <1>1, <1>2, <1>3 DEF ServerIInv, ServerTypes
  <1>6. CASE \E b \in Apps : conn[b].handler = "checked"
    <2>1. raced' = raced \cup {a}
      BY <1>6 DEF Server!CheckCap
    <2>2. Entering' \subseteq Entering /\ Admitted' \subseteq Admitted
      BY <1>3, <1>4, <2>1 DEF Entering, Admitted
    <2> QED
      BY <1>5, <2>2, NobodyEnters
  <1>7. CASE ~\E b \in Apps : conn[b].handler = "checked"
    <2>1. raced' = raced
      BY <1>7 DEF Server!CheckCap
    <2>2. Admitted' = Admitted
      BY <1>3, <2>1 DEF Admitted
    <2>3. Entering' \subseteq {a}
      BY <1>4, <1>7 DEF Entering
    <2>4. ASSUME Entering' # {} PROVE Cardinality(Admitted) < MaxConns
      <3>1. Server!BelowCap
        BY <1>2, <1>4, <2>3, <2>4 DEF Entering
      <3>2. Cardinality(wsClients) < MaxConns
        BY <3>1, ServerCardinality DEF Server!BelowCap
      <3> PICK C : C = wsClients
        OBVIOUS
      <3> PICK D : D = Admitted
        OBVIOUS
      <3>3. C \in SUBSET Apps /\ D \in SUBSET C
        BY DEF ServerIInv, ServerTypes, Admitted
      <3>4. Cardinality(D) <= Cardinality(C) /\ Cardinality(C) \in Nat /\ Cardinality(D) \in Nat
        BY <3>3, FewerClients
      <3> QED
        BY <3>2, <3>4, ServerAssumption
    <2> QED
      BY <1>5, <2>2, <2>3, <2>4 DEF ServerIInv, EnteringOK
  <1> QED
    BY <1>6, <1>7

\* So does the registration, which uses the room up.
LEMMA UpgradeKeeps ==
    ASSUME ServerIInv, NEW a \in Apps, Server!Upgrade(a)
    PROVE  ServerIInv'
  <1> DEFINE r == [Server!NoConn EXCEPT !.handler = "serving", !.writer = TRUE,
                                        !.reader = TRUE, !.socket = "up"]
  <1>1. r \in Server!Conns /\ r.handler = "serving"
    <2> PICK n : n = Server!NoConn
      OBVIOUS
    <2>1. n \in Server!Conns
      BY DEF Server!Conns, Server!NoConn
    <2>2. [n EXCEPT !.handler = "serving", !.writer = TRUE, !.reader = TRUE,
                    !.socket = "up"] \in Server!Conns
      BY <2>1 DEF Server!Conns
    <2> QED
      BY <2>1, <2>2 DEF Server!Conns
  <1>2. /\ conn' = [conn EXCEPT ![a] = r] /\ wsClients' = wsClients \cup {a}
        /\ raced' = raced /\ command' = command /\ conn[a].handler = "checked"
    BY DEF Server!Upgrade, Server!restVars
  <1> HIDE DEF r
  <1>3. conn \in [Apps -> Server!Conns]
    BY DEF ServerIInv, ServerTypes
  <1>4. conn'[a] = r /\ \A b \in Apps \ {a} : conn'[b] = conn[b]
    BY <1>2, <1>3
  <1>5. ServerTypes'
    BY <1>1, <1>2, <1>3 DEF ServerIInv, ServerTypes
  <1>6. Entering' = Entering \ {a}
    BY <1>1, <1>2, <1>4 DEF Entering
  <1>7. CASE a \in raced
    BY <1>2, <1>5, <1>6, <1>7, NobodyEnters DEF Admitted
  <1>8. CASE a \notin raced
    <2>1. a \in Entering
      BY <1>2, <1>8 DEF Entering
    <2>2. Entering' = {} /\ Cardinality(Admitted) < MaxConns
      BY <1>6, <2>1 DEF ServerIInv, EnteringOK
    <2>3. Admitted' = Admitted \cup {a}
      BY <1>2, <1>8 DEF Admitted
    <2> PICK C : C = Admitted
      OBVIOUS
    <2>4. C \in SUBSET Apps /\ IsFiniteSet(C)
      BY FS_Subset, ServerAssumption DEF ServerIInv, ServerTypes, Admitted
    <2>5. Cardinality(C) \in Nat
      BY <2>4, FS_CardinalityType
    <2>6. Cardinality(C \cup {a}) = IF a \in C THEN Cardinality(C) ELSE Cardinality(C) + 1
      BY <2>4, FS_AddElement
    <2>7. Cardinality(C \cup {a}) <= MaxConns
      BY <2>2, <2>5, <2>6, ServerAssumption
    <2> QED
      BY <1>5, <2>2, <2>3, <2>7 DEF ServerIInv, EnteringOK
  <1> QED
    BY <1>7, <1>8

\* So do the rest of a connection's handler, its two pumps and the network.
LEMMA ConnectionKeeps ==
    ASSUME ServerIInv, NEW a \in Apps,
           \/ Server!UpgradeFails(a) \/ Server!Beat(a) \/ Server!HandlerEnds(a)
           \/ Server!Writer(a) \/ Server!ReaderEnds(a) \/ Server!SocketFails(a)
    PROVE  ServerIInv'
  <1> PICK c : c = conn[a]
    OBVIOUS
  <1>1. c \in Server!Conns /\ conn \in [Apps -> Server!Conns]
        /\ command \in [Operators -> Server!Commands]
    BY DEF ServerIInv, ServerTypes
  <1>2. wsClients' \subseteq wsClients /\ raced' = raced
        /\ command' \in [Operators -> Server!Commands]
    BY <1>1 DEF Server!UpgradeFails, Server!Beat, Server!HandlerEnds, Server!Writer, Server!Write,
       Server!WriterEnds, Server!ReaderEnds, Server!SocketFails, Server!restVars
  <1>3. SUFFICES \E r \in Server!Conns : /\ conn' = [conn EXCEPT ![a] = r]
                                         /\ r.handler = "checked" => conn[a].handler = "checked"
    BY <1>2, OneConnection
  <1>4. CASE Server!UpgradeFails(a) \/ Server!HandlerEnds(a)
    <2> DEFINE r == [c EXCEPT !.handler = "ended"]
    <2>1. r \in Server!Conns /\ r.handler = "ended"
      BY <1>1 DEF Server!Conns
    <2>2. conn' = [conn EXCEPT ![a] = r]
      BY <1>1, <1>4 DEF Server!UpgradeFails, Server!HandlerEnds
    <2> QED
      BY <2>1, <2>2
  <1>5. CASE Server!Beat(a)
    <2>1. PICK b : b = ~paused
      OBVIOUS
    <2>2. b \in BOOLEAN
      BY <2>1
    <2> DEFINE r == [c EXCEPT !.handler = "beating", !.beat = b]
    <2>3. r \in Server!Conns /\ r.handler = "beating"
      BY <1>1, <2>2 DEF Server!Conns
    <2>4. conn' = [conn EXCEPT ![a] = r]
      BY <1>1, <1>5, <2>1 DEF Server!Beat
    <2> QED
      BY <2>3, <2>4
  <1>6. CASE Server!Write(a)
    <2>1. CASE c.socket = "up"
      <3>1. PICK q : q = Tail(c.send)
        OBVIOUS
      <3> DEFINE r == [c EXCEPT !.send = q]
      <3>2. c.send \in Seq(BOOLEAN) /\ c.send # <<>>
        BY <1>1, <1>6 DEF Server!Write, Server!Conns
      <3>3. Tail(c.send) \in Seq(BOOLEAN)
        BY <3>2, TailIsSeq
      <3>4. r \in Server!Conns /\ r.handler = c.handler
        BY <1>1, <3>1, <3>3 DEF Server!Conns
      <3>5. conn' = [conn EXCEPT ![a] = r]
        BY <1>1, <1>6, <2>1, <3>1 DEF Server!Write
      <3> HIDE DEF r
      <3> QED
        BY <3>4, <3>5
    <2>2. CASE c.socket # "up"
      <3> DEFINE r == [c EXCEPT !.closed = TRUE, !.writer = FALSE, !.socket = "closed"]
      <3>1. r \in Server!Conns /\ r.handler = c.handler
        BY <1>1 DEF Server!Conns
      <3>2. conn' = [conn EXCEPT ![a] = r]
        BY <1>1, <1>6, <2>2 DEF Server!Write
      <3> HIDE DEF r
      <3> QED
        BY <3>1, <3>2
    <2> QED
      BY <2>1, <2>2
  <1>7. CASE Server!WriterEnds(a)
    <2> DEFINE r == [c EXCEPT !.writer = FALSE, !.socket = "closed"]
    <2>1. r \in Server!Conns /\ r.handler = c.handler
      BY <1>1 DEF Server!Conns
    <2>2. conn' = [conn EXCEPT ![a] = r]
      BY <1>1, <1>7 DEF Server!WriterEnds
    <2> HIDE DEF r
    <2> QED
      BY <2>1, <2>2
  <1>8. CASE Server!ReaderEnds(a)
    <2> DEFINE r == [c EXCEPT !.reader = FALSE, !.closed = TRUE]
    <2>1. r \in Server!Conns /\ r.handler = c.handler
      BY <1>1 DEF Server!Conns
    <2>2. conn' = [conn EXCEPT ![a] = r]
      BY <1>1, <1>8 DEF Server!ReaderEnds
    <2> HIDE DEF r
    <2> QED
      BY <2>1, <2>2
  <1>9. CASE Server!SocketFails(a)
    <2>1. PICK how \in {"stuck", "broken"} : conn' = [conn EXCEPT ![a].socket = how]
      BY <1>9 DEF Server!SocketFails
    <2> DEFINE r == [c EXCEPT !.socket = how]
    <2>2. r \in Server!Conns /\ r.handler = c.handler
      BY <1>1 DEF Server!Conns
    <2>3. conn' = [conn EXCEPT ![a] = r]
      BY <1>1, <2>1
    <2> HIDE DEF r
    <2> QED
      BY <2>2, <2>3
  <1> QED
    BY <1>4, <1>5, <1>6, <1>7, <1>8, <1>9 DEF Server!Writer

\* So does everything an operator's request does.
LEMMA OperatorKeeps ==
    ASSUME ServerIInv, NEW o \in Operators,
           \/ Server!Resume(o) \/ Server!Pause(o) \/ Server!KillAndFlatten(o)
           \/ Server!Operator(o)
    PROVE  ServerIInv'
  <1>1. command \in [Operators -> Server!Commands] /\ wsClients \subseteq Apps
        /\ conn \in [Apps -> Server!Conns]
    BY DEF ServerIInv, ServerTypes
  <1> PICK c : c = command[o]
    OBVIOUS
  <1>2. c \in Server!Commands /\ Server!NoCommand \in Server!Commands
    BY <1>1 DEF Server!NoCommand, Server!Commands
  <1>3. CASE \/ Server!Resume(o) \/ Server!Pause(o) \/ Server!KillAndFlatten(o)
             \/ Server!Cache(o) \/ Server!Broadcast(o) \/ Server!Told(o)
    <2>1. UNCHANGED <<wsClients, conn, raced>>
      BY <1>3 DEF Server!Resume, Server!Pause, Server!KillAndFlatten, Server!Cache,
         Server!Broadcast, Server!Told, Server!clientVars
    <2>2. command' \in [Operators -> Server!Commands]
      <3>1. /\ [Server!NoCommand EXCEPT !.at = "hooked"] \in Server!Commands
            /\ [Server!NoCommand EXCEPT !.at = "hooked", !.running = TRUE] \in Server!Commands
            /\ [c EXCEPT !.at = "cached"] \in Server!Commands
            /\ [c EXCEPT !.at = "telling", !.to = wsClients] \in Server!Commands
        BY <1>1, <1>2 DEF Server!Commands
      <3>2. \/ command' = [command EXCEPT ![o] = [Server!NoCommand EXCEPT !.at = "hooked"]]
            \/ command' = [command EXCEPT ![o] = [Server!NoCommand EXCEPT !.at = "hooked",
                                                                          !.running = TRUE]]
            \/ command' = [command EXCEPT ![o] = [c EXCEPT !.at = "cached"]]
            \/ command' = [command EXCEPT ![o] = [c EXCEPT !.at = "telling", !.to = wsClients]]
            \/ command' = [command EXCEPT ![o] = Server!NoCommand]
        BY <1>1, <1>3 DEF Server!Resume, Server!Pause, Server!KillAndFlatten, Server!Cache,
           Server!Broadcast, Server!Told
      <3> QED
        BY <1>1, <1>2, <3>1, <3>2
    <2>3. Entering' = Entering /\ Admitted' = Admitted
      BY <2>1 DEF Entering, Admitted
    <2>4. ServerTypes'
      BY <1>1, <2>1, <2>2 DEF ServerTypes
    <2> QED
      BY <2>3, <2>4, NobodyEnters
  <1>4. CASE Server!Tell(o)
    <2>1. PICK a \in c.to : /\ Server!Offer(a, c.running, conn[a].handler, conn[a].handler)
                            /\ command' = [command EXCEPT ![o].to = @ \ {a}]
      BY <1>4 DEF Server!Tell
    <2>2. a \in Apps /\ c.running \in BOOLEAN
      BY <1>2, <2>1 DEF Server!Commands
    <2>3. conn[a].handler \in {"none", "checked", "serving", "beating", "ended"}
      BY <1>1, <2>2 DEF Server!Conns
    <2>4. [c EXCEPT !.to = @ \ {a}] \in Server!Commands
      BY <1>2 DEF Server!Commands
    <2>5. command' = [command EXCEPT ![o] = [c EXCEPT !.to = @ \ {a}]]
      BY <1>1, <2>1
    <2>6. command' \in [Operators -> Server!Commands] /\ raced' = raced
      BY <1>1, <1>4, <2>4, <2>5 DEF Server!Tell
    <2>7. PICK place : place = conn[a].handler
      OBVIOUS
    <2>8. PICK msg : msg = c.running
      OBVIOUS
    <2> QED
      BY <2>1, <2>2, <2>3, <2>6, <2>7, <2>8, OfferKeeps
  <1> QED
    BY <1>3, <1>4 DEF Server!Operator

\* Every step preserves the invariant.
LEMMA ServerNext == ServerIInv /\ [Server!Next]_(Server!serverVars) => ServerIInv'
  <1> SUFFICES ASSUME ServerIInv, [Server!Next]_(Server!serverVars) PROVE ServerIInv'
    OBVIOUS
  <1>1. ASSUME NEW a \in Apps, Server!CheckCap(a) PROVE ServerIInv'
    BY <1>1, CheckCapKeeps
  <1>2. ASSUME NEW a \in Apps, Server!Upgrade(a) PROVE ServerIInv'
    BY <1>2, UpgradeKeeps
  <1>3. ASSUME NEW a \in Apps, Server!SendBeat(a) PROVE ServerIInv'
    <2>1. /\ Server!Offer(a, conn[a].beat, "serving", "ended") /\ raced' = raced /\ command' = command
      BY <1>3 DEF Server!SendBeat, Server!restVars
    <2>2. PICK msg : msg = conn[a].beat
      OBVIOUS
    <2>3. msg \in BOOLEAN /\ command \in [Operators -> Server!Commands]
      BY <2>2 DEF ServerIInv, ServerTypes, Server!Conns
    <2> QED
      BY <2>1, <2>2, <2>3, OfferKeeps
  <1>4. ASSUME NEW a \in Apps,
               \/ Server!UpgradeFails(a) \/ Server!Beat(a) \/ Server!HandlerEnds(a)
               \/ Server!Writer(a) \/ Server!ReaderEnds(a) \/ Server!SocketFails(a)
        PROVE  ServerIInv'
    BY <1>4, ConnectionKeeps
  <1>5. ASSUME NEW o \in Operators,
               \/ Server!Resume(o) \/ Server!Pause(o) \/ Server!KillAndFlatten(o)
               \/ Server!Operator(o)
        PROVE  ServerIInv'
    BY <1>5, OperatorKeeps
  <1>6. CASE UNCHANGED Server!serverVars
    <2>1. Entering' = Entering /\ Admitted' = Admitted /\ ServerTypes'
      BY <1>6 DEF Server!serverVars, Entering, Admitted, ServerIInv, ServerTypes
    <2> QED
      BY <2>1, NobodyEnters
  <1> QED
    BY <1>1, <1>2, <1>3, <1>4, <1>5, <1>6 DEF Server!Next, Server!Handler

-----------------------------------------------------------------------------
\* No more apps are connected than wsMaxConns, but for those let in while
\* another was between the check and its registration (handleWebSocket checks
\* under the lock, upgrades without it and registers under it again).
THEOREM CapKept == Server!Spec => []CapHolds
  <1>1. Server!Init => ServerIInv
    BY ServerInit
  <1>2. ServerIInv /\ [Server!Next]_(Server!serverVars) => ServerIInv'
    BY ServerNext
  <1>3. ServerIInv => CapHolds
    BY ServerCardinality DEF ServerIInv, Admitted, CapHolds, Server!CapHolds
  <1> QED
    BY <1>1, <1>2, <1>3, PTL DEF Server!Spec

-----------------------------------------------------------------------------
(***************************************************************************)
(* What a client leaves.  A connection is upgraded once it has a socket.   *)
(* Its writer is the one that closes the socket, its reader ends with the  *)
(* socket and closes the client, and its handler ends with the client and  *)
(* takes it off wsClients: LeavingOK says how far they have got.           *)
(***************************************************************************)
Upgraded(a) == conn[a].socket # "none"
Attended(a) == conn[a].handler \in {"serving", "beating"}

LeavingOK(a) ==
    /\ Attended(a) => Upgraded(a)
    /\ conn[a].handler \in {"none", "checked"} => ~Upgraded(a)
    /\ ~Upgraded(a) => ~conn[a].writer /\ ~conn[a].reader /\ ~conn[a].closed
    /\ Upgraded(a) /\ ~conn[a].writer => conn[a].closed /\ conn[a].socket = "closed"
    /\ Upgraded(a) /\ ~conn[a].reader => conn[a].closed
    /\ Upgraded(a) /\ ~Attended(a) => conn[a].closed
    /\ a \in wsClients => Attended(a)
    /\ Attended(a) => a \in wsClients \/ conn[a].closed
    /\ Len(conn[a].send) <= BufferSize

ToldOK == \A o \in Operators : \A a \in command[o].to : Upgraded(a)

\* What the cap does not depend on.
RestOK ==
    /\ paused \in BOOLEAN /\ running \in BOOLEAN
    /\ view \in [Apps -> {"none", "running", "stopped"}]
    /\ commands \in 0..MaxCommands
    /\ failures \in 0..MaxFailures
    /\ raced \subseteq Apps

LeavingIInv == ServerTypes /\ (\A a \in Apps : LeavingOK(a)) /\ ToldOK /\ RestOK

\* A goroutine of a's connection can go on.
GoesOn(a) ==
    \/ Attended(a)
    \/ conn[a].writer /\ conn[a].closed
    \/ conn[a].reader /\ conn[a].socket \in {"broken", "closed"}

(***************************************************************************)
(* Broadcasts go to attended clients and miss none that is still open, and *)
(* a connection's goroutines never wait for each other: once it is made,   *)
(* one of them goes on until all have ended and the socket is closed.      *)
(***************************************************************************)
NothingIsLeft ==
    \A a \in Apps : /\ a \in wsClients => Attended(a)
                    /\ Attended(a) => a \in wsClients \/ conn[a].closed
                    /\ Upgraded(a) => Server!Gone(a) \/ GoesOn(a)

-----------------------------------------------------------------------------
\* A step of one connection, which never loses its socket, and of the requests,
\* which do not tell anybody else.
LEMMA OneLeaves ==
    ASSUME LeavingIInv, NEW a \in Apps, NEW r \in Server!Conns,
           conn' = [conn EXCEPT ![a] = r],
           Upgraded(a) => r.socket # "none",
           LeavingOK(a)',
           wsClients' \subseteq Apps, wsClients' \ {a} = wsClients \ {a},
           command' \in [Operators -> Server!Commands],
           \A o \in Operators : command'[o].to \subseteq command[o].to,
           RestOK'
    PROVE  LeavingIInv'
  <1>1. conn' \in [Apps -> Server!Conns] /\ conn'[a] = r
        /\ \A b \in Apps \ {a} : conn'[b] = conn[b]
    BY DEF LeavingIInv, ServerTypes
  <1>2. ASSUME NEW b \in Apps \ {a} PROVE LeavingOK(b)'
    BY <1>1 DEF LeavingIInv, LeavingOK, Upgraded, Attended
  <1>3. ToldOK'
    <2> SUFFICES ASSUME NEW o \in Operators, NEW b \in command'[o].to PROVE Upgraded(b)'
      BY DEF ToldOK
    <2>1. b \in command[o].to /\ Upgraded(b) /\ b \in Apps
      BY DEF LeavingIInv, ToldOK, ServerTypes, Server!Commands
    <2> QED
      BY <1>1, <2>1 DEF Upgraded
  <1> QED
    BY <1>1, <1>2, <1>3 DEF LeavingIInv, ServerTypes

\* A message is queued or its client dropped, and its handler goes on, or ends
\* if the client was dropped.
LEMMA OfferLeaves ==
    ASSUME LeavingIInv, NEW a \in Apps, NEW msg \in BOOLEAN, Upgraded(a),
           NEW sent, NEW refused,
           Server!Offer(a, msg, sent, refused),
           \/ sent = conn[a].handler /\ refused = conn[a].handler
           \/ Attended(a) /\ sent = "serving" /\ refused = "ended",
           command' \in [Operators -> Server!Commands],
           \A o \in Operators : command'[o].to \subseteq command[o].to,
           RestOK'
    PROVE  LeavingIInv'
  <1> PICK c : c = conn[a]
    OBVIOUS
  <1>1. c \in Server!Conns /\ conn \in [Apps -> Server!Conns] /\ wsClients \subseteq Apps
        /\ LeavingOK(a)
    BY DEF LeavingIInv, ServerTypes
  <1>2. CASE Server!Takes(a)
    <2> PICK q : q = Append(c.send, msg)
      OBVIOUS
    <2>1. q \in Seq(BOOLEAN) /\ Len(q) <= BufferSize
      <3>1. c.send \in Seq(BOOLEAN) /\ Len(c.send) < BufferSize
        BY <1>1, <1>2 DEF Server!Conns, Server!Takes
      <3> QED
        BY <3>1, ServerAssumption
    <2> DEFINE r == [c EXCEPT !.send = q, !.handler = sent]
    <2>2. /\ r \in Server!Conns /\ r.handler = sent /\ r.send = q
          /\ r.closed = c.closed /\ r.writer = c.writer /\ r.reader = c.reader
          /\ r.socket = c.socket
      BY <1>1, <2>1 DEF Server!Conns, Attended
    <2>3. conn' = [conn EXCEPT ![a] = r] /\ wsClients' = wsClients
      BY <1>1, <1>2 DEF Server!Offer, Server!Queued
    <2> HIDE DEF r
    <2>4. conn'[a] = r
      BY <1>1, <2>3
    <2>5. LeavingOK(a)'
      BY <1>1, <2>1, <2>2, <2>3, <2>4 DEF LeavingOK, Upgraded, Attended
    <2> QED
      BY <1>1, <2>2, <2>3, <2>5, OneLeaves DEF Upgraded
  <1>3. CASE ~Server!Takes(a)
    <2> DEFINE r == [c EXCEPT !.closed = TRUE, !.handler = refused]
    <2>1. /\ r \in Server!Conns /\ r.handler = refused /\ r.closed = TRUE
          /\ r.send = c.send /\ r.writer = c.writer /\ r.reader = c.reader /\ r.socket = c.socket
      BY <1>1 DEF Server!Conns, Attended
    <2>2. conn' = [conn EXCEPT ![a] = r] /\ wsClients' = wsClients \ {a}
      BY <1>1, <1>3 DEF Server!Offer
    <2> HIDE DEF r
    <2>3. conn'[a] = r /\ a \notin wsClients'
      BY <1>1, <2>2
    <2>4. LeavingOK(a)'
      BY <1>1, <2>1, <2>3 DEF LeavingOK, Upgraded, Attended
    <2> QED
      BY <1>1, <2>1, <2>2, <2>4, OneLeaves DEF Upgraded
  <1> QED
    BY <1>2, <1>3

\* The initial states satisfy the invariant.
LEMMA LeavingInit == Server!Init => LeavingIInv
  <1> SUFFICES ASSUME Server!Init PROVE LeavingIInv
    OBVIOUS
  <1>1. ServerTypes
    BY ServerInit DEF ServerIInv
  <1>2. /\ conn = [a \in Apps |-> Server!NoConn] /\ wsClients = {}
        /\ Server!NoConn.handler = "none" /\ Server!NoConn.socket = "none"
        /\ Server!NoConn.writer = FALSE /\ Server!NoConn.reader = FALSE
        /\ Server!NoConn.closed = FALSE /\ Server!NoConn.send = <<>>
    BY DEF Server!Init, Server!NoConn
  <1>3. ASSUME NEW a \in Apps PROVE LeavingOK(a)
    <2>1. conn[a] = Server!NoConn /\ Len(conn[a].send) = 0
      BY <1>2
    <2> QED
      BY <1>2, <2>1, ServerAssumption DEF LeavingOK, Upgraded, Attended
  <1>4. ToldOK
    BY DEF Server!Init, Server!NoCommand, ToldOK
  <1>5. RestOK
    <2>1. commands = 0 /\ failures = 0 /\ raced = {} /\ view = [a \in Apps |-> "none"]
      BY DEF Server!Init
    <2>2. paused \in BOOLEAN /\ running \in BOOLEAN
      BY DEF Server!Init
    <2> QED
      BY <2>1, <2>2, ServerAssumption DEF RestOK
  <1> QED
    BY <1>1, <1>3, <1>4, <1>5 DEF LeavingIInv

\* Coming in, and a beat that is read.
LEMMA EnteringLeaves ==
    ASSUME LeavingIInv, NEW a \in Apps,
           \/ Server!CheckCap(a) \/ Server!Upgrade(a) \/ Server!UpgradeFails(a) \/ Server!Beat(a)
    PROVE  LeavingIInv'
  <1> PICK c : c = conn[a]
    OBVIOUS
  <1>1. /\ c \in Server!Conns /\ conn \in [Apps -> Server!Conns] /\ wsClients \subseteq Apps
        /\ LeavingOK(a) /\ command \in [Operators -> Server!Commands]
    BY DEF LeavingIInv, ServerTypes
  <1>2. command' = command
    BY DEF Server!CheckCap, Server!Upgrade, Server!UpgradeFails, Server!Beat, Server!restVars
  <1>3. RestOK'
    <2>1. /\ UNCHANGED <<paused, running, commands, view>>
          /\ raced' \in {raced, raced \cup {a}}
          /\ failures' = failures \/ (failures < MaxFailures /\ failures' = failures + 1)
      BY DEF Server!CheckCap, Server!Upgrade, Server!UpgradeFails, Server!Beat, Server!restVars,
         Server!Failure
    <2>2. failures' \in 0..MaxFailures
      BY <2>1, ServerAssumption DEF LeavingIInv, RestOK
    <2> QED
      BY <2>1, <2>2 DEF LeavingIInv, RestOK
  <1>4. SUFFICES \E r \in Server!Conns :
                    /\ conn' = [conn EXCEPT ![a] = r]
                    /\ Upgraded(a) => r.socket # "none"
                    /\ wsClients' \subseteq Apps /\ wsClients' \ {a} = wsClients \ {a}
                    /\ LeavingOK(a)'
    BY <1>1, <1>2, <1>3, OneLeaves
  <1>5. CASE Server!CheckCap(a) \/ Server!UpgradeFails(a)
    <2> PICK h \in {"checked", "ended"} : conn' = [conn EXCEPT ![a].handler = h]
      BY <1>5 DEF Server!CheckCap, Server!UpgradeFails
    <2> DEFINE r == [c EXCEPT !.handler = h]
    <2>1. /\ r \in Server!Conns /\ r.handler = h /\ r.closed = c.closed /\ r.send = c.send
          /\ r.writer = c.writer /\ r.reader = c.reader /\ r.socket = c.socket
      BY <1>1 DEF Server!Conns
    <2>2. conn' = [conn EXCEPT ![a] = r] /\ wsClients' = wsClients /\ c.handler \in {"none", "checked"}
      BY <1>1, <1>5 DEF Server!CheckCap, Server!UpgradeFails
    <2> HIDE DEF r
    <2>3. conn'[a] = r
      BY <1>1, <2>2
    <2>4. LeavingOK(a)'
      BY <1>1, <2>1, <2>2, <2>3 DEF LeavingOK, Upgraded, Attended
    <2> QED
      BY <1>1, <2>1, <2>2, <2>4 DEF Upgraded
  <1>6. CASE Server!Upgrade(a)
    <2> DEFINE r == [Server!NoConn EXCEPT !.handler = "serving", !.writer = TRUE,
                                          !.reader = TRUE, !.socket = "up"]
    <2> PICK n : n = Server!NoConn
      OBVIOUS
    <2>1. n \in Server!Conns /\ n.closed = FALSE /\ n.send = <<>>
      BY DEF Server!Conns, Server!NoConn
    <2>2. /\ r \in Server!Conns /\ r.handler = "serving" /\ r.closed = FALSE /\ r.send = <<>>
          /\ r.writer = TRUE /\ r.reader = TRUE /\ r.socket = "up"
      BY <2>1 DEF Server!Conns
    <2>3. conn' = [conn EXCEPT ![a] = r] /\ wsClients' = wsClients \cup {a}
      BY <1>6 DEF Server!Upgrade
    <2> HIDE DEF r
    <2>4. conn'[a] = r /\ Len(r.send) = 0
      BY <1>1, <2>2, <2>3
    <2>5. LeavingOK(a)'
      BY <2>2, <2>3, <2>4, ServerAssumption DEF LeavingOK, Upgraded, Attended
    <2> QED
      BY <1>1, <2>2, <2>3, <2>5
  <1>7. CASE Server!Beat(a)
    <2> PICK b : b = ~paused
      OBVIOUS
    <2> DEFINE r == [c EXCEPT !.handler = "beating", !.beat = b]
    <2>1. /\ r \in Server!Conns /\ r.handler = "beating" /\ r.closed = c.closed /\ r.send = c.send
          /\ r.writer = c.writer /\ r.reader = c.reader /\ r.socket = c.socket
      BY <1>1 DEF Server!Conns
    <2>2. conn' = [conn EXCEPT ![a] = r] /\ wsClients' = wsClients /\ c.handler = "serving"
      BY <1>1, <1>7 DEF Server!Beat
    <2> HIDE DEF r
    <2>3. conn'[a] = r
      BY <1>1, <2>2
    <2>4. LeavingOK(a)'
      BY <1>1, <2>1, <2>2, <2>3 DEF LeavingOK, Upgraded, Attended
    <2> QED
      BY <1>1, <2>1, <2>2, <2>4 DEF Upgraded
  <1> QED
    BY <1>5, <1>6, <1>7

\* The pumps, the network and the handler's end.
LEMMA PumpsLeave ==
    ASSUME LeavingIInv, NEW a \in Apps,
           \/ Server!Writer(a) \/ Server!ReaderEnds(a) \/ Server!SocketFails(a)
           \/ Server!HandlerEnds(a)
    PROVE  LeavingIInv'
  <1> PICK c : c = conn[a]
    OBVIOUS
  <1>1. /\ c \in Server!Conns /\ conn \in [Apps -> Server!Conns] /\ wsClients \subseteq Apps
        /\ LeavingOK(a) /\ command \in [Operators -> Server!Commands]
    BY DEF LeavingIInv, ServerTypes
  <1>2. command' = command
    BY DEF Server!Writer, Server!Write, Server!WriterEnds, Server!ReaderEnds, Server!SocketFails,
       Server!HandlerEnds, Server!restVars
  <1>3. RestOK'
    <2>1. /\ UNCHANGED <<paused, running, commands, raced>>
          /\ view' = view \/ \E v \in {"running", "stopped"} : view' = [view EXCEPT ![a] = v]
          /\ failures' = failures \/ (failures < MaxFailures /\ failures' = failures + 1)
      BY DEF Server!Writer, Server!Write, Server!WriterEnds, Server!ReaderEnds,
         Server!SocketFails, Server!HandlerEnds, Server!restVars, Server!Failure
    <2>2. failures' \in 0..MaxFailures
      BY <2>1, ServerAssumption DEF LeavingIInv, RestOK
    <2>3. view' \in [Apps -> {"none", "running", "stopped"}]
      BY <2>1 DEF LeavingIInv, RestOK
    <2> QED
      BY <2>1, <2>2, <2>3 DEF LeavingIInv, RestOK
  <1>4. SUFFICES \E r \in Server!Conns :
                    /\ conn' = [conn EXCEPT ![a] = r]
                    /\ Upgraded(a) => r.socket # "none"
                    /\ wsClients' \subseteq Apps /\ wsClients' \ {a} = wsClients \ {a}
                    /\ LeavingOK(a)'
    BY <1>1, <1>2, <1>3, OneLeaves
  <1>5. CASE Server!Write(a) /\ c.socket = "up"
    <2> PICK q : q = Tail(c.send)
      OBVIOUS
    <2>1. q \in Seq(BOOLEAN) /\ Len(q) <= BufferSize
      <3>1. c.send \in Seq(BOOLEAN) /\ c.send # <<>> /\ Len(c.send) <= BufferSize
        BY <1>1, <1>5 DEF Server!Write, Server!Conns, LeavingOK
      <3>2. Tail(c.send) \in Seq(BOOLEAN)
        BY <3>1, TailIsSeq
      <3>3. Len(Tail(c.send)) = Len(c.send) - 1 /\ Len(c.send) \in Nat
        BY <3>1, ShorterTail
      <3> QED
        BY <3>1, <3>2, <3>3, ServerAssumption
    <2> DEFINE r == [c EXCEPT !.send = q]
    <2>2. /\ r \in Server!Conns /\ r.handler = c.handler /\ r.closed = c.closed /\ r.send = q
          /\ r.writer = c.writer /\ r.reader = c.reader /\ r.socket = c.socket
      BY <1>1, <2>1 DEF Server!Conns
    <2>3. conn' = [conn EXCEPT ![a] = r] /\ wsClients' = wsClients
      BY <1>1, <1>5 DEF Server!Write
    <2> HIDE DEF r
    <2>4. conn'[a] = r
      BY <1>1, <2>3
    <2>5. LeavingOK(a)'
      BY <1>1, <2>1, <2>2, <2>3, <2>4 DEF LeavingOK, Upgraded, Attended
    <2> QED
      BY <1>1, <2>2, <2>3, <2>5 DEF Upgraded
  <1>6. CASE (Server!Write(a) /\ c.socket # "up") \/ Server!WriterEnds(a)
    <2> DEFINE r == [c EXCEPT !.closed = TRUE, !.writer = FALSE, !.socket = "closed"]
    <2>1. /\ r \in Server!Conns /\ r.handler = c.handler /\ r.closed = TRUE /\ r.send = c.send
          /\ r.writer = FALSE /\ r.reader = c.reader /\ r.socket = "closed"
      BY <1>1 DEF Server!Conns
    <2>2. conn' = [conn EXCEPT ![a] = r] /\ wsClients' = wsClients /\ c.writer
      <3>1. CASE Server!Write(a) /\ c.socket # "up"
        BY <1>1, <3>1 DEF Server!Write
      <3>2. CASE Server!WriterEnds(a)
        <4>1. conn' = [conn EXCEPT ![a] = [c EXCEPT !.writer = FALSE, !.socket = "closed"]]
              /\ wsClients' = wsClients /\ c.writer /\ c.closed = TRUE
          BY <1>1, <3>2 DEF Server!WriterEnds, Server!Conns
        <4>2. [c EXCEPT !.writer = FALSE, !.socket = "closed"] = r
          BY <1>1, <4>1 DEF Server!Conns
        <4> QED
          BY <4>1, <4>2
      <3> QED
        BY <1>6, <3>1, <3>2
    <2> HIDE DEF r
    <2>3. conn'[a] = r
      BY <1>1, <2>2
    <2>4. LeavingOK(a)'
      BY <1>1, <2>1, <2>2, <2>3 DEF LeavingOK, Upgraded, Attended
    <2> QED
      BY <1>1, <2>1, <2>2, <2>4 DEF Upgraded
  <1>7. CASE Server!ReaderEnds(a)
    <2> DEFINE r == [c EXCEPT !.reader = FALSE, !.closed = TRUE]
    <2>1. /\ r \in Server!Conns /\ r.handler = c.handler /\ r.closed = TRUE /\ r.send = c.send
          /\ r.writer = c.writer /\ r.reader = FALSE /\ r.socket = c.socket
      BY <1>1 DEF Server!Conns
    <2>2. conn' = [conn EXCEPT ![a] = r] /\ wsClients' = wsClients /\ c.reader
      BY <1>1, <1>7 DEF Server!ReaderEnds
    <2> HIDE DEF r
    <2>3. conn'[a] = r
      BY <1>1, <2>2
    <2>4. LeavingOK(a)'
      BY <1>1, <2>1, <2>2, <2>3 DEF LeavingOK, Upgraded, Attended
    <2> QED
      BY <1>1, <2>1, <2>2, <2>4 DEF Upgraded
  <1>8. CASE Server!SocketFails(a)
    <2> PICK how \in {"stuck", "broken"} : conn' = [conn EXCEPT ![a].socket = how]
      BY <1>8 DEF Server!SocketFails
    <2> DEFINE r == [c EXCEPT !.socket = how]
    <2>1. /\ r \in Server!Conns /\ r.handler = c.handler /\ r.closed = c.closed /\ r.send = c.send
          /\ r.writer = c.writer /\ r.reader = c.reader /\ r.socket = how
      BY <1>1 DEF Server!Conns
    <2>2. conn' = [conn EXCEPT ![a] = r] /\ wsClients' = wsClients /\ c.socket = "up"
      BY <1>1, <1>8 DEF Server!SocketFails
    <2> HIDE DEF r
    <2>3. conn'[a] = r
      BY <1>1, <2>2
    <2>4. LeavingOK(a)'
      BY <1>1, <2>1, <2>2, <2>3 DEF LeavingOK, Upgraded, Attended
    <2> QED
      BY <1>1, <2>1, <2>2, <2>4 DEF Upgraded
  <1>9. CASE Server!HandlerEnds(a)
    <2> DEFINE r == [c EXCEPT !.handler = "ended"]
    <2>1. /\ r \in Server!Conns /\ r.handler = "ended" /\ r.closed = c.closed /\ r.send = c.send
          /\ r.writer = c.writer /\ r.reader = c.reader /\ r.socket = c.socket
      BY <1>1 DEF Server!Conns
    <2>2. conn' = [conn EXCEPT ![a] = r] /\ wsClients' = wsClients \ {a} /\ c.handler = "serving"
          /\ c.closed
      BY <1>1, <1>9 DEF Server!HandlerEnds
    <2> HIDE DEF r
    <2>3. conn'[a] = r /\ a \notin wsClients'
      BY <1>1, <2>2
    <2>4. LeavingOK(a)'
      BY <1>1, <2>1, <2>2, <2>3 DEF LeavingOK, Upgraded, Attended
    <2> QED
      BY <1>1, <2>1, <2>2, <2>4 DEF Upgraded
  <1> QED
    BY <1>5, <1>6, <1>7, <1>8, <1>9 DEF Server!Writer

\* The requests.
LEMMA OperatorLeaves ==
    ASSUME LeavingIInv, NEW o \in Operators,
           \/ Server!Resume(o) \/ Server!Pause(o) \/ Server!KillAndFlatten(o)
           \/ Server!Cache(o) \/ Server!Broadcast(o) \/ Server!Told(o)
    PROVE  LeavingIInv'
  <1> PICK c : c = command[o]
    OBVIOUS
  <1>1. /\ command \in [Operators -> Server!Commands] /\ c \in Server!Commands
        /\ wsClients \subseteq Apps /\ conn \in [Apps -> Server!Conns]
    BY DEF LeavingIInv, ServerTypes
  <1>2. UNCHANGED <<wsClients, conn, view, failures, raced>>
    BY DEF Server!Resume, Server!Pause, Server!KillAndFlatten, Server!Cache, Server!Broadcast,
       Server!Told, Server!clientVars
  <1>3. PICK r \in Server!Commands : /\ command' = [command EXCEPT ![o] = r]
                                     /\ r.to \subseteq c.to \cup wsClients
    <2>1. /\ [Server!NoCommand EXCEPT !.at = "hooked"] \in Server!Commands
          /\ [Server!NoCommand EXCEPT !.at = "hooked", !.running = TRUE] \in Server!Commands
          /\ [c EXCEPT !.at = "cached"] \in Server!Commands
          /\ [c EXCEPT !.at = "telling", !.to = wsClients] \in Server!Commands
          /\ Server!NoCommand \in Server!Commands
          /\ [Server!NoCommand EXCEPT !.at = "hooked"].to = {}
          /\ [Server!NoCommand EXCEPT !.at = "hooked", !.running = TRUE].to = {}
          /\ [c EXCEPT !.at = "cached"].to = c.to
          /\ [c EXCEPT !.at = "telling", !.to = wsClients].to = wsClients
          /\ Server!NoCommand.to = {}
      BY <1>1 DEF Server!Commands, Server!NoCommand
    <2>2. \/ command' = [command EXCEPT ![o] = [Server!NoCommand EXCEPT !.at = "hooked"]]
          \/ command' = [command EXCEPT ![o] = [Server!NoCommand EXCEPT !.at = "hooked",
                                                                        !.running = TRUE]]
          \/ command' = [command EXCEPT ![o] = [c EXCEPT !.at = "cached"]]
          \/ command' = [command EXCEPT ![o] = [c EXCEPT !.at = "telling", !.to = wsClients]]
          \/ command' = [command EXCEPT ![o] = Server!NoCommand]
      BY <1>1 DEF Server!Resume, Server!Pause, Server!KillAndFlatten, Server!Cache,
         Server!Broadcast, Server!Told
    <2> QED
      BY <2>1, <2>2
  <1>4. command' \in [Operators -> Server!Commands] /\ command'[o] = r
        /\ \A p \in Operators \ {o} : command'[p] = command[p]
    BY <1>1, <1>3
  <1>5. RestOK'
    <2>1. /\ paused' \in {paused, TRUE, FALSE} /\ running' \in {running, c.running}
          /\ commands' = commands \/ (commands < MaxCommands /\ commands' = commands + 1)
      BY DEF Server!Resume, Server!Pause, Server!KillAndFlatten, Server!Cache, Server!Broadcast,
         Server!Told, Server!Call
    <2>2. commands' \in 0..MaxCommands
      BY <2>1, ServerAssumption DEF LeavingIInv, RestOK
    <2>3. paused' \in BOOLEAN
      BY <2>1 DEF LeavingIInv, RestOK
    <2>4. running' \in BOOLEAN
      BY <1>1, <2>1 DEF LeavingIInv, RestOK, Server!Commands
    <2> QED
      BY <1>2, <2>2, <2>3, <2>4 DEF LeavingIInv, RestOK
  <1>6. ToldOK'
    <2> SUFFICES ASSUME NEW p \in Operators, NEW a \in command'[p].to PROVE Upgraded(a)
      BY <1>2 DEF ToldOK, Upgraded
    <2>1. CASE a \in wsClients
      BY <1>1, <2>1 DEF LeavingIInv, LeavingOK
    <2>2. CASE a \notin wsClients
      BY <1>3, <1>4, <2>2 DEF LeavingIInv, ToldOK
    <2> QED
      BY <2>1, <2>2
  <1>7. \A a \in Apps : LeavingOK(a)'
    BY <1>2 DEF LeavingIInv, LeavingOK, Upgraded, Attended
  <1> QED
    BY <1>1, <1>2, <1>4, <1>5, <1>6, <1>7 DEF LeavingIInv, ServerTypes

\* Messages: a beat, and a broadcast to one client.
LEMMA MessageLeaves ==
    ASSUME LeavingIInv,
           (\E a \in Apps : Server!SendBeat(a)) \/ (\E o \in Operators : Server!Tell(o))
    PROVE  LeavingIInv'
  <1>1. conn \in [Apps -> Server!Conns] /\ command \in [Operators -> Server!Commands] /\ RestOK
    BY DEF LeavingIInv, ServerTypes
  <1>2. ASSUME NEW a \in Apps, Server!SendBeat(a) PROVE LeavingIInv'
    <2>1. /\ Server!Offer(a, conn[a].beat, "serving", "ended") /\ conn[a].handler = "beating"
          /\ command' = command /\ UNCHANGED <<paused, running, commands, view, failures, raced>>
      BY <1>2 DEF Server!SendBeat, Server!restVars
    <2>2. RestOK'
      BY <1>1, <2>1 DEF RestOK
    <2>3. Attended(a) /\ Upgraded(a)
      BY <2>1 DEF LeavingIInv, LeavingOK, Attended
    <2> PICK msg : msg = conn[a].beat
      OBVIOUS
    <2>4. msg \in BOOLEAN
      BY <1>1 DEF Server!Conns
    <2> QED
      BY <1>1, <2>1, <2>2, <2>3, <2>4, OfferLeaves
  <1>3. ASSUME NEW o \in Operators, Server!Tell(o) PROVE LeavingIInv'
    <2> PICK c : c = command[o]
      OBVIOUS
    <2>1. PICK a \in c.to : /\ Server!Offer(a, c.running, conn[a].handler, conn[a].handler)
                            /\ command' = [command EXCEPT ![o].to = @ \ {a}]
      BY <1>3 DEF Server!Tell
    <2>2. UNCHANGED <<paused, running, commands, view, failures, raced>>
      BY <1>3 DEF Server!Tell
    <2>3. RestOK'
      BY <1>1, <2>2 DEF RestOK
    <2>4. a \in Apps /\ c.running \in BOOLEAN /\ c \in Server!Commands /\ Upgraded(a)
      BY <1>1, <2>1 DEF Server!Commands, LeavingIInv, ToldOK
    <2>5. /\ [c EXCEPT !.to = @ \ {a}] \in Server!Commands
          /\ [c EXCEPT !.to = @ \ {a}].to \subseteq c.to
      BY <2>4 DEF Server!Commands
    <2>6. command' = [command EXCEPT ![o] = [c EXCEPT !.to = @ \ {a}]]
      BY <1>1, <2>1
    <2>7. /\ command' \in [Operators -> Server!Commands]
          /\ \A p \in Operators : command'[p].to \subseteq command[p].to
      BY <1>1, <2>5, <2>6
    <2> PICK msg : msg = c.running
      OBVIOUS
    <2> PICK place : place = conn[a].handler
      OBVIOUS
    <2> QED
      BY <2>1, <2>3, <2>4, <2>7, OfferLeaves
  <1> QED
    BY <1>2, <1>3

\* Every step preserves the invariant.
LEMMA LeavingNext == LeavingIInv /\ [Server!Next]_(Server!serverVars) => LeavingIInv'
  <1>1. ASSUME LeavingIInv, Server!Next PROVE LeavingIInv'
    BY <1>1, EnteringLeaves, PumpsLeave, OperatorLeaves, MessageLeaves
    DEF Server!Next, Server!Handler, Server!Operator
  <1>2. ASSUME LeavingIInv, UNCHANGED Server!serverVars PROVE LeavingIInv'
    BY <1>2 DEF Server!serverVars, LeavingIInv, LeavingOK, Upgraded, Attended, ServerTypes, ToldOK,
       RestOK
  <1> QED
    BY <1>1, <1>2

\* Every variable of the control server keeps its type.
THEOREM ServerTyped == Server!Spec => []Server!TypeOK
  <1>1. LeavingIInv => Server!TypeOK
    BY DEF LeavingIInv, LeavingOK, ServerTypes, RestOK, Server!TypeOK
  <1> QED
    BY <1>1, LeavingInit, LeavingNext, PTL DEF Server!Spec

(***************************************************************************)
(* The safety half of DeadClientsGo: no client is registered that nobody   *)
(* serves nor served that is not registered, and of a dead client's three  *)
(* goroutines none waits for another.                                      *)
(***************************************************************************)
THEOREM ClientsLeaveNothing == Server!Spec => []NothingIsLeft
  <1>1. ASSUME LeavingIInv PROVE NothingIsLeft
    <2> SUFFICES ASSUME NEW a \in Apps
                 PROVE  /\ a \in wsClients => Attended(a)
                        /\ Attended(a) => a \in wsClients \/ conn[a].closed
                        /\ Upgraded(a) => Server!Gone(a) \/ GoesOn(a)
      BY DEF NothingIsLeft
    <2>1. LeavingOK(a) /\ conn[a] \in Server!Conns
      BY <1>1 DEF LeavingIInv, ServerTypes
    <2> QED
      BY <2>1 DEF LeavingOK, Upgraded, Attended, GoesOn, Server!Gone, Server!Conns
  <1> QED
    BY <1>1, LeavingInit, LeavingNext, PTL DEF Server!Spec

-----------------------------------------------------------------------------
(***************************************************************************)
(* Proofs about Backtest, for any number of candles, any premiums and any  *)
(* charges.  DrawdownCovers is not inductive: while the loop runs, the     *)
(* peak has to cover every sum of trades that a close has already marked,  *)
(* and at most the last trade can be unmarked, with nothing open then.     *)
(***************************************************************************)
Trade == [opened : 1..Candles, closed : 1..Candles, forced : BOOLEAN, net : Int]

\* The sum of the first n trades of a sequence.
NetOf(ts) == [i \in 1..Len(ts) |-> ts[i].net]
SumOf(ts, n) == SumFunctionOnSet(NetOf(ts), 1..n)

TestTypes ==
    /\ candle \in MinHistory..Candles
    /\ position \in Test!Position
    /\ trades \in Seq(Trade)
    /\ realized \in Int
    /\ peakEquity \in Int
    /\ maxDD \in Int

\* Has a round of the loop marked the equity since trade i was closed?
MarkedAt(i) == i = 0 \/ trades[i].closed < candle

TradesOK ==
    /\ realized = SumOf(trades, Len(trades))
    /\ \A i \in 1..Len(trades) : trades[i].closed <= candle /\ ~trades[i].forced
    /\ \A i \in 1..Len(trades) : i < Len(trades) \/ position # Test!Flat => trades[i].closed < candle

MarksOK ==
    /\ \A i \in 0..Len(trades) : MarkedAt(i) => SumOf(trades, i) <= peakEquity
    /\ \A j \in 1..Len(trades) : MarkedAt(j) =>
           \A i \in 0..j : SumOf(trades, i) - SumOf(trades, j) <= maxDD

\* DrawdownCovers once the run has reported.
Covered ==
    \A j \in 1..Len(trades) : (trades[j].closed < Candles \/ trades[j].forced) =>
        \A i \in 0..j : SumOf(trades, i) - SumOf(trades, j) <= maxDD

TestIInv ==
    /\ verdict = "running" => TestTypes /\ TradesOK /\ MarksOK
    /\ verdict = "report" => Covered

-----------------------------------------------------------------------------
\* The instance adds up as the library does.
LEMMA TestTotal == ASSUME NEW n PROVE Test!Total(n) = SumOf(trades, n)
<1>1. Test!Net = NetOf(trades)
    BY DEF Test!Net, NetOf
<1> QED
    BY <1>1 DEF Test!Total, SumOf, Test!SumFunctionOnSet, SumFunctionOnSet,
        Test!FoldFunctionOnSet, FoldFunctionOnSet, Test!MapThenFoldSet, MapThenFoldSet

\* What a trade is made of.
LEMMA TradeTyped ==
    ASSUME NEW ts \in Seq(Trade), NEW i \in 1..Len(ts)
    PROVE  ts[i].closed \in 1..Candles /\ ts[i].net \in Int
<1>1. ts[i] \in Trade
    OBVIOUS
<1> QED
    BY <1>1 DEF Trade

\* Sums of results are integers.
LEMMA SumOfInt ==
    ASSUME NEW ts \in Seq(Trade), NEW n \in 0..Len(ts)
    PROVE  SumOf(ts, n) \in Int
<1>1. Len(ts) \in Nat
    OBVIOUS
<1>2. IsFiniteSet(1..n)
    BY <1>1, FS_Interval
<1>3. \A i \in 1..n : NetOf(ts)[i] \in Int
    BY <1>1, TradeTyped DEF NetOf
<1> HIDE DEF NetOf
<1> QED
    BY <1>2, <1>3, SumInt DEF SumOf

\* No trades, no result.
LEMMA SumOfNone == ASSUME NEW ts PROVE SumOf(ts, 0) = 0
<1>1. 1..0 = {}
    OBVIOUS
<1> QED
    BY <1>1, SumEmpty DEF SumOf

\* A new trade leaves the sums before it alone and adds its own result.
LEMMA SumOfAppend ==
    ASSUME NEW ts \in Seq(Trade), NEW t \in Trade
    PROVE  /\ \A n \in 0..Len(ts) : SumOf(Append(ts, t), n) = SumOf(ts, n)
           /\ SumOf(Append(ts, t), Len(ts) + 1) = SumOf(ts, Len(ts)) + t.net
<1>1. PICK us : us = Append(ts, t)
    OBVIOUS
<1>2. Len(ts) \in Nat /\ us \in Seq(Trade) /\ Len(us) = Len(ts) + 1
    BY <1>1
<1>3. \A i \in 1..Len(ts) : us[i] = ts[i]
    BY <1>1
<1>4. us[Len(ts) + 1] = t
    BY <1>1
<1>5. ASSUME NEW n \in 0..Len(ts)
      PROVE  SumOf(us, n) = SumOf(ts, n)
    <2>1. \A i \in 1..n : NetOf(us)[i] = NetOf(ts)[i]
        BY <1>2, <1>3 DEF NetOf
    <2>2. IsFiniteSet(1..n)
        BY <1>2, FS_Interval
    <2> HIDE DEF NetOf
    <2> QED
        BY <2>1, <2>2, SumSame DEF SumOf
<1>6. SumOf(us, Len(ts) + 1) = SumOf(us, Len(ts)) + t.net
    <2> DEFINE z == Len(ts) + 1
    <2>1. /\ IsFiniteSet(1..z)
          /\ z \in 1..z /\ (1..z) \ {z} = 1..Len(ts)
        <3>1. z \in Int
            BY <1>2
        <3>2. IsFiniteSet(1..z)
            BY <3>1, FS_Interval
        <3>3. z \in 1..z /\ (1..z) \ {z} = 1..Len(ts)
            BY <1>2
        <3> QED
            BY <3>2, <3>3
    <2>2. \A i \in 1..z : NetOf(us)[i] \in Int
        BY <1>2, TradeTyped DEF NetOf
    <2>3. NetOf(us)[z] = t.net
        BY <1>2, <1>4 DEF NetOf
    <2>4. SumOf(us, Len(ts)) \in Int /\ t.net \in Int
        <3>1. Len(ts) \in 0..Len(us)
            BY <1>2
        <3> QED
            BY <1>2, <3>1, SumOfInt DEF Trade
    <2> HIDE DEF NetOf, z
    <2>5. SumFunctionOnSet(NetOf(us), 1..z) = NetOf(us)[z] + SumFunctionOnSet(NetOf(us), (1..z) \ {z})
        BY <2>1, <2>2, SumRemove
    <2>6. SumOf(us, z) = t.net + SumOf(us, Len(ts))
        BY <2>1, <2>3, <2>5 DEF SumOf
    <2> QED
        BY <2>4, <2>6 DEF z
<1> QED
    BY <1>1, <1>5, <1>6

-----------------------------------------------------------------------------
\* A run begins with no trade and no peak but zero.
LEMMA TestInit == Test!Init => TestIInv
<1> SUFFICES ASSUME Test!Init PROVE TestIInv
    OBVIOUS
<1>1. TestTypes
    BY TestAssumption DEF Test!Init, TestTypes, Test!Position
<1>2. Len(trades) = 0 /\ SumOf(trades, 0) = 0 /\ peakEquity = 0 /\ verdict = "running"
    BY SumOfNone DEF Test!Init
<1>3. realized = 0 /\ candle \in Int
    BY <1>1, TestAssumption DEF Test!Init, TestTypes
<1>4. TradesOK
    BY <1>2, <1>3 DEF TradesOK
<1>5. MarksOK
    BY <1>2 DEF MarksOK, MarkedAt
<1> QED
    BY <1>1, <1>2, <1>4, <1>5 DEF TestIInv

\* A position's gain and the trade that ends it have their types.
LEMMA FillTyped ==
    ASSUME TestTypes, NEW premium \in Premiums
    PROVE  /\ position # Test!Flat => Test!Gain(position, premium) \in Int
           /\ \A at \in 1..Candles, forced \in BOOLEAN : position # Test!Flat =>
                  /\ Test!Close(position, at, premium, forced) \in Trade
                  /\ Test!Close(position, at, premium, forced).closed = at
                  /\ Test!Close(position, at, premium, forced).forced = forced
           /\ candle < Candles => \A kind \in Test!Kinds, side \in {"BUY", "SELL"} :
                  Test!Open(kind, side, premium) \in Test!Position
<1>1. premium \in Int /\ Slip \in Int /\ Charge \in Int /\ candle + 1 \in Int
    BY TestAssumption DEF TestTypes
<1>2. \A buying \in BOOLEAN : Test!Worse(premium, buying) \in Int
    BY <1>1 DEF Test!Worse
<1>3. ASSUME position # Test!Flat
      PROVE  /\ position.entry \in Int /\ position.opened \in 1..Candles
             /\ Test!Bought(position) \in BOOLEAN
    BY <1>3 DEF TestTypes, Test!Position, Test!Bought
<1>4. ASSUME position # Test!Flat, NEW price \in Int
      PROVE  Test!Gain(position, price) \in Int
    BY <1>3, <1>4 DEF Test!Gain
<1>5. ASSUME position # Test!Flat, NEW at \in 1..Candles, NEW forced \in BOOLEAN
      PROVE  /\ Test!Close(position, at, premium, forced) \in Trade
             /\ Test!Close(position, at, premium, forced).closed = at
             /\ Test!Close(position, at, premium, forced).forced = forced
    <2>1. PICK price : price = Test!Worse(premium, ~Test!Bought(position))
        OBVIOUS
    <2>2. price \in Int
        BY <2>1, <1>2, <1>3, <1>5
    <2>3. PICK gain : gain = Test!Gain(position, price)
        OBVIOUS
    <2>4. gain - 2 * Charge \in Int
        BY <2>3, <2>2, <1>4, <1>5, <1>1
    <2> QED
        BY <2>1, <2>3, <2>4, <1>3, <1>5 DEF Test!Close, Trade
<1>6. ASSUME candle < Candles, NEW kind \in Test!Kinds, NEW side \in {"BUY", "SELL"}
      PROVE  Test!Open(kind, side, premium) \in Test!Position
    <2> DEFINE pos == [kind |-> kind, side |-> side, opened |-> candle + 1, entry |-> 0]
    <2>1. candle + 1 \in 1..Candles
        BY <1>6, TestAssumption DEF TestTypes
    <2>2. Test!Bought(pos) \in BOOLEAN
        BY DEF Test!Bought
    <2>3. PICK price : price = Test!Worse(premium, Test!Bought(pos))
        OBVIOUS
    <2>4. price \in Int
        BY <2>2, <2>3, <1>2
    <2>5. Test!Open(kind, side, premium) =
              [kind |-> kind, side |-> side, opened |-> candle + 1, entry |-> price]
        BY <2>3 DEF Test!Open
    <2> QED
        BY <2>1, <2>4, <2>5, <1>6 DEF Test!Position, Test!Kinds
<1> QED
    BY <1>1, <1>4, <1>5, <1>6

\* The peak and the drawdown after a close has been marked.
LEMMA MarkCovers ==
    ASSUME TestTypes, NEW equity \in Int, Test!Mark(equity)
    PROVE  /\ peakEquity' \in Int /\ maxDD' \in Int
           /\ peakEquity <= peakEquity' /\ equity <= peakEquity'
           /\ maxDD <= maxDD' /\ peakEquity' - equity <= maxDD'
  BY DEF TestTypes, Test!Mark

\* Every sum is covered once the loop has marked a close with nothing open.
LEMMA EvaluateMarks ==
    ASSUME TestTypes, TradesOK, MarksOK, Test!Evaluate
    PROVE  /\ peakEquity' \in Int /\ maxDD' \in Int
           /\ \A i \in 0..Len(trades) : SumOf(trades, i) <= peakEquity'
           /\ \A j \in 1..Len(trades) : \A i \in 0..j :
                  SumOf(trades, i) - SumOf(trades, j) <= maxDD'
<1>1. PICK premium \in Premiums :
          Test!Mark(realized + IF position = Test!Flat THEN 0 ELSE Test!Gain(position, premium))
    BY DEF Test!Evaluate
<1>2. PICK equity :
          equity = realized + IF position = Test!Flat THEN 0 ELSE Test!Gain(position, premium)
    OBVIOUS
<1>3. equity \in Int /\ Test!Mark(equity)
    <2>1. realized \in Int /\ (position # Test!Flat => Test!Gain(position, premium) \in Int)
        BY FillTyped DEF TestTypes
    <2> QED
        BY <1>1, <1>2, <2>1
<1>4. /\ peakEquity' \in Int /\ maxDD' \in Int
      /\ peakEquity <= peakEquity' /\ equity <= peakEquity'
      /\ maxDD <= maxDD' /\ peakEquity' - equity <= maxDD'
    BY <1>3, MarkCovers
<1>5. Len(trades) \in Nat /\ trades \in Seq(Trade) /\ candle \in Int /\ peakEquity \in Int /\ maxDD \in Int
    BY TestAssumption DEF TestTypes
<1>6. \A i \in 0..Len(trades) : SumOf(trades, i) \in Int
    BY <1>5, SumOfInt
<1>7. \A i \in 0..Len(trades) :
          MarkedAt(i) \/ (i = Len(trades) /\ position = Test!Flat /\ SumOf(trades, i) = equity)
    <2>1. position = Test!Flat => equity = SumOf(trades, Len(trades))
        BY <1>2 DEF TradesOK, TestTypes
    <2> QED
        BY <2>1, <1>5 DEF TradesOK, MarkedAt
<1>8. \A i \in 0..Len(trades) : SumOf(trades, i) <= peakEquity'
    <2>1. \A i \in 0..Len(trades) : MarkedAt(i) => SumOf(trades, i) <= peakEquity
        BY DEF MarksOK
    <2> QED
        BY <2>1, <1>4, <1>5, <1>6, <1>7
<1>9. ASSUME NEW j \in 1..Len(trades), NEW i \in 0..j
      PROVE  SumOf(trades, i) - SumOf(trades, j) <= maxDD'
    <2>1. MarkedAt(j) => SumOf(trades, i) - SumOf(trades, j) <= maxDD
        BY <1>9 DEF MarksOK
    <2>2. i \in 0..Len(trades) /\ j \in 0..Len(trades)
        BY <1>5, <1>9
    <2>3. /\ SumOf(trades, i) \in Int /\ SumOf(trades, j) \in Int
          /\ SumOf(trades, i) <= peakEquity'
          /\ MarkedAt(j) \/ SumOf(trades, j) = equity
        BY <1>6, <1>7, <1>8, <2>2
    <2>4. CASE MarkedAt(j)
        BY <2>1, <2>3, <2>4, <1>4, <1>5
    <2>5. CASE SumOf(trades, j) = equity
        <3>1. SumOf(trades, i) \in Int /\ SumOf(trades, i) <= peakEquity' /\ equity \in Int
            BY <2>3, <1>3
        <3>2. \A x, p, m \in Int : x <= p /\ p - equity <= m => x - equity <= m
            BY <3>1
        <3>3. SumOf(trades, i) - equity <= maxDD'
            BY <3>1, <3>2, <1>4
        <3> QED
            BY <2>5, <3>3
    <2> QED
        BY <2>3, <2>4, <2>5
<1> QED
    BY <1>4, <1>8, <1>9

\* A candle keeps the report's invariant.
LEMMA EvaluateKeeps == TestIInv /\ Test!Evaluate => TestIInv'
<1> SUFFICES ASSUME TestIInv, Test!Evaluate PROVE TestIInv'
    OBVIOUS
<1>1. /\ TestTypes /\ TradesOK /\ MarksOK /\ verdict = "running"
    BY DEF TestIInv, Test!Evaluate
<1>2. /\ peakEquity' \in Int /\ maxDD' \in Int
      /\ \A i \in 0..Len(trades) : SumOf(trades, i) <= peakEquity'
      /\ \A j \in 1..Len(trades) : \A i \in 0..j :
             SumOf(trades, i) - SumOf(trades, j) <= maxDD'
    BY <1>1, EvaluateMarks
<1>3. CASE Test!Expired
    <2>1. verdict' = "refused"
        BY <1>3 DEF Test!Evaluate
    <2> QED
        BY <2>1 DEF TestIInv
<1>4. CASE ~Test!Expired
    <2>1. PICK premium \in Premiums : Test!Fill(premium)
        BY <1>4 DEF Test!Evaluate
    <2>2. candle < Candles /\ candle' = candle + 1 /\ verdict' = "running"
        BY <1>1, <1>4 DEF Test!Evaluate
    <2>3. /\ Len(trades) \in Nat /\ trades \in Seq(Trade) /\ realized \in Int
          /\ candle' \in MinHistory..Candles /\ candle \in Int /\ candle' \in 1..Candles
        BY <1>1, <2>2, TestAssumption DEF TestTypes
    <2>4. /\ realized = SumOf(trades, Len(trades))
          /\ \A i \in 1..Len(trades) : trades[i].closed <= candle /\ ~trades[i].forced
          /\ \A i \in 1..Len(trades) : trades[i].closed \in Int
        BY <1>1, <2>3, TradeTyped DEF TradesOK
    <2>5. ASSUME trades' = trades, realized' = realized, position' \in Test!Position
          PROVE  TestIInv'
        <3>1. TestTypes'
            BY <1>2, <2>3, <2>5 DEF TestTypes
        <3>2. \A i \in 1..Len(trades) : trades[i].closed < candle'
            BY <2>2, <2>3, <2>4
        <3>3. TradesOK'
            BY <2>2, <2>3, <2>4, <2>5, <3>2 DEF TradesOK
        <3>4. MarksOK'
            BY <1>2, <2>5 DEF MarksOK
        <3> QED
            BY <2>2, <3>1, <3>3, <3>4 DEF TestIInv
    <2>6. ASSUME position # Test!Flat,
                 Test!Finish(Test!Close(position, candle + 1, premium, FALSE))
          PROVE  TestIInv'
        <3>1. PICK t : t = Test!Close(position, candle + 1, premium, FALSE)
            OBVIOUS
        <3>2. t \in Trade /\ t.closed = candle' /\ t.forced = FALSE
            BY <3>1, <1>1, <2>2, <2>3, <2>6, FillTyped
        <3>3. PICK ts : ts = trades
            OBVIOUS
        <3>4. PICK us : us = Append(ts, t)
            OBVIOUS
        <3>5. trades' = us /\ realized' = realized + t.net /\ position' = Test!Flat
            BY <2>6, <3>1, <3>3, <3>4 DEF Test!Finish
        <3>6. /\ us \in Seq(Trade) /\ Len(us) = Len(ts) + 1 /\ us[Len(ts) + 1] = t
              /\ \A i \in 1..Len(ts) : us[i] = ts[i]
              /\ Len(ts) \in Nat /\ ts \in Seq(Trade) /\ t.net \in Int
            BY <2>3, <3>2, <3>3, <3>4 DEF Trade
        <3>7. /\ \A n \in 0..Len(ts) : SumOf(us, n) = SumOf(ts, n)
              /\ SumOf(us, Len(us)) = SumOf(ts, Len(ts)) + t.net
            BY <3>2, <3>4, <3>6, SumOfAppend
        <3>8. TestTypes'
            BY <1>2, <2>3, <3>5, <3>6 DEF TestTypes, Test!Position
        <3>9. TradesOK'
            <4>1. realized' = SumOf(us, Len(us))
                BY <2>4, <3>3, <3>5, <3>7
            <4>2. \A i \in 1..Len(us) : us[i].closed <= candle' /\ ~us[i].forced
                BY <2>2, <2>3, <2>4, <3>2, <3>3, <3>6
            <4>3. \A i \in 1..Len(us) : i < Len(us) => us[i].closed < candle'
                BY <2>2, <2>3, <2>4, <3>3, <3>6
            <4> QED
                BY <3>5, <4>1, <4>2, <4>3 DEF TradesOK
        <3>10. \A i \in 0..Len(us) : i = 0 \/ us[i].closed < candle' => i \in 0..Len(ts)
            BY <2>3, <3>2, <3>6
        <3>11. \A i \in 0..Len(us) : i = 0 \/ us[i].closed < candle' => SumOf(us, i) <= peakEquity'
            BY <3>3, <3>7, <3>10, <1>2
        <3>12. ASSUME NEW j \in 1..Len(us), us[j].closed < candle', NEW i \in 0..j
               PROVE  SumOf(us, i) - SumOf(us, j) <= maxDD'
            <4>1. j \in 1..Len(ts) /\ i \in 0..Len(ts) /\ j \in 0..Len(ts)
                BY <3>6, <3>10, <3>12
            <4>2. SumOf(us, i) = SumOf(ts, i) /\ SumOf(us, j) = SumOf(ts, j)
                BY <4>1, <3>7
            <4>3. SumOf(ts, i) - SumOf(ts, j) <= maxDD'
                BY <4>1, <3>3, <3>12, <1>2
            <4> QED
                BY <4>2, <4>3
        <3>13. MarksOK'
            BY <3>5, <3>11, <3>12 DEF MarksOK, MarkedAt
        <3> QED
            BY <2>2, <3>8, <3>9, <3>13 DEF TestIInv
    <2>7. CASE Test!Keep
        BY <2>5, <2>7, <1>1 DEF Test!Keep, TestTypes
    <2>8. ASSUME NEW kind \in Test!Kinds, NEW side \in {"BUY", "SELL"},
                 position' = Test!Open(kind, side, premium), UNCHANGED <<trades, realized>>
          PROVE  TestIInv'
        BY <1>1, <2>2, <2>5, <2>8, FillTyped
    <2> QED
        BY <2>1, <2>6, <2>7, <2>8 DEF Test!Fill
<1> QED
    BY <1>3, <1>4

\* The forced close is marked, and nothing comes after it.
LEMMA ForceCloseKeeps == TestIInv /\ Test!ForceClose => TestIInv'
<1> SUFFICES ASSUME TestIInv, Test!ForceClose PROVE TestIInv'
    OBVIOUS
<1>1. TestTypes /\ TradesOK /\ MarksOK /\ candle = Candles /\ verdict' = "report"
    BY DEF TestIInv, Test!ForceClose
<1>2. /\ Len(trades) \in Nat /\ trades \in Seq(Trade) /\ Candles \in Int
      /\ peakEquity \in Int /\ maxDD \in Int /\ realized \in Int
      /\ \A i \in 1..Len(trades) : trades[i].closed \in Int
    BY <1>1, TestAssumption, TradeTyped DEF TestTypes
<1>3. SUFFICES Covered'
    BY <1>1 DEF TestIInv
<1>4. CASE position = Test!Flat
    <2>1. trades' = trades /\ maxDD' = maxDD
        BY <1>4 DEF Test!ForceClose, Test!Keep
    <2>2. \A j \in 1..Len(trades) : (trades[j].closed < Candles \/ trades[j].forced) =>
              MarkedAt(j)
        BY <1>1 DEF TradesOK, MarkedAt
    <2> QED
        BY <1>1, <2>1, <2>2 DEF MarksOK, Covered
<1>5. CASE position # Test!Flat
    <2>1. PICK premium \in Premiums :
              LET trade == Test!Close(position, Candles, premium, TRUE) IN
              Test!Finish(trade) /\ Test!Mark(realized + trade.net)
        BY <1>5 DEF Test!ForceClose
    <2>2. PICK t : t = Test!Close(position, Candles, premium, TRUE)
        OBVIOUS
    <2>3. Candles \in 1..Candles
        BY <1>1, <1>5, TestAssumption DEF TestTypes, Test!Position
    <2>4. t \in Trade /\ t.net \in Int
        BY <1>1, <1>5, <2>2, <2>3, FillTyped DEF Trade
    <2>5. PICK ts : ts = trades
        OBVIOUS
    <2>6. PICK us : us = Append(ts, t)
        OBVIOUS
    <2>7. trades' = us /\ Test!Mark(realized + t.net)
        BY <2>1, <2>2, <2>5, <2>6 DEF Test!Finish
    <2>8. /\ us \in Seq(Trade) /\ Len(us) = Len(ts) + 1
          /\ Len(ts) \in Nat /\ ts \in Seq(Trade)
        BY <1>2, <2>4, <2>5, <2>6
    <2>9. /\ \A n \in 0..Len(ts) : SumOf(us, n) = SumOf(ts, n)
          /\ SumOf(us, Len(us)) = SumOf(ts, Len(ts)) + t.net
        BY <2>4, <2>6, <2>8, SumOfAppend
    <2>10. /\ peakEquity' \in Int /\ maxDD' \in Int
           /\ peakEquity <= peakEquity' /\ realized + t.net <= peakEquity'
           /\ maxDD <= maxDD' /\ peakEquity' - (realized + t.net) <= maxDD'
        BY <1>1, <1>2, <2>4, <2>7, MarkCovers
    <2>11. realized = SumOf(ts, Len(ts)) /\ \A i \in 0..Len(ts) : MarkedAt(i)
        BY <1>1, <1>5, <2>5 DEF TradesOK, MarkedAt
    <2>12. \A i \in 0..Len(ts) : SumOf(ts, i) \in Int
        BY <2>8, SumOfInt
    <2>13. ASSUME NEW j \in 1..Len(us), NEW i \in 0..j
           PROVE  SumOf(us, i) - SumOf(us, j) <= maxDD'
        <3>1. CASE j \in 1..Len(ts)
            <4>1. i \in 0..Len(ts) /\ j \in 0..Len(ts)
                BY <2>8, <3>1
            <4>2. SumOf(ts, i) - SumOf(ts, j) <= maxDD
                BY <1>1, <2>5, <2>11, <3>1, <4>1 DEF MarksOK
            <4>3. SumOf(us, i) = SumOf(ts, i) /\ SumOf(us, j) = SumOf(ts, j)
                BY <4>1, <2>9
            <4> QED
                BY <1>2, <2>10, <2>12, <4>1, <4>2, <4>3
        <3>2. CASE j = Len(us)
            <4>1. SumOf(us, j) = realized + t.net
                BY <2>9, <2>11, <3>2
            <4>2. CASE i = j
                BY <1>2, <2>4, <2>10, <4>1, <4>2
            <4>3. CASE i \in 0..Len(ts)
                <5>1. SumOf(us, i) = SumOf(ts, i) /\ SumOf(ts, i) \in Int
                    BY <2>9, <2>12, <4>3
                <5>2. SumOf(ts, i) <= peakEquity
                    BY <1>1, <2>5, <2>11, <4>3 DEF MarksOK
                <5> QED
                    BY <1>2, <2>4, <2>10, <4>1, <5>1, <5>2
            <4> QED
                BY <2>8, <3>2, <4>2, <4>3
        <3> QED
            BY <2>8, <3>1, <3>2
    <2> QED
        BY <2>7, <2>13 DEF Covered
<1> QED
    BY <1>4, <1>5

\* Every step keeps the report's invariant.
LEMMA TestNext == TestIInv /\ [Test!Next]_(Test!backtestVars) => TestIInv'
<1> SUFFICES ASSUME TestIInv, UNCHANGED Test!backtestVars PROVE TestIInv'
    BY EvaluateKeeps, ForceCloseKeeps DEF Test!Next
<1> QED
    BY DEF Test!backtestVars, TestIInv, TestTypes, TradesOK, MarksOK, MarkedAt, Covered

-----------------------------------------------------------------------------
\* The drawdown that Run reports is at least every fall of the realized P&L
\* from one trade to a later one, but for a last trade closed by a signal at
\* the open of the very last candle.
THEOREM DrawdownCovered == Test!Spec => []DrawdownCovers
<1>1. Test!Init => TestIInv
    BY TestInit
<1>2. TestIInv /\ [Test!Next]_(Test!backtestVars) => TestIInv'
    BY TestNext
<1>3. TestIInv => DrawdownCovers
    BY TestTotal DEF TestIInv, Covered, DrawdownCovers, Test!DrawdownCovers, Test!Marked
<1> QED
    BY <1>1, <1>2, <1>3, PTL DEF Test!Spec

-----------------------------------------------------------------------------
(***************************************************************************)
(* Proofs about PaperBroker, for any symbols, prices, fees, margin rates   *)
(* and order sizes.  MoneyAccounted is inductive once a symbol without a   *)
(* position is known to have no side and one with a position some of it.   *)
(* An order moves one symbol, so the two sums move by what that symbol's   *)
(* margin and premium do.                                                  *)
(***************************************************************************)
Holding == [side : {"none", "BUY", "SELL"}, qty : Nat, avg : Nat]

HeldOK ==
    /\ held \in [Papers -> Holding]
    /\ \A s \in Papers : IF held[s].side = "none" THEN held[s] = Paper!Flat
                         ELSE held[s].qty \in 1..MaxHeld

AccountOK ==
    /\ up \in BOOLEAN /\ counter \in 0..MaxPaperOrders
    /\ balance \in Int /\ flow \in Int /\ fees \in Nat
    /\ reserved \in [Papers -> Int] /\ excused \subseteq Papers

PaperInv == HeldOK /\ AccountOK /\ MoneyAccounted

-----------------------------------------------------------------------------
\* A multiple divides by what it is a multiple of.
LEMMA WholeShare ==
    ASSUME NEW k \in Int, NEW q \in Nat \ {0}
    PROVE  (k * q) \div q = k
OBVIOUS

\* What divides without a rest is the quotient as often.
LEMMA NoRest ==
    ASSUME NEW x \in Nat, NEW q \in Nat \ {0}, x % q = 0
    PROVE  (x \div q) * q = x /\ x \div q \in Nat
OBVIOUS

\* The margin a partial cover frees is that of what it covers.
LEMMA ReleasedIs ==
    ASSUME NEW a \in Nat, NEW q \in Nat \ {0}, NEW c \in Nat, NEW m \in Nat
    PROVE  (((a * q) * m) * c) \div q = (a * c) * m
<1>1. ((a * q) * m) * c = ((a * c) * m) * q
    OBVIOUS
<1>2. (a * c) * m \in Int
    OBVIOUS
<1> QED BY <1>1, <1>2, WholeShare

\* The model's sum is that of the lemmas.
LEMMA SamePaperSum ==
    ASSUME NEW f, NEW S
    PROVE  Paper!SumFunctionOnSet(f, S) = SumFunctionOnSet(f, S)
BY DEF Paper!SumFunctionOnSet, SumFunctionOnSet, Paper!FoldFunctionOnSet, FoldFunctionOnSet,
       Paper!MapThenFoldSet, MapThenFoldSet

\* A fill price is no less than nothing.
LEMMA FillPriceTyped ==
    ASSUME NEW side \in {"BUY", "SELL"}, NEW market \in Prices
    PROVE  Paper!FillPrice(side, market) \in Nat
<1>1. market \in Nat /\ HalfSpread \in Nat
    BY PaperAssumption
<1> QED BY <1>1 DEF Paper!FillPrice

\* The less of two quantities.
LEMMA LessOf ==
    ASSUME NEW a \in Int, NEW b \in Int, a <= b
    PROVE  Paper!Min({a, b}) = a
<1> DEFINE m == CHOOSE x \in {a, b} : \A y \in {a, b} : x <= y
<1>1. m \in {a, b} /\ \A y \in {a, b} : m <= y
    <2>1. \E x \in {a, b} : \A y \in {a, b} : x <= y
        OBVIOUS
    <2> QED BY <2>1
<1> HIDE DEF m
<1>2. m = a
    BY <1>1
<1> QED BY <1>2 DEF Paper!Min, m

\* A symbol's premium is that of its holding.
PremiumOf(s, x) == IF s \in Derivatives /\ x.side = "SELL" THEN x.avg * x.qty ELSE 0

\* What the account holds for one symbol.
LEMMA OnePremium ==
    ASSUME HeldOK, NEW s \in Papers
    PROVE  /\ Paper!Premium[s] = PremiumOf(s, held[s])
           /\ Paper!Premium[s] \in Int
<1>1. held[s] \in Holding
    BY DEF HeldOK
<1>2. Paper!Premium[s] = PremiumOf(s, held[s])
    BY DEF Paper!Premium, Paper!Short, PremiumOf
<1>3. held[s].avg \in Nat /\ held[s].qty \in Nat
    BY <1>1 DEF Holding
<1>4. held[s].avg * held[s].qty \in Int
    BY <1>3
<1> QED BY <1>2, <1>4 DEF PremiumOf

-----------------------------------------------------------------------------
\* A fill that is opened, added, taken off or closes is a holding again.
LEMMA UpdateTyped ==
    ASSUME HeldOK, NEW s \in Papers, NEW side \in {"BUY", "SELL"}, NEW qty \in 1..MaxHeld,
           NEW fill \in 1..qty, NEW price \in Nat,
           held[s].side = side => held[s].qty + qty <= MaxHeld
    PROVE  LET x == Paper!UpdatePosition(s, side, fill, price)
           IN  /\ x \in Holding
               /\ IF x.side = "none" THEN x = Paper!Flat ELSE x.qty \in 1..MaxHeld
<1> DEFINE x == held[s]
           y == Paper!UpdatePosition(s, side, fill, price)
<1>1. /\ x \in Holding
      /\ IF x.side = "none" THEN x = Paper!Flat ELSE x.qty \in 1..MaxHeld
    BY DEF HeldOK
<1>2. MaxHeld \in Nat /\ fill \in Nat /\ fill >= 1 /\ fill <= qty /\ qty \in 1..MaxHeld
    BY PaperAssumption
<1>3. x.qty \in Nat /\ x.avg \in Nat /\ x.side \in {"none", "BUY", "SELL"}
    BY <1>1 DEF Holding
<1> SUFFICES /\ y \in Holding
             /\ IF y.side = "none" THEN y = Paper!Flat ELSE y.qty \in 1..MaxHeld
    OBVIOUS
<1>4. CASE x = Paper!Flat
    <2>1. y = [side |-> side, qty |-> fill, avg |-> price]
        BY <1>4 DEF Paper!UpdatePosition
    <2>2. fill \in 1..MaxHeld
        BY <1>2
    <2> HIDE DEF y
    <2> QED BY <1>2, <2>1, <2>2 DEF Holding
<1>5. CASE x # Paper!Flat /\ x.side = side
    <2> DEFINE n == x.qty + fill
               a == (x.avg * x.qty + price * fill) \div n
    <2>1. y = [side |-> side, qty |-> n, avg |-> a]
        BY <1>5 DEF Paper!UpdatePosition
    <2>2. n \in 1..MaxHeld /\ n \in Nat
        BY <1>2, <1>3, <1>5
    <2>3. x.avg * x.qty + price * fill \in Nat
        <3>1. x.avg * x.qty \in Nat /\ price * fill \in Nat
            BY <1>2, <1>3
        <3> QED BY <3>1
    <2>4. a \in Nat
        <3> DEFINE k == x.avg * x.qty + price * fill
        <3>1. k \in Nat /\ n \in Nat \ {0}
            BY <2>2, <2>3
        <3> HIDE DEF k, n
        <3>2. k \div n \in Nat
            BY <3>1
        <3> QED BY <3>2 DEF k
    <2> HIDE DEF y, n, a
    <2> QED BY <2>1, <2>2, <2>4 DEF Holding
<1>6. CASE x # Paper!Flat /\ x.side # side /\ x.qty > fill
    <2>1. y = [x EXCEPT !.qty = @ - fill]
        BY <1>6 DEF Paper!UpdatePosition
    <2>2. x.qty - fill \in 1..MaxHeld /\ x.qty - fill \in Nat
        BY <1>1, <1>2, <1>3, <1>6
    <2>3. x.side # "none"
        BY <1>1, <1>6
    <2> HIDE DEF y
    <2>4. y.side = x.side /\ y.qty = x.qty - fill /\ y \in Holding
        BY <1>1, <2>1, <2>2 DEF Holding
    <2> QED BY <2>2, <2>3, <2>4
<1>7. CASE x # Paper!Flat /\ x.side # side /\ ~(x.qty > fill)
    <2>1. y = Paper!Flat
        BY <1>7 DEF Paper!UpdatePosition
    <2> HIDE DEF y
    <2> QED BY <2>1 DEF Paper!Flat, Holding
<1> QED BY <1>4, <1>5, <1>6, <1>7

\* An order's cash is in whole units.
LEMMA SettledTyped ==
    ASSUME HeldOK, AccountOK, NEW s \in Papers, NEW side \in {"BUY", "SELL"},
           NEW fill \in Nat, NEW price \in Nat
    PROVE  /\ Paper!SettleCash(s, side, fill, price).cash \in Int
           /\ Paper!SettleCash(s, side, fill, price).margin \in Int
<1>1. /\ reserved[s] \in Int /\ held[s].avg \in Nat /\ held[s].qty \in Nat
      /\ Fee \in Nat /\ MarginTimes \in Nat
    BY PaperAssumption DEF HeldOK, AccountOK, Holding
<1> DEFINE c == Paper!OpenShort(s, fill, price)
           d == Paper!CoverShort(s, fill, price)
           e == Paper!PayInFull(s, side, fill, price)
<1>2. c.cash \in Int /\ c.margin \in Int
    <2>1. price * fill * MarginTimes \in Int
        BY <1>1
    <2> QED BY <1>1, <2>1 DEF Paper!OpenShort
<1>3. s \in Derivatives /\ side = "BUY" /\ Paper!Short(s) => d.cash \in Int /\ d.margin \in Int
    <2> SUFFICES ASSUME Paper!Short(s) PROVE d.cash \in Int /\ d.margin \in Int
        OBVIOUS
    <2>1. held[s].qty \in Nat \ {0}
        BY <1>1 DEF HeldOK, Paper!Short
    <2>2. PICK k \in Int : k = Paper!Min({fill, held[s].qty})
        <3>1. CASE fill <= held[s].qty
            BY <1>1, <3>1, LessOf
        <3>2. CASE ~(fill <= held[s].qty)
            <4>1. held[s].qty <= fill /\ {fill, held[s].qty} = {held[s].qty, fill}
                BY <1>1, <3>2
            <4> QED BY <1>1, <4>1, LessOf
        <3> QED BY <3>1, <3>2
    <2>3. PICK r \in Int : r = (reserved[s] * k) \div held[s].qty
        <3>1. reserved[s] * k \in Int
            BY <1>1, <2>2
        <3>2. \A x \in Int, q \in Nat \ {0} : x \div q \in Int
            OBVIOUS
        <3>3. (reserved[s] * k) \div held[s].qty \in Int
            BY <2>1, <3>1, <3>2
        <3> QED BY <3>3
    <2>4. d = [cash |-> r + (held[s].avg - price) * k - Fee - price * (fill - k),
               margin |-> reserved[s] - r]
        BY <2>2, <2>3 DEF Paper!CoverShort
    <2>5. (held[s].avg - price) * k \in Int /\ price * (fill - k) \in Int
        BY <1>1, <2>2
    <2>6. /\ r + (held[s].avg - price) * k - Fee - price * (fill - k) \in Int
          /\ reserved[s] - r \in Int
        BY <1>1, <2>3, <2>5
    <2> HIDE DEF d
    <2> QED BY <2>4, <2>6
<1>4. e.cash \in Int /\ e.margin \in Int
    <2>1. price * fill \in Int /\ - price * fill \in Int
        OBVIOUS
    <2> QED BY <1>1, <2>1 DEF Paper!PayInFull
<1> HIDE DEF c, d, e
<1> QED BY <1>2, <1>3, <1>4 DEF Paper!SettleCash, c, d, e

-----------------------------------------------------------------------------
\* An order's holding, margin, cash, turnover and fee.
After(s, side, fill, price, refused) ==
    IF refused THEN held[s] ELSE Paper!UpdatePosition(s, side, fill, price)
Locked(s, side, fill, price, refused) ==
    IF After(s, side, fill, price, refused) = Paper!Flat /\ ~refused THEN 0
    ELSE Paper!SettleCash(s, side, fill, price).margin
Spent(s, side, fill, price, refused) ==
    IF refused THEN 0 ELSE Paper!SettleCash(s, side, fill, price).cash
Turned(side, fill, price, refused) ==
    IF refused THEN 0 ELSE IF side = "BUY" THEN - price * fill ELSE price * fill
Paid(refused) == IF refused THEN 0 ELSE Fee

\* An order that keeps in step locks the margin of the short it leaves, and
\* what it moves in cash and margin is its turnover and fee, without the
\* premium of what it sold short.
LEMMA OrderFigures ==
    ASSUME HeldOK, AccountOK, NEW s \in Papers, s \notin excused,
           reserved[s] = Paper!Premium[s] * MarginTimes,
           NEW side \in {"BUY", "SELL"}, NEW qty \in 1..MaxHeld, NEW fill \in 1..qty,
           NEW price \in Nat, Paper!Exact(s, side, fill, price),
           NEW refused \in BOOLEAN, refused => Paper!Opening(s, side),
           ~Paper!OutOfStep(s, side, fill, refused)
    PROVE  LET p == PremiumOf(s, After(s, side, fill, price, refused))
               margin == Locked(s, side, fill, price, refused)
           IN  /\ margin = p * MarginTimes
               /\ Spent(s, side, fill, price, refused) + (margin - reserved[s])
                    = Turned(side, fill, price, refused) - Paid(refused)
                      - (p - Paper!Premium[s])
<1> DEFINE x == held[s]
           y == After(s, side, fill, price, refused)
           p == PremiumOf(s, y)
           p0 == Paper!Premium[s]
           r == reserved[s]
           margin == Locked(s, side, fill, price, refused)
           settled == Paper!SettleCash(s, side, fill, price)
           spent == Spent(s, side, fill, price, refused)
           turned == Turned(side, fill, price, refused)
           paid == Paid(refused)
           cost == price * fill
<1> SUFFICES margin = p * MarginTimes /\ spent + (margin - r) = turned - paid - (p - p0)
    OBVIOUS
<1>1. /\ x.qty \in Nat /\ x.avg \in Nat /\ x.side \in {"none", "BUY", "SELL"}
      /\ Fee \in Nat /\ MarginTimes \in Nat /\ r \in Int
      /\ fill \in Nat /\ fill >= 1 /\ cost \in Nat
    BY PaperAssumption DEF HeldOK, AccountOK, Holding
<1>2. /\ x.side = "none" => x = Paper!Flat
      /\ x.side # "none" => x.qty \in Nat \ {0} /\ x # Paper!Flat
    BY DEF HeldOK, Paper!Flat
<1>3. p0 = PremiumOf(s, x) /\ p0 \in Int /\ r = p0 * MarginTimes
    BY OnePremium
<1>4. Paper!Flat.side = "none" /\ PremiumOf(s, Paper!Flat) = 0 /\ 0 * MarginTimes = 0
    BY <1>1 DEF Paper!Flat, PremiumOf
<1> DEFINE short == s \in Derivatives /\ x.side = "SELL"
           in == Paper!PayInFull(s, side, fill, price)
<1>5. in.margin = r /\ in.cash = (IF side = "BUY" THEN - price * fill ELSE cost) - Fee
    BY DEF Paper!PayInFull
<1>6. - price * fill = - cost
    OBVIOUS
<1> HIDE DEF y, p, p0, r, margin, settled, spent, turned, paid, cost, in
\* Refused: nothing moves, since an opening order that is not a short's is paid in full.
<1>7. CASE refused
    <2>1. ~(s \in Derivatives /\ side = "SELL") /\ (x = Paper!Flat \/ x.side = side)
        BY <1>7 DEF Paper!OutOfStep, Paper!Opening
    <2>2. ~(s \in Derivatives /\ side = "BUY" /\ Paper!Short(s))
        BY <1>4, <2>1 DEF Paper!Short
    <2>3. settled = in
        BY <2>1, <2>2 DEF settled, in, Paper!SettleCash
    <2>4. y = x /\ margin = settled.margin /\ spent = 0 /\ turned = 0 /\ paid = 0
        BY <1>7 DEF y, After, margin, Locked, settled, spent, Spent, turned, Turned, paid, Paid
    <2>5. p = p0 /\ margin = r
        BY <1>3, <1>5, <2>3, <2>4 DEF p
    <2> QED BY <1>1, <1>3, <2>4, <2>5
\* Filled.
<1>8. CASE ~refused
    <2>1. /\ y = Paper!UpdatePosition(s, side, fill, price)
          /\ margin = IF y = Paper!Flat THEN 0 ELSE settled.margin
          /\ spent = settled.cash /\ paid = Fee
          /\ turned = IF side = "BUY" THEN - cost ELSE cost
        BY <1>6, <1>8 DEF y, After, margin, Locked, settled, spent, Spent, turned, Turned,
                          paid, Paid, cost
    \* Paid in full: neither the holding before nor the one after is a short.
    <2>2. ASSUME settled = in, p0 = 0, p = 0
          PROVE  margin = p * MarginTimes /\ spent + (margin - r) = turned - paid - (p - p0)
        <3>1. r = 0 /\ margin = 0
            BY <1>3, <1>4, <1>5, <2>1, <2>2
        <3>2. spent = (IF side = "BUY" THEN - cost ELSE cost) - Fee
            BY <1>5, <1>6, <2>1, <2>2
        <3> QED BY <1>1, <1>4, <2>1, <2>2, <3>1, <3>2
    <2>3. CASE s \notin Derivatives
        <3>1. settled = in
            BY <2>3 DEF settled, in, Paper!SettleCash
        <3>2. p0 = 0 /\ p = 0
            BY <1>3, <2>3 DEF p, PremiumOf
        <3> QED BY <2>2, <3>1, <3>2
    <2>4. CASE s \in Derivatives /\ side = "SELL" /\ x.side = "BUY"
        <3>1. settled = in
            BY <2>4 DEF settled, in, Paper!SettleCash, Paper!Long
        <3>2. y = Paper!Flat \/ y.side = "BUY"
            <4>1. x # Paper!Flat /\ x.side # side
                BY <1>2, <2>4
            <4>2. y = IF x.qty > fill THEN [x EXCEPT !.qty = @ - fill] ELSE Paper!Flat
                BY <2>1, <4>1 DEF Paper!UpdatePosition
            <4>3. x = [side |-> x.side, qty |-> x.qty, avg |-> x.avg]
                BY DEF HeldOK, Holding
            <4> QED BY <2>4, <4>2, <4>3
        <3>3. p0 = 0 /\ p = 0
            BY <1>3, <1>4, <2>4, <3>2 DEF p, PremiumOf
        <3> QED BY <2>2, <3>1, <3>3
    <2>5. CASE s \in Derivatives /\ side = "BUY" /\ x.side # "SELL"
        <3>1. settled = in
            BY <2>5 DEF settled, in, Paper!SettleCash, Paper!Short
        <3>2. y.side # "SELL"
            <4>1. x = Paper!Flat \/ x.side = side
                BY <1>1, <1>2, <2>5
            <4>2. y.side = side
                BY <2>1, <4>1 DEF Paper!UpdatePosition
            <4> QED BY <2>5, <4>2
        <3>3. p0 = 0 /\ p = 0
            BY <1>3, <2>5, <3>2 DEF p, PremiumOf
        <3> QED BY <2>2, <3>1, <3>3
    \* Sold short: first, or more.
    <2>6. CASE s \in Derivatives /\ side = "SELL" /\ x.side # "BUY"
        <3> DEFINE m == cost * MarginTimes
        <3>1. m \in Int /\ cost \in Int
            BY <1>1
        <3>2. settled.cash = - m - Fee /\ settled.margin = r + m
            BY <2>6 DEF settled, Paper!SettleCash, Paper!Long, Paper!OpenShort, cost, m, r
        <3>3. y.side = "SELL" /\ y.avg * y.qty = p0 + cost
            <4>1. CASE x.side = "none"
                <5>1. y = [side |-> side, qty |-> fill, avg |-> price]
                    BY <1>2, <2>1, <4>1 DEF Paper!UpdatePosition
                <5>2. p0 = 0
                    BY <1>2, <1>3, <1>4, <4>1
                <5> QED BY <1>1, <2>6, <5>1, <5>2 DEF cost
            <4>2. CASE x.side = "SELL"
                <5> DEFINE q == x.qty + fill
                           k == x.avg * x.qty + price * fill
                <5>1. y = [side |-> side, qty |-> q, avg |-> k \div q]
                    BY <1>2, <2>1, <2>6, <4>2 DEF Paper!UpdatePosition
                <5>2. k % q = 0
                    BY <2>6, <4>2 DEF Paper!Exact
                <5>3. k = p0 + cost
                    BY <1>3, <2>6, <4>2 DEF PremiumOf, cost
                <5>4. x.avg * x.qty \in Nat
                    BY <1>1
                <5>5. k \in Nat /\ q \in Nat \ {0}
                    BY <1>1, <5>4 DEF cost
                <5> HIDE DEF k, q
                <5>6. (k \div q) * q = k
                    BY <5>2, <5>5, NoRest
                <5> QED BY <2>6, <5>1, <5>3, <5>6
            <4> QED BY <1>1, <2>6, <4>1, <4>2
        <3>4. margin = r + m
            BY <1>4, <2>1, <3>2, <3>3
        <3>5. p = p0 + cost
            BY <2>6, <3>3 DEF p, PremiumOf
        <3>6. (p0 + cost) * MarginTimes = p0 * MarginTimes + m
            BY <1>1, <1>3
        <3>7. spent = - m - Fee /\ turned = cost /\ paid = Fee
            BY <2>1, <2>6, <3>2
        <3> HIDE DEF m
        <3> QED BY <1>1, <1>3, <3>1, <3>4, <3>5, <3>6, <3>7
    \* Covered, in part or all of it.
    <2>7. CASE s \in Derivatives /\ side = "BUY" /\ x.side = "SELL"
        <3>1. x # Paper!Flat /\ x.side # side /\ x.qty \in Nat \ {0}
            BY <1>2, <2>7
        <3>2. fill <= x.qty
            BY <1>1, <2>7, <3>1 DEF Paper!OutOfStep, Paper!Opening
        <3>3. Paper!Min({fill, x.qty}) = fill
            BY <1>1, <3>2, LessOf
        <3> DEFINE freed == (x.avg * fill) * MarginTimes
                   was == x.avg * fill
        <3>4. p0 = x.avg * x.qty
            BY <1>3, <2>7 DEF PremiumOf
        <3>5. (r * fill) \div x.qty = freed
            <4>1. r = (x.avg * x.qty) * MarginTimes
                BY <1>3, <3>4
            <4>2. PICK a \in Nat, q \in Nat \ {0}, c \in Nat, k \in Nat :
                    a = x.avg /\ q = x.qty /\ c = fill /\ k = MarginTimes
                BY <1>1, <3>1
            <4>3. (((a * q) * k) * c) \div q = (a * c) * k
                BY ReleasedIs
            <4> QED BY <4>1, <4>2, <4>3
        <3>6. was \in Int /\ freed \in Int
            BY <1>1
        <3>7. /\ settled.cash = freed + (x.avg - price) * fill - Fee - price * (fill - fill)
              /\ settled.margin = r - freed
            BY <2>7, <3>3, <3>5 DEF settled, Paper!SettleCash, Paper!Short, Paper!CoverShort, r
        <3>8. (x.avg - price) * fill = was - cost /\ price * (fill - fill) = 0
            BY <1>1 DEF cost
        <3>9. settled.cash = freed + was - cost - Fee
            BY <1>1, <3>6, <3>7, <3>8
        <3>10. p = p0 - was
            <4>1. y = IF x.qty > fill THEN [x EXCEPT !.qty = @ - fill] ELSE Paper!Flat
                BY <2>1, <3>1 DEF Paper!UpdatePosition
            <4>2. x = [side |-> x.side, qty |-> x.qty, avg |-> x.avg]
                BY DEF HeldOK, Holding
            <4>3. CASE x.qty > fill
                <5>1. y.side = "SELL" /\ y.avg = x.avg /\ y.qty = x.qty - fill
                    BY <2>7, <4>1, <4>2, <4>3
                <5>2. p = x.avg * (x.qty - fill)
                    BY <2>7, <5>1 DEF p, PremiumOf
                <5> QED BY <1>1, <3>4, <5>2
            <4>4. CASE x.qty = fill
                <5>1. p = 0
                    BY <1>1, <1>4, <4>1, <4>4 DEF p
                <5> QED BY <1>1, <3>4, <3>6, <4>4, <5>1
            <4> QED BY <1>1, <3>2, <4>3, <4>4
        <3>11. margin = r - freed
            <4>1. CASE y = Paper!Flat
                <5>1. p = 0
                    BY <1>4, <4>1 DEF p
                <5>2. p0 = was
                    BY <1>3, <3>6, <3>10, <5>1
                <5>3. r = freed
                    BY <1>3, <5>2
                <5> QED BY <1>1, <2>1, <4>1, <5>3
            <4>2. CASE y # Paper!Flat
                BY <2>1, <3>7, <4>2
            <4> QED BY <4>1, <4>2
        <3>12. (p0 - was) * MarginTimes = r - freed
            <4>1. (p0 - was) * MarginTimes = p0 * MarginTimes - was * MarginTimes
                BY <1>1, <1>3, <3>6
            <4> QED BY <1>3, <4>1
        <3>13. spent = freed + was - cost - Fee /\ turned = - cost /\ paid = Fee
            BY <2>1, <2>7, <3>9
        <3> HIDE DEF freed, was
        <3> QED BY <1>1, <1>3, <3>6, <3>10, <3>11, <3>12, <3>13
    <2> QED BY <1>1, <2>3, <2>4, <2>5, <2>6, <2>7
<1> QED BY <1>7, <1>8

-----------------------------------------------------------------------------
\* An account that has not been used.
LEMMA InitPaper == Paper!Init => PaperInv
<1> SUFFICES ASSUME Paper!Init PROVE PaperInv
    OBVIOUS
<1>1. /\ up = FALSE /\ balance = Capital /\ held = [s \in Papers |-> Paper!Flat]
      /\ reserved = [s \in Papers |-> 0] /\ counter = 0 /\ flow = 0 /\ fees = 0 /\ excused = {}
    BY DEF Paper!Init
<1>2. HeldOK
    BY <1>1 DEF HeldOK, Holding, Paper!Flat
<1>3. AccountOK
    <2>1. MaxPaperOrders \in Nat /\ Capital \in Int
        BY PaperAssumption
    <2>2. counter \in 0..MaxPaperOrders /\ balance \in Int /\ flow \in Int /\ fees \in Nat
        BY <1>1, <2>1
    <2>3. up \in BOOLEAN
        BY <1>1
    <2>4. reserved \in [Papers -> Int]
        BY <1>1
    <2>5. excused \subseteq Papers
        BY <1>1
    <2> QED BY <2>2, <2>3, <2>4, <2>5 DEF AccountOK
<1>4. \A s \in Papers : Paper!Premium[s] = 0 /\ reserved[s] = 0
    BY <1>1 DEF Paper!Premium, Paper!Short, Paper!Flat
<1> DEFINE f == Paper!Premium
<1>5. IsFiniteSet(Papers) /\ \A s \in Papers : f[s] = 0 /\ reserved[s] = 0
    BY <1>4, PaperAssumption
<1> HIDE DEF f
<1>6. SumFunctionOnSet(f, Papers) = 0 /\ SumFunctionOnSet(reserved, Papers) = 0
    BY <1>5, SumZero
<1>7. Paper!Total(reserved) = 0 /\ Paper!Total(f) = 0
    BY <1>6, SamePaperSum DEF Paper!Total
<1>8. 0 * MarginTimes = 0 /\ Capital \in Int
    BY PaperAssumption
<1>9. MoneyAccounted
    BY <1>1, <1>4, <1>7, <1>8 DEF MoneyAccounted, Paper!MoneyAccounted, f
<1> QED BY <1>2, <1>3, <1>9 DEF PaperInv

\* Steps that leave the money and the holdings alone.
LEMMA PaperRests ==
    ASSUME PaperInv, up' \in BOOLEAN, counter' \in 0..MaxPaperOrders,
           UNCHANGED <<balance, held, reserved, flow, fees, excused>>
    PROVE  PaperInv'
<1>1. HeldOK'
    BY DEF PaperInv, HeldOK
<1>2. AccountOK'
    BY DEF PaperInv, AccountOK
<1>3. MoneyAccounted'
    BY DEF PaperInv, MoneyAccounted, Paper!MoneyAccounted, Paper!Premium, Paper!Short, Paper!Total
<1> QED BY <1>1, <1>2, <1>3 DEF PaperInv

\* Every order keeps the account.
LEMMA OrderKeeps ==
    ASSUME PaperInv, NEW s \in Papers, NEW side \in {"BUY", "SELL"}, NEW qty \in 1..MaxHeld,
           Paper!Order(s, side, qty)
    PROVE  PaperInv'
<1>1. HeldOK /\ AccountOK /\ MoneyAccounted
    BY DEF PaperInv
<1>2. PICK market \in Prices, fill \in 1..qty :
        LET price == Paper!FillPrice(side, market)
            settled == Paper!SettleCash(s, side, fill, price)
            refused == Paper!Opening(s, side) /\ settled.cash < 0 /\ - settled.cash > balance
            after == IF refused THEN held[s] ELSE Paper!UpdatePosition(s, side, fill, price)
        IN
        /\ Paper!Exact(s, side, fill, price)
        /\ held' = [held EXCEPT ![s] = after]
        /\ reserved' = [reserved EXCEPT ![s] =
               IF after = Paper!Flat /\ ~refused THEN 0 ELSE settled.margin]
        /\ balance' = IF refused THEN balance ELSE balance + settled.cash
        /\ fees' = IF refused THEN fees ELSE fees + Fee
        /\ flow' = IF refused THEN flow
                   ELSE IF side = "BUY" THEN flow - price * fill ELSE flow + price * fill
        /\ excused' = IF Paper!OutOfStep(s, side, fill, refused) THEN excused \cup {s} ELSE excused
    BY DEF Paper!Order, Paper!FillQuantities
<1>3. PICK price \in Nat : price = Paper!FillPrice(side, market)
    BY FillPriceTyped
<1> DEFINE refuses == LET settled == Paper!SettleCash(s, side, fill, price)
                      IN  /\ Paper!Opening(s, side) /\ settled.cash < 0
                          /\ - settled.cash > balance
<1>4. PICK refused \in BOOLEAN : refused = refuses
    OBVIOUS
<1> DEFINE settled == Paper!SettleCash(s, side, fill, price)
           after == After(s, side, fill, price, refused)
           margin == Locked(s, side, fill, price, refused)
           spent == Spent(s, side, fill, price, refused)
           turned == Turned(side, fill, price, refused)
           paid == Paid(refused)
<1>5. /\ refused => Paper!Opening(s, side)
      /\ Paper!Exact(s, side, fill, price)
      /\ held' = [held EXCEPT ![s] = after]
      /\ reserved' = [reserved EXCEPT ![s] = margin]
      /\ balance' = IF refused THEN balance ELSE balance + settled.cash
      /\ fees' = IF refused THEN fees ELSE fees + Fee
      /\ flow' = IF refused THEN flow
                 ELSE IF side = "BUY" THEN flow - price * fill ELSE flow + price * fill
      /\ excused' = IF Paper!OutOfStep(s, side, fill, refused) THEN excused \cup {s} ELSE excused
    BY <1>2, <1>3, <1>4 DEF After, Locked
<1>6. /\ up' = up /\ counter' = counter + 1 /\ counter < MaxPaperOrders
      /\ held[s].side = side => held[s].qty + qty <= MaxHeld
    BY DEF Paper!Order
<1>7. fill \in Nat /\ Fee \in Nat
    BY PaperAssumption
<1>8. settled.cash \in Int /\ settled.margin \in Int
    BY <1>1, <1>7, SettledTyped
<1>9. margin \in Int /\ spent \in Int /\ paid \in Nat /\ turned \in Int
    <2>1. price * fill \in Int /\ - price * fill \in Int
        BY <1>7
    <2> QED BY <1>7, <1>8, <2>1 DEF Locked, Spent, Paid, Turned
<1>10. balance' = balance + spent /\ fees' = fees + paid /\ flow' = flow + turned
    <2>1. balance \in Int /\ fees \in Nat /\ flow \in Int
        BY <1>1 DEF AccountOK
    <2>2. CASE refused
        BY <1>5, <2>1, <2>2 DEF Spent, Paid, Turned
    <2>3. CASE ~refused
        <3>1. balance' = balance + spent
            BY <1>5, <2>3 DEF Spent
        <3>2. fees' = fees + paid
            BY <1>5, <2>3 DEF Paid
        <3>3. - price * fill = - (price * fill) /\ price * fill \in Int
            BY <1>7
        <3>4. flow' = flow + turned
            BY <1>5, <2>1, <2>3, <3>3 DEF Turned
        <3> QED BY <3>1, <3>2, <3>4
    <2> QED BY <2>2, <2>3
<1>11. /\ after \in Holding
       /\ IF after.side = "none" THEN after = Paper!Flat ELSE after.qty \in 1..MaxHeld
    <2>1. CASE refused
        BY <1>1, <2>1 DEF After, HeldOK
    <2>2. CASE ~refused
        <3>1. after = Paper!UpdatePosition(s, side, fill, price)
            BY <2>2 DEF After
        <3> QED BY <1>1, <1>6, <3>1, UpdateTyped
    <2> QED BY <2>1, <2>2
<1> HIDE DEF settled, after, margin, spent, turned, paid
<1>12. HeldOK'
    <2>1. held \in [Papers -> Holding]
        BY <1>1 DEF HeldOK
    <2>2. held' \in [Papers -> Holding] /\ held'[s] = after
        BY <1>5, <1>11, <2>1
    <2>3. \A t \in Papers \ {s} : held'[t] = held[t]
        BY <1>5, <2>1
    <2> QED BY <1>1, <1>11, <2>2, <2>3 DEF HeldOK
<1>13. AccountOK'
    <2>1. counter' \in 0..MaxPaperOrders
        BY <1>1, <1>6, PaperAssumption DEF AccountOK
    <2>2. balance' \in Int /\ flow' \in Int /\ fees' \in Nat
        BY <1>1, <1>9, <1>10 DEF AccountOK
    <2>3. reserved' \in [Papers -> Int] /\ excused' \subseteq Papers /\ up' \in BOOLEAN
        BY <1>1, <1>5, <1>6, <1>9 DEF AccountOK
    <2> QED BY <2>1, <2>2, <2>3 DEF AccountOK
<1> DEFINE f == Paper!Premium
           g == Paper!Premium'
<1>14. /\ \A t \in Papers : f[t] \in Int /\ reserved[t] \in Int /\ g[t] \in Int
       /\ \A t \in Papers \ {s} : g[t] = f[t] /\ reserved'[t] = reserved[t]
       /\ g[s] = PremiumOf(s, after) /\ reserved'[s] = margin
    <2>1. \A t \in Papers : f[t] = PremiumOf(t, held[t]) /\ f[t] \in Int
        BY <1>1, OnePremium
    <2>2. \A t \in Papers : g[t] = PremiumOf(t, held'[t])
        BY DEF Paper!Premium, Paper!Short, PremiumOf
    <2>3. /\ held'[s] = after /\ reserved'[s] = margin
          /\ \A t \in Papers \ {s} : held'[t] = held[t] /\ reserved'[t] = reserved[t]
        BY <1>1, <1>5 DEF HeldOK, AccountOK
    <2>4. \A t \in Papers : held'[t].avg * held'[t].qty \in Int
        <3>1. \A t \in Papers : held'[t].avg \in Nat /\ held'[t].qty \in Nat
            BY <1>12 DEF HeldOK, Holding
        <3> QED BY <3>1
    <2>5. \A t \in Papers : g[t] \in Int
        BY <2>2, <2>4 DEF PremiumOf
    <2>6. \A t \in Papers : reserved[t] \in Int
        BY <1>1 DEF AccountOK
    <2> HIDE DEF f, g
    <2> QED BY <2>1, <2>2, <2>3, <2>5, <2>6
<1>15. ASSUME s \notin excused'
       PROVE  /\ margin = g[s] * MarginTimes
              /\ spent + (margin - reserved[s]) = turned - paid - (g[s] - f[s])
    <2>1. ~Paper!OutOfStep(s, side, fill, refused) /\ s \notin excused
        BY <1>5, <1>15
    <2>2. reserved[s] = Paper!Premium[s] * MarginTimes
        BY <1>1, <2>1 DEF MoneyAccounted, Paper!MoneyAccounted
    <2>3. /\ margin = PremiumOf(s, after) * MarginTimes
          /\ spent + (margin - reserved[s])
               = turned - paid - (PremiumOf(s, after) - Paper!Premium[s])
        BY <1>1, <1>5, <2>1, <2>2, OrderFigures DEF margin, spent, turned, paid, after
    <2> QED BY <1>14, <2>3
<1>16. \A t \in Papers \ excused' : reserved'[t] = g[t] * MarginTimes
    <2>1. \A t \in Papers \ excused : reserved[t] = f[t] * MarginTimes
        BY <1>1 DEF MoneyAccounted, Paper!MoneyAccounted
    <2>2. excused \subseteq excused'
        BY <1>5
    <2> HIDE DEF f, g
    <2> QED BY <1>14, <1>15, <2>1, <2>2
<1>17. ASSUME excused' = {}
       PROVE  balance' + Paper!Total(reserved') = Capital + flow' - fees' - Paper!Total(g)
    <2>1. excused = {} /\ s \notin excused'
        BY <1>5, <1>17
    <2>2. balance + Paper!Total(reserved) = Capital + flow - fees - Paper!Total(f)
        BY <1>1, <2>1 DEF MoneyAccounted, Paper!MoneyAccounted
    <2>3. IsFiniteSet(Papers) /\ Capital \in Int
        BY PaperAssumption
    <2> HIDE DEF f, g
    <2>4. \A t \in Papers : reserved'[t] \in Int
        BY <1>13 DEF AccountOK
    <2>5. SumFunctionOnSet(reserved', Papers)
            = SumFunctionOnSet(reserved, Papers) + margin - reserved[s]
        <3>1. PICK q : q = reserved'
            OBVIOUS
        <3>2. SumFunctionOnSet(q, Papers) = SumFunctionOnSet(reserved, Papers) + q[s] - reserved[s]
            BY <1>14, <2>3, <2>4, <3>1, SumMoves
        <3> QED BY <1>14, <3>1, <3>2
    <2>6. SumFunctionOnSet(g, Papers) = SumFunctionOnSet(f, Papers) + g[s] - f[s]
        BY <1>14, <2>3, SumMoves
    <2>7. /\ Paper!Total(reserved') = Paper!Total(reserved) + margin - reserved[s]
          /\ Paper!Total(g) = Paper!Total(f) + g[s] - f[s]
        BY <2>5, <2>6, SamePaperSum DEF Paper!Total
    <2>8. Paper!Total(reserved) \in Int /\ Paper!Total(f) \in Int
        <3>1. SumFunctionOnSet(reserved, Papers) \in Int /\ SumFunctionOnSet(f, Papers) \in Int
            BY <1>14, <2>3, SumInt
        <3> QED BY <3>1, SamePaperSum DEF Paper!Total
    <2>9. /\ balance \in Int /\ flow \in Int /\ fees \in Int /\ reserved[s] \in Int
          /\ g[s] \in Int /\ f[s] \in Int /\ paid \in Int
        BY <1>1, <1>9, <1>14 DEF AccountOK
    <2>10. spent + (margin - reserved[s]) = turned - paid - (g[s] - f[s])
        BY <1>15, <2>1
    <2> QED BY <1>9, <1>10, <2>2, <2>3, <2>7, <2>8, <2>9, <2>10
<1>18. MoneyAccounted'
    BY <1>16, <1>17 DEF MoneyAccounted, Paper!MoneyAccounted, Paper!Total
<1> QED BY <1>12, <1>13, <1>18 DEF PaperInv

\* Every step keeps the account.
LEMMA PaperStep == PaperInv /\ [Paper!Next]_paperVars => PaperInv'
<1> SUFFICES ASSUME PaperInv, [Paper!Next]_paperVars PROVE PaperInv'
    OBVIOUS
<1>1. up \in BOOLEAN /\ counter \in 0..MaxPaperOrders /\ MaxPaperOrders \in Nat
    BY PaperAssumption DEF PaperInv, AccountOK
<1>2. CASE Paper!Connect
    BY <1>1, <1>2, PaperRests DEF Paper!Connect
<1>3. CASE Paper!Close
    BY <1>1, <1>3, PaperRests DEF Paper!Close
<1>4. CASE Paper!Reject
    <2>1. up' \in BOOLEAN /\ counter' \in 0..MaxPaperOrders
        BY <1>1, <1>4 DEF Paper!Reject
    <2> QED BY <1>4, <2>1, PaperRests DEF Paper!Reject
<1>5. CASE \E s \in Papers, side \in {"BUY", "SELL"}, qty \in 1..MaxHeld : Paper!Order(s, side, qty)
    BY <1>5, OrderKeeps
<1>6. CASE UNCHANGED paperVars
    <2>1. /\ up' = up /\ counter' = counter
          /\ UNCHANGED <<balance, held, reserved, flow, fees, excused>>
        BY <1>6 DEF paperVars
    <2> QED BY <1>1, <2>1, PaperRests
<1> QED BY <1>2, <1>3, <1>4, <1>5, <1>6 DEF Paper!Next

\* No paper order prints or burns money (MockBroker.PlaceOrder, settleCash and
\* updatePosition): the cash, the margin, the holdings and the history agree
\* for any orders, prices and partial fills that leave whole averages.
THEOREM MoneyIsAccounted == Paper!Spec => []MoneyAccounted
<1>1. PaperInv => MoneyAccounted
    BY DEF PaperInv
<1> QED BY <1>1, InitPaper, PaperStep, PTL DEF Paper!Spec, paperVars, Paper!paperVars

-----------------------------------------------------------------------------
(***************************************************************************)
(* The types of every component, from the invariants above and a few more. *)
(***************************************************************************)
\* A watchdog's variables have their types: it keeps time no longer than it looks.
THEOREM WatchTyped == Watch!Spec => []Watch!TypeOK
<1>1. WatchIInv => Watch!TypeOK
    BY DEF WatchIInv
<1> QED
    BY <1>1, WatchInit, WatchNext, PTL DEF Watch!Spec

\* The paper account's variables have their types: no position is larger than the
\* largest order allowed makes it.
THEOREM PaperTyped == Paper!Spec => []Paper!TypeOK
<1>1. PaperInv => Paper!TypeOK
    <2> SUFFICES ASSUME PaperInv PROVE Paper!TypeOK
        OBVIOUS
    <2>1. ASSUME NEW s \in Papers
          PROVE  held[s] \in [side : {"none", "BUY", "SELL"}, qty : 0..MaxHeld, avg : Nat]
        <3>1. held[s] \in Holding /\ (held[s] = Paper!Flat \/ held[s].qty \in 1..MaxHeld)
            BY DEF PaperInv, HeldOK
        <3> QED
            BY <3>1, PaperAssumption DEF Holding, Paper!Flat
    <2>2. held \in [Papers -> [side : {"none", "BUY", "SELL"}, qty : 0..MaxHeld, avg : Nat]]
        BY <2>1 DEF PaperInv, HeldOK
    <2> QED
        BY <2>2 DEF PaperInv, AccountOK, Paper!TypeOK
<1> QED
    BY <1>1, InitPaper, PaperStep, PTL DEF Paper!Spec, paperVars, Paper!paperVars

\* What a backtest reports or refuses has its types still.
VerdictOK == TestTypes /\ verdict \in {"running", "report", "refused"}

\* Every step of a backtest keeps the types.
LEMMA VerdictKeeps == TestIInv /\ VerdictOK /\ [Test!Next]_(Test!backtestVars) => VerdictOK'
<1> SUFFICES ASSUME TestIInv, VerdictOK, [Test!Next]_(Test!backtestVars) PROVE VerdictOK'
    OBVIOUS
<1>1. TestTypes
    BY DEF VerdictOK
<1>2. CASE UNCHANGED Test!backtestVars
    BY <1>2 DEF VerdictOK, TestTypes, Test!backtestVars
<1>3. CASE Test!Evaluate
    <2>1. TestIInv' /\ verdict = "running"
        BY <1>3, EvaluateKeeps DEF Test!Evaluate
    <2>2. CASE Test!Expired
        <3>1. TradesOK /\ MarksOK
            BY <2>1 DEF TestIInv
        <3>2. peakEquity' \in Int /\ maxDD' \in Int
            BY <1>1, <1>3, <3>1, EvaluateMarks
        <3>3. verdict' = "refused" /\ UNCHANGED <<candle, position, trades, realized>>
            BY <1>3, <2>2 DEF Test!Evaluate, Test!Keep
        <3> QED
            BY <1>1, <3>2, <3>3 DEF VerdictOK, TestTypes
    <2>3. CASE ~Test!Expired
        <3>1. verdict' = "running"
            BY <1>3, <2>1, <2>3 DEF Test!Evaluate
        <3> QED
            BY <2>1, <3>1 DEF TestIInv, VerdictOK
    <2> QED
        BY <2>2, <2>3
<1>4. CASE Test!ForceClose
    <2>1. candle = Candles /\ verdict' = "report" /\ candle' = candle
        BY <1>4 DEF Test!ForceClose
    <2>2. CASE position = Test!Flat
        <3>1. UNCHANGED <<position, trades, realized, peakEquity, maxDD>>
            BY <1>4, <2>2 DEF Test!ForceClose, Test!Keep
        <3> QED
            BY <1>1, <2>1, <3>1 DEF VerdictOK, TestTypes
    <2>3. CASE position # Test!Flat
        <3>1. PICK premium \in Premiums :
                  LET trade == Test!Close(position, Candles, premium, TRUE) IN
                  Test!Finish(trade) /\ Test!Mark(realized + trade.net)
            BY <1>4, <2>3 DEF Test!ForceClose
        <3>2. PICK t : t = Test!Close(position, Candles, premium, TRUE)
            OBVIOUS
        <3>3. Candles \in 1..Candles
            BY <1>1, <2>1, <2>3, TestAssumption DEF TestTypes, Test!Position
        <3>4. t \in Trade /\ t.net \in Int
            BY <1>1, <2>3, <3>2, <3>3, FillTyped DEF Trade
        <3>5. /\ trades' = Append(trades, t) /\ realized' = realized + t.net
              /\ position' = Test!Flat /\ Test!Mark(realized + t.net)
            BY <3>1, <3>2 DEF Test!Finish
        <3>6. realized + t.net \in Int /\ trades' \in Seq(Trade)
            BY <1>1, <3>4, <3>5 DEF TestTypes
        <3>7. peakEquity' \in Int /\ maxDD' \in Int
            BY <1>1, <3>5, <3>6, MarkCovers
        <3>8. position' \in Test!Position
            BY <3>5 DEF Test!Position
        <3> QED
            BY <1>1, <2>1, <3>5, <3>6, <3>7, <3>8 DEF VerdictOK, TestTypes
    <2> QED
        BY <2>2, <2>3
<1> QED
    BY <1>2, <1>3, <1>4 DEF Test!Next

\* A backtest's variables have their types, a report's too.
THEOREM TestTyped == Test!Spec => []Test!TypeOK
<1>1. Test!Init => VerdictOK
    BY TestAssumption DEF Test!Init, VerdictOK, TestTypes, Test!Position
<1>2. VerdictOK => Test!TypeOK
    BY DEF VerdictOK, TestTypes, Trade, Test!TypeOK
<1> QED
    BY <1>1, <1>2, TestInit, TestNext, VerdictKeeps, PTL DEF Test!Spec

(***************************************************************************)
(* Every variable of every component keeps its type, whatever the          *)
(* constants: no counter passes its bound, no buffer its size, no book     *)
(* the orders it is made of.                                               *)
(***************************************************************************)
THEOREM EveryTypeHolds ==
    /\ Session!Spec /\ Broker!Spec /\ Price!Spec /\ Feed!Spec /\ Paper!Spec
    /\ Server!Spec /\ Watch!Spec /\ History!Spec /\ Test!Spec /\ Signals!Spec
    => []TypeOK
<1>1. Session!TypeOK /\ Broker!TypeOK /\ Price!TypeOK /\ Feed!TypeOK /\ Paper!TypeOK
      /\ Server!TypeOK /\ Watch!TypeOK /\ History!TypeOK /\ Test!TypeOK /\ Signals!TypeOK
      => TypeOK
    BY DEF TypeOK
<1> QED
    BY <1>1, SessionTyped, BrokerTyped, PriceTyped, FeedTyped, PaperTyped, ServerTyped, WatchTyped,
       HistoryTyped, TestTyped, SignalsTyped, PTL
=============================================================================
