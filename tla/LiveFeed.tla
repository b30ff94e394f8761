------------------------------ MODULE LiveFeed ------------------------------
(***************************************************************************)
(* wsFeed, the live feed of AngelBroker: a goroutine that connects, sends  *)
(* the whole desired set and serves the connection until it breaks, with a *)
(* writer, a heartbeat and a closer per connection; SubscribeLive,         *)
(* UnsubscribeLive and Close, which main's goroutine calls one at a time;  *)
(* and the server, which streams what its connection subscribed.           *)
(*                                                                         *)
(* An unlocked stretch of the code is a step of its own.  A channel other  *)
(* than the published one has no reader any more, so what is put there is  *)
(* gone and only the published channel is kept.                            *)
(***************************************************************************)
EXTENDS Naturals, Sequences

CONSTANTS
    Contracts,   \* symbols the instrument master resolves
    QueueSize,   \* capacity of a connection's write channel (16 in the code)
    MaxCalls,    \* bound: calls of SubscribeLive and UnsubscribeLive
    MaxBreaks    \* bound: dials that fail and connections that break

VARIABLES
    desired,     \* wsFeed.symbols
    feed,        \* where the feed's goroutine is
    snapshot,    \* the set it has still to put on a new connection's channel
    cancelled,   \* stop() has cancelled the feed's context
    published,   \* wsFeed.writeCh is the current connection's channel, not nil
    queue,       \* that channel
    socket,      \* the connection
    helpers,     \* the connection's goroutines that have not ended
    caller,      \* main's goroutine, in or between its calls
    calls, breaks,  \* spent bounds
    streamed,    \* what the server streams on the connection
    dropped      \* history: symbols whose last subscription the full channel refused

feedVars == <<desired, feed, snapshot, cancelled, published, queue, socket, helpers,
              caller, calls, breaks, streamed, dropped>>

-----------------------------------------------------------------------------
(***************************************************************************)
(* A frame on the write channel; "ping" and "pong" are beats.  The call    *)
(* main's goroutine is in has a frame to send and the channel it has read. *)
(***************************************************************************)
Frame(action, syms) == [action |-> action, syms |-> syms]
Frames == [action : {"subscribe", "unsubscribe", "beat"}, syms : SUBSET Contracts]
Beat == Frame("beat", {})

Idle == [at |-> "idle", frame |-> Beat, channel |-> "nil"]
Calls == [at : {"idle", "added", "started", "sending", "stopping", "stopped"},
          frame : Frames, channel : {"nil", "current", "old"}]

Feeds == {"off", "dial", "joined", "writing", "serving", "tearing", "backoff", "ended"}

\* connCtx: of the feed's context, and cancelled once the read loop ends.
ConnCancelled == cancelled \/ feed = "tearing"

Break == breaks < MaxBreaks /\ breaks' = breaks + 1

\* Connect has succeeded; the feed is not started.
Init ==
    /\ desired = {}
    /\ feed = "off"
    /\ snapshot = {}
    /\ cancelled = FALSE
    /\ published = FALSE
    /\ queue = <<>>
    /\ socket = "none"
    /\ helpers = {}
    /\ caller = Idle
    /\ calls = 0
    /\ breaks = 0
    /\ streamed = {}
    /\ dropped = {}

Asked(frame) == IF frame.action = "subscribe" THEN frame.syms ELSE {}

\* A frame put on the published channel, or dropped if there is no room.
Enqueue(frame) ==
    IF Len(queue) < QueueSize
        THEN queue' = Append(queue, frame) /\ dropped' = dropped \ Asked(frame)
        ELSE UNCHANGED queue /\ dropped' = dropped \cup Asked(frame)

-----------------------------------------------------------------------------
(***************************************************************************)
(* SubscribeLive: addSymbols, ensureStarted, sendSubscribeIfConnected.     *)
(* UnsubscribeLive removes the symbol and reads the channel at once.       *)
(***************************************************************************)
feedSide == <<snapshot, published, socket, helpers, breaks, streamed>>

Channel == IF published THEN "current" ELSE "nil"

AddSymbols(s) ==
    /\ caller.at = "idle"
    /\ calls < MaxCalls
    /\ calls' = calls + 1
    /\ desired' = desired \cup {s}
    /\ caller' = [Idle EXCEPT !.at = "added", !.frame = Frame("subscribe", {s})]
    /\ UNCHANGED <<feedSide, feed, cancelled, queue, dropped>>

EnsureStarted ==
    /\ caller.at = "added"
    /\ caller' = [caller EXCEPT !.at = "started"]
    /\ feed' = IF feed = "off" THEN "dial" ELSE feed
    /\ UNCHANGED <<feedSide, desired, cancelled, queue, calls, dropped>>

ReadChannel ==
    /\ caller.at = "started"
    /\ caller' = [caller EXCEPT !.at = "sending", !.channel = Channel]
    /\ UNCHANGED <<feedSide, desired, feed, cancelled, queue, calls, dropped>>

Unsubscribe(s) ==
    /\ caller.at = "idle"
    /\ calls < MaxCalls
    /\ s \in desired
    /\ calls' = calls + 1
    /\ desired' = desired \ {s}
    /\ caller' = [at |-> "sending", frame |-> Frame("unsubscribe", {s}), channel |-> Channel]
    /\ UNCHANGED <<feedSide, feed, cancelled, queue, dropped>>

SendFrame ==
    /\ caller.at = "sending"
    /\ caller' = Idle
    /\ IF caller.channel = "current" THEN Enqueue(caller.frame) ELSE UNCHANGED <<queue, dropped>>
    /\ UNCHANGED <<feedSide, desired, feed, cancelled, calls>>

\* Close: stop() cancels, then waits for the feed's goroutine to end.
Stop ==
    /\ caller.at = "idle"
    /\ caller' = [Idle EXCEPT !.at = "stopping"]
    /\ cancelled' = (feed # "off")
    /\ UNCHANGED <<feedSide, desired, feed, queue, calls, dropped>>

Stopped ==
    /\ caller.at = "stopping"
    /\ feed \in {"off", "ended"}
    /\ caller' = [caller EXCEPT !.at = "stopped"]
    /\ UNCHANGED <<feedSide, desired, feed, cancelled, queue, calls, dropped>>

-----------------------------------------------------------------------------
(***************************************************************************)
(* run and connectAndServe.                                                *)
(***************************************************************************)
mainSide == <<desired, cancelled, caller, calls>>
connection == <<queue, socket, helpers, streamed, dropped>>

\* The dial, or the wait for the next one, observes the feed's context.
DialEnds ==
    /\ feed \in {"dial", "backoff"}
    /\ cancelled
    /\ feed' = "ended"
    /\ UNCHANGED <<mainSide, connection, snapshot, published, breaks>>

DialFails ==
    /\ feed = "dial"
    /\ Break
    /\ feed' = "backoff"
    /\ UNCHANGED <<mainSide, connection, snapshot, published>>

Backoff ==
    /\ feed = "backoff"
    /\ feed' = "dial"
    /\ UNCHANGED <<mainSide, connection, snapshot, published, breaks>>

\* Fault: a new connection does not subscribe what the last one had.
PublishOnly ==
    /\ feed = "dial"
    /\ feed' = "joined"
    /\ published' = TRUE
    /\ snapshot' = {}
    /\ queue' = <<>> /\ dropped' = {}
    /\ socket' = "up" /\ streamed' = {}
    /\ helpers' = {"closer"}
    /\ UNCHANGED <<mainSide, breaks>>

\* A dial that succeeds: under one lock the new channel is published and the
\* desired set read.
Publish ==
    /\ feed = "dial"
    /\ feed' = "joined"
    /\ published' = TRUE
    /\ snapshot' = desired
    /\ queue' = <<>> /\ dropped' = {}
    /\ socket' = "up" /\ streamed' = {}
    /\ helpers' = {"closer"}
    /\ UNCHANGED <<mainSide, breaks>>

StartWriter ==
    /\ feed = "joined"
    /\ feed' = "writing"
    /\ helpers' = helpers \cup {"writer"}
    /\ UNCHANGED <<mainSide, snapshot, published, queue, socket, breaks, streamed, dropped>>

SubscribeAll ==
    /\ feed = "writing"
    /\ feed' = "serving"
    /\ helpers' = helpers \cup {"heartbeat"}
    /\ IF snapshot = {} THEN UNCHANGED <<queue, dropped>> ELSE Enqueue(Frame("subscribe", snapshot))
    /\ snapshot' = {}
    /\ UNCHANGED <<mainSide, published, socket, breaks, streamed>>

\* handleText: the server's "ping" gets a "pong", if there is room.
Pong ==
    /\ feed = "serving"
    /\ socket = "up"
    /\ Enqueue(Beat)
    /\ UNCHANGED <<mainSide, feed, snapshot, published, socket, helpers, breaks, streamed>>

\* Reading ends when the connection does or nothing comes for wsReadTimeout.
ReadFails ==
    /\ feed = "serving"
    /\ socket \in {"silent", "broken", "closed"}
    /\ feed' = "tearing"
    /\ UNCHANGED <<mainSide, connection, snapshot, published, breaks>>

\* connCancel, the waits for the three helpers, and the deferred reset.
Teardown ==
    /\ feed = "tearing"
    /\ helpers = {}
    /\ feed' = IF cancelled THEN "ended" ELSE "backoff"
    /\ published' = FALSE
    /\ queue' = <<>> /\ dropped' = {}
    /\ socket' = "none" /\ streamed' = {}
    /\ caller' = [caller EXCEPT !.channel = IF @ = "current" THEN "old" ELSE @]
    /\ UNCHANGED <<desired, snapshot, cancelled, calls, helpers, breaks>>

-----------------------------------------------------------------------------
(***************************************************************************)
(* The connection's helpers and the server.  A write to a server that has  *)
(* gone silent is lost, or waits until the connection is closed.           *)
(***************************************************************************)
feedSteps == <<mainSide, feed, snapshot, published>>

Write ==
    /\ "writer" \in helpers
    /\ queue # <<>>
    /\ LET frame == Head(queue) IN
       CASE socket = "up" ->
              /\ queue' = Tail(queue)
              /\ streamed' = CASE frame.action = "subscribe" -> streamed \cup frame.syms
                               [] frame.action = "unsubscribe" -> streamed \ frame.syms
                               [] OTHER -> streamed
              /\ UNCHANGED helpers
         [] socket = "silent" -> queue' = Tail(queue) /\ UNCHANGED <<streamed, helpers>>
         [] OTHER -> helpers' = helpers \ {"writer"} /\ UNCHANGED <<queue, streamed>>
    /\ UNCHANGED <<feedSteps, socket, breaks, dropped>>

WriteBlocks ==
    /\ "writer" \in helpers
    /\ queue # <<>>
    /\ socket = "silent"
    /\ helpers' = (helpers \ {"writer"}) \cup {"blocked"}
    /\ UNCHANGED <<feedSteps, queue, socket, breaks, streamed, dropped>>

\* Fault: the writer waits for frames only.
WriterEndsOnError ==
    /\ "blocked" \in helpers /\ socket \in {"broken", "closed"}
    /\ helpers' = helpers \ {"writer", "blocked"}
    /\ UNCHANGED <<feedSteps, queue, socket, breaks, streamed, dropped>>

WriterEnds ==
    /\ \/ "writer" \in helpers /\ ConnCancelled
       \/ "blocked" \in helpers /\ socket \in {"broken", "closed"}
    /\ helpers' = helpers \ {"writer", "blocked"}
    /\ UNCHANGED <<feedSteps, queue, socket, breaks, streamed, dropped>>

Heartbeat ==
    /\ "heartbeat" \in helpers
    /\ Enqueue(Beat)
    /\ UNCHANGED <<feedSteps, socket, helpers, breaks, streamed>>

HeartbeatEnds ==
    /\ "heartbeat" \in helpers
    /\ ConnCancelled
    /\ helpers' = helpers \ {"heartbeat"}
    /\ UNCHANGED <<feedSteps, queue, socket, breaks, streamed, dropped>>

Closer ==
    /\ "closer" \in helpers
    /\ ConnCancelled
    /\ helpers' = helpers \ {"closer"}
    /\ socket' = "closed"
    /\ UNCHANGED <<feedSteps, queue, breaks, streamed, dropped>>

\* The network: the connection breaks, or the peer is heard no more.
ConnectionFails ==
    /\ socket = "up"
    /\ Break
    /\ socket' \in {"broken", "silent"}
    /\ UNCHANGED <<feedSteps, queue, helpers, streamed, dropped>>

-----------------------------------------------------------------------------
MainGoesOn == EnsureStarted \/ ReadChannel \/ SendFrame \/ Stopped
FeedGoesOn == DialEnds \/ Backoff \/ Publish \/ StartWriter \/ SubscribeAll \/ ReadFails \/ Teardown
Writer == Write \/ WriterEnds

Next ==
    \/ \E s \in Contracts : AddSymbols(s) \/ Unsubscribe(s)
    \/ Stop \/ MainGoesOn
    \/ FeedGoesOn \/ DialFails \/ Pong
    \/ Writer \/ WriteBlocks \/ Heartbeat \/ HeartbeatEnds \/ Closer
    \/ ConnectionFails

\* Goroutines run; main need not call again, nor the network fail.
Spec ==
    /\ Init /\ [][Next]_feedVars
    /\ WF_feedVars(MainGoesOn) /\ WF_feedVars(FeedGoesOn) /\ WF_feedVars(Writer)
    /\ WF_feedVars(HeartbeatEnds) /\ WF_feedVars(Closer)

-----------------------------------------------------------------------------
TypeOK ==
    /\ desired \subseteq Contracts
    /\ feed \in Feeds
    /\ snapshot \subseteq Contracts
    /\ cancelled \in BOOLEAN
    /\ published \in BOOLEAN
    /\ queue \in Seq(Frames) /\ Len(queue) <= QueueSize
    /\ socket \in {"none", "up", "silent", "broken", "closed"}
    /\ helpers \subseteq {"writer", "blocked", "heartbeat", "closer"}
    /\ caller \in Calls
    /\ calls \in 0..MaxCalls
    /\ breaks \in 0..MaxBreaks
    /\ streamed \subseteq Contracts
    /\ dropped \subseteq Contracts

(***************************************************************************)
(* Close returns: the feed's goroutine and the three helpers it waits for  *)
(* do not wait for each other, nor for a silent server.                    *)
(***************************************************************************)
StopReturns == caller.at = "stopping" ~> caller.at = "stopped"

(***************************************************************************)
(* Whichever of a call and a (re)connection comes first, no symbol falls   *)
(* between them: once everything sent has been written, the server streams *)
(* every desired symbol but those the full channel refused.                *)
(***************************************************************************)
AllSent == feed = "serving" /\ socket = "up" /\ "writer" \in helpers /\ queue = <<>>
               /\ caller.at = "idle"
Streaming == desired \subseteq streamed \cup dropped

NoSymbolFallsBetween == AllSent => Streaming

(***************************************************************************)
(* Unless it is closed, the feed comes back to streaming every desired     *)
(* symbol from every failure, a silent connection included.                *)
(***************************************************************************)
FeedRecovers == <>[](cancelled \/ Streaming)
=============================================================================
