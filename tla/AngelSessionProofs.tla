------------------------- MODULE AngelSessionProofs -------------------------
(***************************************************************************)
(* Proofs about AngelSession, for any number of goroutines, expiries and   *)
(* lost messages: doAPIRequest implements ApiCall.                         *)
(*                                                                         *)
(* The retry is safe because the trip before it was refused for its token, *)
(* and Angel One has not let such a request take effect.  Safe says so of  *)
(* a request at every point of its way.                                    *)
(***************************************************************************)
EXTENDS Services, TLAPS

\* A trip that carries the caller's request.
Carries(r) == r.trip \in {"first", "retry"}

Safe(r) ==
    /\ r.effects \in {0, 1}
    /\ r.trip = "idle" => r.wire # "out"
    /\ r.trip \in {"refresh", "login"} => r.effects = 0
    /\ Carries(r) /\ r.wire # "back" => r.effects = 0
    /\ Carries(r) /\ r.wire = "back" /\ r.reply = "ok" => r.effects = 1
    /\ Carries(r) /\ r.wire = "back" /\ r.reply \in {"unauthorized", "declined"} => r.effects = 0

SessionTypes ==
    /\ accessToken \in BOOLEAN
    /\ refreshToken \in BOOLEAN
    /\ request \in [Callers -> Session!Request]

SessionIInv == SessionTypes /\ \A c \in Callers : Safe(request[c])

Phase(r) == IF r.trip = "idle" THEN "idle" ELSE "open"

-----------------------------------------------------------------------------
\* Steps the contract does not see.
LEMMA Unseen ==
    ASSUME NEW c \in Callers, NEW r, SessionTypes,
           request' = [request EXCEPT ![c] = r],
           Phase(r) = Phase(request[c]),
           r.effects = request[c].effects, r.answer = request[c].answer
    PROVE  UNCHANGED Session!Contract!apiVars
  BY DEF SessionTypes, Phase, Session!Contract!apiVars

\* A request begins.
LEMMA Requests ==
    ASSUME NEW c \in Callers, NEW r, SessionTypes,
           request' = [request EXCEPT ![c] = r],
           request[c].trip = "idle", r.trip # "idle",
           r.effects = 0, r.answer = "none"
    PROVE  Session!Contract!Next
  <1>1. Session!Contract!Request(c)
    BY DEF SessionTypes, Session!Contract!Request
  <1> QED
    BY <1>1 DEF Session!Contract!Next

\* A request takes effect.
LEMMA Takes ==
    ASSUME NEW c \in Callers, NEW r, SessionTypes,
           request' = [request EXCEPT ![c] = r],
           request[c].trip # "idle", r.trip = request[c].trip,
           request[c].effects = 0, r.effects = 1, r.answer = request[c].answer
    PROVE  Session!Contract!Next
  <1>1. Session!Contract!Take(c)
    BY DEF SessionTypes, Session!Contract!Take
  <1> QED
    BY <1>1 DEF Session!Contract!Next

\* A request is answered with what came of it.
LEMMA Replied ==
    ASSUME NEW c \in Callers, NEW r, SessionTypes,
           request' = [request EXCEPT ![c] = r],
           request[c].trip # "idle", r.trip = "idle", r.effects = request[c].effects,
           \/ r.answer = "failed"
           \/ r.answer = "ok" /\ r.effects = 1
           \/ r.answer = "declined" /\ r.effects = 0
    PROVE  Session!Contract!Next
  <1>1. Session!Contract!Reply(c)
    BY DEF SessionTypes, Session!Contract!Reply
  <1> QED
    BY <1>1 DEF Session!Contract!Next

-----------------------------------------------------------------------------
\* A request that has not been made is one.
LEMMA NoRequestTyped == Session!NoRequest \in Session!Request /\ Safe(Session!NoRequest)
  BY DEF Session!NoRequest, Session!Request, Session!Replies, Safe, Carries

\* The invariant after a step that changes one request.
LEMMA OneRequest ==
    ASSUME SessionIInv, NEW c \in Callers, NEW r \in Session!Request, Safe(r),
           request' = [request EXCEPT ![c] = r],
           accessToken' \in BOOLEAN, refreshToken' \in BOOLEAN
    PROVE  SessionIInv'
  BY DEF SessionIInv, SessionTypes

\* A request is sent again, or another trip is: it goes on as it was.
LEMMA GoTyped ==
    ASSUME SessionIInv, NEW c \in Callers, request[c].trip # "idle", request[c].effects = 0,
           NEW trip \in {"refresh", "login", "retry"}, Session!Go(c, trip),
           accessToken' \in BOOLEAN, refreshToken' \in BOOLEAN
    PROVE  SessionIInv' /\ UNCHANGED Session!Contract!apiVars
  <1>1. ASSUME NEW q \in Session!Request
        PROVE  LET r == [q EXCEPT !.trip = trip, !.wire = "ready", !.reply = "none"] IN
               /\ r \in Session!Request /\ r.trip = trip /\ r.wire = "ready" /\ r.reply = "none"
               /\ r.effects = q.effects /\ r.answer = q.answer
    BY DEF Session!Request, Session!Replies
  <1> DEFINE r == [request[c] EXCEPT !.trip = trip, !.wire = "ready", !.reply = "none"]
  <1>2. request[c] \in Session!Request /\ request \in [Callers -> Session!Request]
    BY DEF SessionIInv, SessionTypes
  <1>3. request' = [request EXCEPT ![c] = r]
    BY <1>2 DEF Session!Go
  <1>4. /\ r \in Session!Request /\ r.trip = trip /\ r.wire = "ready" /\ r.reply = "none"
        /\ r.effects = request[c].effects /\ r.answer = request[c].answer
    BY <1>1, <1>2
  <1> HIDE DEF r
  <1>5. Safe(r)
    BY <1>4 DEF Safe
  <1>6. Phase(r) = Phase(request[c])
    BY <1>4 DEF Phase
  <1> QED
    BY <1>3, <1>4, <1>5, <1>6, OneRequest, Unseen DEF SessionIInv

\* An answer is the contract's if what came of the request allows it.
LEMMA AnswerTyped ==
    ASSUME SessionIInv, NEW c \in Callers, request[c].trip # "idle",
           NEW answer \in {"ok", "declined", "failed"}, Session!Answer(c, answer),
           answer = "ok" => request[c].effects = 1,
           answer = "declined" => request[c].effects = 0,
           UNCHANGED <<accessToken, refreshToken>>
    PROVE  SessionIInv' /\ Session!Contract!Next
  <1> DEFINE r == [Session!NoRequest EXCEPT !.effects = request[c].effects, !.answer = answer]
  <1>1. request' = [request EXCEPT ![c] = r]
    BY DEF Session!Answer
  <1>2. request[c].effects \in {0, 1} /\ SessionTypes
    BY DEF SessionIInv, Safe
  <1>3. request[c].effects \in Nat
    BY <1>2
  <1>4. Session!NoRequest.trip = "idle" /\ Session!NoRequest.wire = "ready"
    BY DEF Session!NoRequest
  <1>5. /\ r \in Session!Request /\ r.trip = "idle" /\ r.wire = "ready"
        /\ r.effects = request[c].effects /\ r.answer = answer
    <2>1. \A q \in Session!Request, k \in Nat :
             /\ [q EXCEPT !.effects = k, !.answer = answer] \in Session!Request
             /\ [q EXCEPT !.effects = k, !.answer = answer].trip = q.trip
             /\ [q EXCEPT !.effects = k, !.answer = answer].wire = q.wire
             /\ [q EXCEPT !.effects = k, !.answer = answer].effects = k
             /\ [q EXCEPT !.effects = k, !.answer = answer].answer = answer
      BY DEF Session!Request
    <2> QED
      BY <1>3, <1>4, <2>1, NoRequestTyped, Zenon
  <1> HIDE DEF r
  <1>6. Safe(r)
    BY <1>2, <1>5 DEF Safe, Carries
  <1>7. SessionIInv'
    BY <1>1, <1>5, <1>6, OneRequest DEF SessionIInv, SessionTypes
  <1>8. Session!Contract!Next
    BY <1>1, <1>2, <1>5, Replied
  <1> QED
    BY <1>7, <1>8

\* Angel One's reply to a trip: a request that carries an accepted token, and
\* not another trip, is what takes effect.
LEMMA ReturnTyped ==
    ASSUME SessionIInv, NEW c \in Callers, request[c].trip # "idle", request[c].wire = "out",
           NEW reply \in Session!Replies \ {"none"}, NEW took \in BOOLEAN, Session!Return(c, reply, took),
           reply = "ok" => took,
           reply \in {"unauthorized", "declined"} => ~took,
           UNCHANGED <<accessToken, refreshToken>>
    PROVE  SessionIInv' /\ (Session!Contract!Next \/ UNCHANGED Session!Contract!apiVars)
  <1> DEFINE n == IF took /\ request[c].trip \in {"first", "retry"}
                  THEN request[c].effects + 1 ELSE request[c].effects
             r == [request[c] EXCEPT !.wire = "back", !.reply = reply, !.effects = n]
  <1>1. /\ request[c] \in Session!Request /\ request \in [Callers -> Session!Request]
        /\ SessionTypes /\ Safe(request[c])
    BY DEF SessionIInv, SessionTypes
  <1>2. request' = [request EXCEPT ![c] = r]
    BY <1>1 DEF Session!Return
  <1>3. request[c].effects = 0
    BY <1>1 DEF Safe, Carries, Session!Request
  <1>4. n = IF took /\ Carries(request[c]) THEN 1 ELSE 0
    BY <1>3 DEF Carries
  <1> HIDE DEF n
  <1>5. n \in Nat
    BY <1>4
  <1>6. /\ r \in Session!Request /\ r.trip = request[c].trip /\ r.wire = "back" /\ r.reply = reply
        /\ r.effects = n /\ r.answer = request[c].answer
    <2>1. \A q \in Session!Request, k \in Nat :
             /\ [q EXCEPT !.wire = "back", !.reply = reply, !.effects = k] \in Session!Request
             /\ [q EXCEPT !.wire = "back", !.reply = reply, !.effects = k].trip = q.trip
             /\ [q EXCEPT !.wire = "back", !.reply = reply, !.effects = k].wire = "back"
             /\ [q EXCEPT !.wire = "back", !.reply = reply, !.effects = k].reply = reply
             /\ [q EXCEPT !.wire = "back", !.reply = reply, !.effects = k].effects = k
             /\ [q EXCEPT !.wire = "back", !.reply = reply, !.effects = k].answer = q.answer
      BY DEF Session!Request
    <2> QED
      BY <1>1, <1>5, <2>1, Zenon
  <1> HIDE DEF r
  <1>7. Safe(r)
    BY <1>4, <1>6 DEF Safe, Carries
  <1>8. SessionIInv'
    BY <1>1, <1>2, <1>6, <1>7, OneRequest DEF SessionIInv, SessionTypes
  <1>9. CASE n = 1
    BY <1>1, <1>2, <1>3, <1>6, <1>8, <1>9, Takes
  <1>10. CASE n = 0
    <2>1. Phase(r) = Phase(request[c])
      BY <1>6 DEF Phase
    <2> QED
      BY <1>1, <1>2, <1>3, <1>6, <1>8, <1>10, <2>1, Unseen
  <1> QED
    BY <1>4, <1>9, <1>10

-----------------------------------------------------------------------------
\* The initial states satisfy the invariant and the contract's.
LEMMA SessionInit == Session!Init => SessionIInv /\ Session!Contract!Init
  BY NoRequestTyped DEF Session!Init, SessionIInv, SessionTypes, Session!Contract!Init, Session!NoRequest

\* A request that begins, and one that is sent, keep both.
LEMMA TripKeeps ==
    ASSUME SessionIInv, NEW c \in Callers, Session!Begin(c) \/ Session!Send(c)
    PROVE  SessionIInv' /\ (Session!Contract!Next \/ UNCHANGED Session!Contract!apiVars)
  <1>1. /\ request \in [Callers -> Session!Request] /\ request[c] \in Session!Request /\ SessionTypes
        /\ Safe(request[c]) /\ accessToken' \in BOOLEAN /\ refreshToken' \in BOOLEAN
        /\ accessToken \in BOOLEAN /\ refreshToken \in BOOLEAN
    BY DEF SessionIInv, SessionTypes, Session!Begin, Session!Send
  <1>2. CASE Session!Begin(c)
    <2> DEFINE r == [Session!NoRequest EXCEPT !.trip = "first", !.wire = "out", !.token = accessToken]
    <2>1. request' = [request EXCEPT ![c] = r] /\ request[c].trip = "idle"
      BY <1>2 DEF Session!Begin
    <2>2. /\ r \in Session!Request /\ r.trip = "first" /\ r.wire = "out"
          /\ r.effects = 0 /\ r.answer = "none"
      BY <1>1 DEF Session!NoRequest, Session!Request, Session!Replies
    <2> HIDE DEF r
    <2>3. Safe(r)
      BY <2>2 DEF Safe
    <2> QED
      BY <1>1, <2>1, <2>2, <2>3, OneRequest, Requests
  <1>3. CASE Session!Send(c)
    <2>1. PICK token \in BOOLEAN :
            request' = [request EXCEPT ![c].wire = "out", ![c].token = token]
      BY <1>1, <1>3 DEF Session!Send
    <2> DEFINE r == [request[c] EXCEPT !.wire = "out", !.token = token]
    <2>2. /\ request' = [request EXCEPT ![c] = r]
          /\ request[c].wire = "ready" /\ request[c].trip # "idle"
      BY <1>1, <1>3, <2>1 DEF Session!Send
    <2>3. ASSUME NEW q \in Session!Request
          PROVE  LET s == [q EXCEPT !.wire = "out", !.token = token] IN
                 /\ s \in Session!Request /\ s.trip = q.trip /\ s.wire = "out"
                 /\ s.effects = q.effects /\ s.answer = q.answer
      BY DEF Session!Request
    <2>4. /\ r \in Session!Request /\ r.trip = request[c].trip /\ r.wire = "out"
          /\ r.effects = request[c].effects /\ r.answer = request[c].answer
      BY <1>1, <2>3
    <2> HIDE DEF r
    <2>5. Safe(r)
      BY <1>1, <2>2, <2>4 DEF Safe, Carries
    <2>6. Phase(r) = Phase(request[c])
      BY <2>4 DEF Phase
    <2> QED
      BY <1>1, <2>2, <2>4, <2>5, <2>6, OneRequest, Unseen
  <1> QED
    BY <1>2, <1>3

\* What Angel One does with a trip keeps both.
LEMMA ServeKeeps ==
    ASSUME SessionIInv, NEW c \in Callers, Session!Serve(c) \/ Session!Lapse(c)
    PROVE  SessionIInv' /\ (Session!Contract!Next \/ UNCHANGED Session!Contract!apiVars)
  <1>1. /\ request[c].wire = "out" /\ request[c].trip # "idle"
        /\ UNCHANGED <<accessToken, refreshToken>>
    BY DEF Session!Serve, Session!Lapse, SessionIInv, Safe
  <1>2. request[c].token \in BOOLEAN
    BY DEF SessionIInv, SessionTypes, Session!Request
  <1>3. \E reply \in Session!Replies \ {"none"}, took \in BOOLEAN :
          /\ Session!Return(c, reply, took)
          /\ reply = "ok" => took
          /\ reply \in {"unauthorized", "declined"} => ~took
    <2>1. CASE Session!Serve(c)
      <3>1. {"ok", "unauthorized"} \subseteq Session!Replies \ {"none"}
        BY DEF Session!Replies
      <3>2. Session!Return(c, "ok", TRUE) \/ Session!Return(c, "unauthorized", FALSE)
        BY <2>1 DEF Session!Serve
      <3> QED
        BY <3>1, <3>2, Zenon
    <2>2. CASE Session!Lapse(c)
      <3>1. {"declined", "refused", "lost"} \subseteq Session!Replies \ {"none"}
        BY DEF Session!Replies
      <3>2. \/ \E reply \in {"declined", "refused"} : Session!Return(c, reply, FALSE)
            \/ \E took \in BOOLEAN : Session!Return(c, "lost", took)
        BY <1>2, <2>2 DEF Session!Lapse
      <3> QED
        BY <3>1, <3>2, Zenon
    <2> QED
      BY <2>1, <2>2
  <1> QED
    BY <1>1, <1>3, ReturnTyped

\* What doAPIRequest does with what came back keeps both.
LEMMA HandleKeeps ==
    ASSUME SessionIInv, NEW c \in Callers, Session!Handle(c)
    PROVE  SessionIInv' /\ (Session!Contract!Next \/ UNCHANGED Session!Contract!apiVars)
  <1>1. Safe(request[c]) /\ accessToken \in BOOLEAN /\ refreshToken \in BOOLEAN
    BY DEF SessionIInv, SessionTypes
  <1>2. request[c].token \in BOOLEAN
    BY DEF SessionIInv, SessionTypes, Session!Request
  <1>3. CASE Session!Succeed(c)
    <2>1. request[c].trip # "idle" /\ request[c].effects = 1
      BY <1>1, <1>3 DEF Session!Succeed, Session!Back, Session!At, Safe, Carries
    <2> QED
      BY <1>3, <2>1, AnswerTyped DEF Session!Succeed
  <1>4. CASE Session!Decline(c)
    <2>1. request[c].trip # "idle" /\ request[c].effects = 0
      BY <1>1, <1>4 DEF Session!Decline, Session!Back, Session!At, Safe, Carries
    <2> QED
      BY <1>4, <2>1, AnswerTyped DEF Session!Decline
  <1>5. CASE Session!Fail(c) \/ Session!AuthFails(c)
    <2>1. request[c].trip # "idle"
      BY <1>5 DEF Session!Fail, Session!AuthFails, Session!Back, Session!At
    <2> QED
      BY <1>5, <2>1, AnswerTyped DEF Session!Fail, Session!AuthFails
  <1>6. CASE Session!SessionLost(c)
    <2>1. request[c].trip # "idle" /\ request[c].effects = 0
      BY <1>1, <1>6 DEF Session!SessionLost, Session!Back, Session!At, Safe, Carries
    <2> QED
      BY <1>1, <1>6, <2>1, GoTyped DEF Session!SessionLost
  <1>7. CASE Session!NotRefreshed(c)
    <2>1. request[c].trip # "idle" /\ request[c].effects = 0
      BY <1>1, <1>7 DEF Session!NotRefreshed, Session!Back, Session!At, Safe
    <2> QED
      BY <1>1, <1>7, <2>1, GoTyped DEF Session!NotRefreshed
  <1>8. CASE Session!Refreshed(c) \/ Session!LoggedIn(c)
    <2>1. request[c].trip # "idle" /\ request[c].effects = 0
      BY <1>1, <1>8 DEF Session!Refreshed, Session!LoggedIn, Session!Back, Session!At, Safe
    <2>2. accessToken' \in BOOLEAN /\ refreshToken' \in BOOLEAN /\ Session!Go(c, "retry")
      BY <1>1, <1>2, <1>8 DEF Session!Refreshed, Session!LoggedIn
    <2> QED
      BY <2>1, <2>2, GoTyped
  <1> QED
    BY <1>3, <1>4, <1>5, <1>6, <1>7, <1>8 DEF Session!Handle

\* The end of every session keeps both.
LEMMA ExpireKeeps ==
    ASSUME SessionIInv, Session!Expire
    PROVE  SessionIInv' /\ UNCHANGED Session!Contract!apiVars
  <1> DEFINE expired(c) == [request[c] EXCEPT !.token = @ /\ request[c].trip = "login"
                                                         /\ request[c].wire = "out"]
  <1>1. /\ request \in [Callers -> Session!Request]
        /\ request' = [c \in Callers |-> expired(c)]
        /\ accessToken' \in BOOLEAN /\ refreshToken' \in BOOLEAN
    BY DEF SessionIInv, SessionTypes, Session!Expire
  <1>2. ASSUME NEW c \in Callers
        PROVE  /\ expired(c) \in Session!Request /\ expired(c).trip = request[c].trip
               /\ expired(c).wire = request[c].wire /\ expired(c).reply = request[c].reply
               /\ expired(c).effects = request[c].effects
               /\ expired(c).answer = request[c].answer
    <2>1. request[c] \in Session!Request
      BY <1>1
    <2> QED
      BY <2>1 DEF Session!Request
  <1> HIDE DEF expired
  <1>3. ASSUME NEW c \in Callers PROVE Safe(expired(c))
    BY <1>2 DEF SessionIInv, Safe, Carries
  <1>4. SessionIInv'
    BY <1>1, <1>2, <1>3 DEF SessionIInv, SessionTypes
  <1>5. UNCHANGED Session!Contract!apiVars
    BY <1>1, <1>2 DEF Session!Contract!apiVars
  <1> QED
    BY <1>4, <1>5

\* Every step keeps the invariant, and is a step of the contract or none.
LEMMA NextKeeps ==
    SessionIInv /\ [Session!Next]_(Session!sessionVars)
        => SessionIInv' /\ [Session!Contract!Next]_(Session!Contract!apiVars)
  <1> SUFFICES ASSUME SessionIInv, [Session!Next]_(Session!sessionVars)
               PROVE  SessionIInv' /\ (Session!Contract!Next \/ UNCHANGED Session!Contract!apiVars)
    OBVIOUS
  <1>1. CASE UNCHANGED Session!sessionVars
    BY <1>1 DEF Session!sessionVars, SessionIInv, SessionTypes, Session!Contract!apiVars
  <1>2. CASE Session!Expire
    BY <1>2, ExpireKeeps
  <1>3. ASSUME NEW c \in Callers, Session!Begin(c) \/ Session!Send(c)
        PROVE  SessionIInv' /\ (Session!Contract!Next \/ UNCHANGED Session!Contract!apiVars)
    BY <1>3, TripKeeps
  <1>4. ASSUME NEW c \in Callers, Session!Serve(c) \/ Session!Lapse(c)
        PROVE  SessionIInv' /\ (Session!Contract!Next \/ UNCHANGED Session!Contract!apiVars)
    BY <1>4, ServeKeeps
  <1>5. ASSUME NEW c \in Callers, Session!Handle(c)
        PROVE  SessionIInv' /\ (Session!Contract!Next \/ UNCHANGED Session!Contract!apiVars)
    BY <1>5, HandleKeeps
  <1> QED
    BY <1>1, <1>2, <1>3, <1>4, <1>5 DEF Session!Next, Session!Own

-----------------------------------------------------------------------------
\* doAPIRequest implements ApiCall for any number of goroutines: a request takes
\* effect once at most, through renewals, retries and lost messages, and its
\* answer says whether it did.
THEOREM ImplementsContract == Session!Spec => KeepsContract
  <1>1. Session!Init => SessionIInv /\ Session!Contract!Init
    BY SessionInit
  <1>2. SessionIInv /\ [Session!Next]_(Session!sessionVars)
            => SessionIInv' /\ [Session!Contract!Next]_(Session!Contract!apiVars)
    BY NextKeeps
  <1> QED
    BY <1>1, <1>2, PTL DEF Session!Spec, KeepsContract, Session!KeepsContract,
       Session!Contract!Spec

-----------------------------------------------------------------------------
\* What the contract does not depend on.
SpentOK ==
    /\ healthy \in BOOLEAN
    /\ expiries \in 0..MaxExpiries
    /\ lapses \in 0..MaxLapses

\* Expiries and lapses are counted up to their bounds.
LEMMA SpentKeeps == SpentOK /\ [Session!Next]_(Session!sessionVars) => SpentOK'
  <1> SUFFICES ASSUME SpentOK, [Session!Next]_(Session!sessionVars) PROVE SpentOK'
    OBVIOUS
  <1>1. CASE UNCHANGED <<healthy, expiries, lapses>>
    BY <1>1 DEF SpentOK
  <1>2. CASE Session!Expire
    BY <1>2, SessionAssumption DEF SpentOK, Session!Expire
  <1>3. ASSUME NEW c \in Callers, Session!Lapse(c) PROVE SpentOK'
    BY <1>3, SessionAssumption DEF SpentOK, Session!Lapse
  <1>4. ASSUME NEW c \in Callers, Session!Handle(c) PROVE SpentOK'
    <2>1. UNCHANGED <<expiries, lapses>> /\ (healthy' = TRUE \/ healthy' = FALSE \/ healthy' = healthy)
      BY <1>4 DEF Session!Handle, Session!Succeed, Session!Decline, Session!SessionLost,
         Session!Fail, Session!Refreshed, Session!NotRefreshed, Session!LoggedIn, Session!AuthFails
    <2> QED
      BY Zenon, <2>1 DEF SpentOK
  <1>5. ASSUME NEW c \in Callers, Session!Begin(c) \/ Session!Send(c) \/ Session!Serve(c)
        PROVE  SpentOK'
    BY <1>1, <1>5 DEF Session!Begin, Session!Send, Session!Serve
  <1> QED
    BY <1>1, <1>2, <1>3, <1>4, <1>5 DEF Session!Next, Session!Own, Session!sessionVars

\* A session's variables have their types.
THEOREM SessionTyped == Session!Spec => []Session!TypeOK
  <1>1. Session!Init => SessionIInv /\ SpentOK
    BY SessionInit, SessionAssumption DEF Session!Init, SpentOK
  <1>2. SessionIInv /\ SpentOK /\ [Session!Next]_(Session!sessionVars) => (SessionIInv /\ SpentOK)'
    BY NextKeeps, SpentKeeps
  <1>3. SessionIInv /\ SpentOK => Session!TypeOK
    BY DEF SessionIInv, SessionTypes, SpentOK, Session!TypeOK
  <1> QED
    BY <1>1, <1>2, <1>3, PTL DEF Session!Spec
=============================================================================
