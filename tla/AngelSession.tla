---------------------------- MODULE AngelSession ----------------------------
(***************************************************************************)
(* The session of AngelBroker: doAPIRequest, called by any number of       *)
(* goroutines, which sends a request, renews the session when the request  *)
(* is refused for its token (the refresh token first, a full login next)   *)
(* and then sends it once more.                                            *)
(*                                                                         *)
(* All that matters of a token is whether Angel One still accepts it, so a *)
(* token is a Boolean here, FALSE from the expiry on.  Waiting for the     *)
(* rate limiter is no step: it has no deadline and changes nothing.        *)
(***************************************************************************)
EXTENDS Naturals

CONSTANTS
    Callers,      \* goroutines that call the API
    MaxExpiries,  \* bound: sessions ended by Angel One
    MaxLapses     \* bound: messages lost and requests refused

VARIABLES
    accessToken,   \* the stored access token is accepted
    refreshToken,  \* the stored refresh token is accepted
    healthy,       \* AngelBroker.healthy
    request,       \* each goroutine's request in progress
    expiries, lapses  \* spent bounds

sessionVars == <<accessToken, refreshToken, healthy, request, expiries, lapses>>

-----------------------------------------------------------------------------
(***************************************************************************)
(* A goroutine's request: the round trip it is in, where that is, the      *)
(* token it carries, and what came back.  effects and answer are history.  *)
(***************************************************************************)
Replies == {"none", "ok", "unauthorized", "declined", "refused", "lost"}
Request == [trip : {"idle", "first", "refresh", "login", "retry"},
            wire : {"ready", "out", "back"}, token : BOOLEAN, reply : Replies,
            effects : Nat, answer : {"none", "ok", "declined", "failed"}]

NoRequest == [trip |-> "idle", wire |-> "ready", token |-> FALSE, reply |-> "none",
              effects |-> 0, answer |-> "none"]

\* Connect has logged in.
Init ==
    /\ accessToken = TRUE
    /\ refreshToken = TRUE
    /\ healthy = TRUE
    /\ request = [c \in Callers |-> NoRequest]
    /\ expiries = 0
    /\ lapses = 0

At(c, trip, wire) == request[c].trip = trip /\ request[c].wire = wire

Back(c, trip, replies) == At(c, trip, "back") /\ request[c].reply \in replies

Go(c, trip) == request' = [request EXCEPT ![c].trip = trip, ![c].wire = "ready",
                                          ![c].reply = "none"]

Answer(c, answer) == request' = [request EXCEPT ![c] =
    [NoRequest EXCEPT !.effects = request[c].effects, !.answer = answer]]

-----------------------------------------------------------------------------
(***************************************************************************)
(* The round trips.                                                        *)
(***************************************************************************)
\* authHeaders reads the token under the lock as the request leaves.
Begin(c) ==
    /\ request[c].trip = "idle"
    /\ request' = [request EXCEPT ![c] =
           [NoRequest EXCEPT !.trip = "first", !.wire = "out", !.token = accessToken]]
    /\ UNCHANGED <<accessToken, refreshToken, healthy, expiries, lapses>>

Send(c) ==
    /\ request[c].trip # "idle"
    /\ request[c].wire = "ready"
    /\ request' = [request EXCEPT ![c].wire = "out", ![c].token =
           CASE request[c].trip = "refresh" -> refreshToken
             [] request[c].trip = "login" -> TRUE
             [] OTHER -> accessToken]
    /\ UNCHANGED <<accessToken, refreshToken, healthy, expiries, lapses>>

\* The reply of the trip c is in; a new token comes back accepted.
Return(c, reply, took) ==
    request' = [request EXCEPT
        ![c].wire = "back", ![c].reply = reply,
        ![c].effects = IF took /\ request[c].trip \in {"first", "retry"} THEN @ + 1 ELSE @]

(***************************************************************************)
(* Angel One: a request with a token it accepts takes effect, one without  *)
(* is refused for it.  It can be declined for another reason (status is    *)
(* false in a proper answer) or refused (an HTTP status, the firewall's    *)
(* page), and the request or its answer can be lost.                       *)
(***************************************************************************)
Serve(c) ==
    /\ request[c].wire = "out"
    /\ IF request[c].token THEN Return(c, "ok", TRUE) ELSE Return(c, "unauthorized", FALSE)
    /\ UNCHANGED <<accessToken, refreshToken, healthy, expiries, lapses>>

Lapse(c) ==
    /\ request[c].wire = "out"
    /\ lapses < MaxLapses
    /\ lapses' = lapses + 1
    /\ \/ \E reply \in {"declined", "refused"} : Return(c, reply, FALSE)
       \/ \E took \in {FALSE, request[c].token} : Return(c, "lost", took)
    /\ UNCHANGED <<accessToken, refreshToken, healthy, expiries>>

\* Every access token ends, in the broker and on the wire, and perhaps the
\* refresh tokens with it.
Expire ==
    /\ expiries < MaxExpiries
    /\ expiries' = expiries + 1
    /\ accessToken' = FALSE
    /\ refreshToken' \in {refreshToken, FALSE}
    /\ request' = [c \in Callers |->
           [request[c] EXCEPT !.token = @ /\ request[c].trip = "login"
                                          /\ request[c].wire = "out"]]
    /\ UNCHANGED <<healthy, lapses>>

-----------------------------------------------------------------------------
(***************************************************************************)
(* doAPIRequest, refreshSession, refreshTokens and login on what came back *)
(***************************************************************************)
Succeed(c) ==
    /\ Back(c, "first", {"ok"}) \/ Back(c, "retry", {"ok"})
    /\ healthy' = TRUE
    /\ Answer(c, "ok")
    /\ UNCHANGED <<accessToken, refreshToken, expiries, lapses>>

\* The body of a declined request is the caller's to look at.
Decline(c) ==
    /\ Back(c, "first", {"declined"}) \/ Back(c, "retry", {"declined"})
    /\ healthy' = TRUE
    /\ Answer(c, "declined")
    /\ UNCHANGED <<accessToken, refreshToken, expiries, lapses>>

\* Fault: a request that got no answer is sent again.
SessionLostRetried(c) ==
    /\ Back(c, "first", {"unauthorized", "lost"})
    /\ Go(c, "refresh")
    /\ UNCHANGED <<accessToken, refreshToken, healthy, expiries, lapses>>

SessionLost(c) ==
    /\ Back(c, "first", {"unauthorized"})
    /\ Go(c, "refresh")
    /\ UNCHANGED <<accessToken, refreshToken, healthy, expiries, lapses>>

Fail(c) ==
    /\ Back(c, "first", {"refused", "lost"}) \/ Back(c, "retry", {"refused", "lost"})
    /\ Answer(c, "failed")
    /\ UNCHANGED <<accessToken, refreshToken, healthy, expiries, lapses>>

\* A refresh token is stored only if one came.
Refreshed(c) ==
    /\ Back(c, "refresh", {"ok"})
    /\ accessToken' = request[c].token
    /\ refreshToken' \in {request[c].token, refreshToken}
    /\ healthy' = TRUE
    /\ Go(c, "retry")
    /\ UNCHANGED <<expiries, lapses>>

NotRefreshed(c) ==
    /\ Back(c, "refresh", {"unauthorized", "declined", "refused", "lost"})
    /\ Go(c, "login")
    /\ UNCHANGED <<accessToken, refreshToken, healthy, expiries, lapses>>

\* Fault: the session of the login is not stored.
LoggedInOnly(c) ==
    /\ Back(c, "login", {"ok"})
    /\ healthy' = TRUE
    /\ Go(c, "retry")
    /\ UNCHANGED <<accessToken, refreshToken, expiries, lapses>>

LoggedIn(c) ==
    /\ Back(c, "login", {"ok"})
    /\ accessToken' = request[c].token
    /\ refreshToken' = request[c].token
    /\ healthy' = TRUE
    /\ Go(c, "retry")
    /\ UNCHANGED <<expiries, lapses>>

\* Neither renewed the session, or the retry's token is refused again.
AuthFails(c) ==
    /\ Back(c, "login", {"declined", "refused", "lost"}) \/ Back(c, "retry", {"unauthorized"})
    /\ healthy' = FALSE
    /\ Answer(c, "failed")
    /\ UNCHANGED <<accessToken, refreshToken, expiries, lapses>>

Handle(c) ==
    \/ Succeed(c) \/ Decline(c) \/ SessionLost(c) \/ Fail(c) \/ Refreshed(c) \/ NotRefreshed(c)
    \/ LoggedIn(c) \/ AuthFails(c)

Own(c) == Begin(c) \/ Send(c) \/ Serve(c) \/ Handle(c)

Next == Expire \/ \E c \in Callers : Own(c) \/ Lapse(c)

\* Subscribe's ticker and the tick loop keep calling, and every round trip
\* ends, at the latest by the client's timeout.
Spec == Init /\ [][Next]_sessionVars /\ \A c \in Callers : WF_sessionVars(Own(c))

-----------------------------------------------------------------------------
TypeOK ==
    /\ accessToken \in BOOLEAN
    /\ refreshToken \in BOOLEAN
    /\ healthy \in BOOLEAN
    /\ request \in [Callers -> Request]
    /\ expiries \in 0..MaxExpiries
    /\ lapses \in 0..MaxLapses

(***************************************************************************)
(* doAPIRequest keeps the contract of ApiCall, through expiries and lost   *)
(* messages: the retry after a renewal never sends an order twice.         *)
(***************************************************************************)
Contract == INSTANCE ApiCall WITH
    phase <- [c \in Callers |-> IF request[c].trip = "idle" THEN "idle" ELSE "open"],
    effects <- [c \in Callers |-> request[c].effects],
    answer <- [c \in Callers |-> request[c].answer]

KeepsContract == Contract!Spec

(***************************************************************************)
(* The session heals itself: once Angel One stops ending it and nothing is *)
(* lost, the broker ends up healthy for good, however the renewals of      *)
(* several goroutines overtake each other.                                 *)
(***************************************************************************)
SessionHeals == <>[]healthy
=============================================================================
