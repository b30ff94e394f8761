---------------------------- MODULE ControlServer ----------------------------
(***************************************************************************)
(* The control API server: /api/start, /api/stop and /api/kill, which act  *)
(* on the engine and tell the connected apps, and /ws/live, which serves   *)
(* each app a heartbeat through a bounded buffer and a writer of its own.  *)
(*                                                                         *)
(* Of a message only "running" is kept, and of the engine what the hooks   *)
(* set and Status reads.  Authentication, rate limits and the handlers     *)
(* that only read are left out.                                            *)
(***************************************************************************)
EXTENDS Naturals, Sequences, FiniteSets

CONSTANTS
    Apps,         \* connections to /ws/live
    Operators,    \* clients of the REST endpoints
    MaxConns,     \* wsMaxConns
    BufferSize,   \* wsSendBufferSize
    MaxCommands,  \* bound: REST commands
    MaxFailures   \* bound: connections that break or get stuck, upgrades that fail

VARIABLES
    paused,      \* the runner's pause flag, which Status reports
    running,     \* Server.running
    wsClients,   \* Server.wsClients
    conn,        \* each app's connection, with its three goroutines
    view,        \* the last "running" each app has received
    command,     \* each operator's request in progress
    commands, failures,  \* spent bounds
    raced        \* history: apps let in while another was being let in

serverVars == <<paused, running, wsClients, conn, view, command, commands,
                failures, raced>>

-----------------------------------------------------------------------------
(***************************************************************************)
(* A connection: where its handler is, the status the handler has read and *)
(* still has to send, wsClient.send and closed, the pumps and the socket.  *)
(***************************************************************************)
Conns == [handler : {"none", "checked", "serving", "beating", "ended"}, beat : BOOLEAN,
          send : Seq(BOOLEAN), closed : BOOLEAN, writer : BOOLEAN, reader : BOOLEAN,
          socket : {"none", "up", "stuck", "broken", "closed"}]

NoConn == [handler |-> "none", beat |-> FALSE, send |-> <<>>, closed |-> FALSE,
           writer |-> FALSE, reader |-> FALSE, socket |-> "none"]

Commands == [at : {"idle", "hooked", "cached", "telling"}, running : BOOLEAN, to : SUBSET Apps]
NoCommand == [at |-> "idle", running |-> FALSE, to |-> {}]

Failure == failures < MaxFailures /\ failures' = failures + 1

Init ==
    /\ paused = FALSE
    /\ running = FALSE
    /\ wsClients = {}
    /\ conn = [a \in Apps |-> NoConn]
    /\ view = [a \in Apps |-> "none"]
    /\ command = [o \in Operators |-> NoCommand]
    /\ commands = 0
    /\ failures = 0
    /\ raced = {}

restVars == <<paused, running, command, commands>>

-----------------------------------------------------------------------------
(***************************************************************************)
(* wsClient.enqueue and removeClient                                       *)
(***************************************************************************)
Takes(a) == ~conn[a].closed /\ Len(conn[a].send) < BufferSize

Queued(a, msg) == [conn[a] EXCEPT !.send = Append(@, msg)]

\* A client that does not take the message is stopped and removed.  Its handler
\* goes on at sent or refused.
Offer(a, msg, sent, refused) ==
    IF Takes(a)
        THEN /\ conn' = [conn EXCEPT ![a] = [Queued(a, msg) EXCEPT !.handler = sent]]
             /\ UNCHANGED wsClients
        ELSE /\ conn' = [conn EXCEPT ![a].closed = TRUE, ![a].handler = refused]
             /\ wsClients' = wsClients \ {a}

-----------------------------------------------------------------------------
(***************************************************************************)
(* handleWebSocket: the cap is checked, the connection upgraded and then   *)
(* registered.                                                             *)
(***************************************************************************)
\* Fault: the cap is one too high.
BelowCapOrAt == Cardinality(wsClients) <= MaxConns

BelowCap == Cardinality(wsClients) < MaxConns

CheckCap(a) ==
    /\ conn[a].handler = "none"
    /\ conn' = [conn EXCEPT ![a].handler = IF BelowCap THEN "checked" ELSE "ended"]
    /\ raced' = IF \E b \in Apps : conn[b].handler = "checked" THEN raced \cup {a} ELSE raced
    /\ UNCHANGED <<restVars, wsClients, view, failures>>

Upgrade(a) ==
    /\ conn[a].handler = "checked"
    /\ wsClients' = wsClients \cup {a}
    /\ conn' = [conn EXCEPT ![a] = [NoConn EXCEPT !.handler = "serving", !.writer = TRUE,
                                                  !.reader = TRUE, !.socket = "up"]]
    /\ UNCHANGED <<restVars, view, failures, raced>>

UpgradeFails(a) ==
    /\ conn[a].handler = "checked"
    /\ Failure
    /\ conn' = [conn EXCEPT ![a].handler = "ended"]
    /\ UNCHANGED <<restVars, wsClients, view, raced>>

\* Fault: the heartbeat carries the cached flag.
BeatCached(a) ==
    /\ conn[a].handler = "serving"
    /\ conn' = [conn EXCEPT ![a].handler = "beating", ![a].beat = running]
    /\ UNCHANGED <<restVars, wsClients, view, failures, raced>>

\* The ticker fires: the status is read through the hook, then sent.
Beat(a) ==
    /\ conn[a].handler = "serving"
    /\ conn' = [conn EXCEPT ![a].handler = "beating", ![a].beat = ~paused]
    /\ UNCHANGED <<restVars, wsClients, view, failures, raced>>

SendBeat(a) ==
    /\ conn[a].handler = "beating"
    /\ Offer(a, conn[a].beat, "serving", "ended")
    /\ UNCHANGED <<restVars, view, failures, raced>>

HandlerEnds(a) ==
    /\ conn[a].handler = "serving"
    /\ conn[a].closed
    /\ conn' = [conn EXCEPT ![a].handler = "ended"]
    /\ wsClients' = wsClients \ {a}
    /\ UNCHANGED <<restVars, view, failures, raced>>

-----------------------------------------------------------------------------
(***************************************************************************)
(* writePump and wsReadPump.  A write to a stuck peer fails at its         *)
(* deadline; reading ends with the connection only.                        *)
(***************************************************************************)
Write(a) ==
    /\ conn[a].writer
    /\ conn[a].send # <<>>
    /\ IF conn[a].socket = "up"
           THEN /\ conn' = [conn EXCEPT ![a].send = Tail(@)]
                /\ view' = [view EXCEPT ![a] = IF Head(conn[a].send) THEN "running" ELSE "stopped"]
           ELSE /\ conn' = [conn EXCEPT ![a].closed = TRUE, ![a].writer = FALSE,
                                        ![a].socket = "closed"]
                /\ UNCHANGED view
    /\ UNCHANGED <<restVars, wsClients, failures, raced>>

\* Fault: the writer leaves the connection open.
WriterEndsOnly(a) ==
    /\ conn[a].writer
    /\ conn[a].closed
    /\ conn' = [conn EXCEPT ![a].writer = FALSE]
    /\ UNCHANGED <<restVars, wsClients, view, failures, raced>>

WriterEnds(a) ==
    /\ conn[a].writer
    /\ conn[a].closed
    /\ conn' = [conn EXCEPT ![a].writer = FALSE, ![a].socket = "closed"]
    /\ UNCHANGED <<restVars, wsClients, view, failures, raced>>

ReaderEnds(a) ==
    /\ conn[a].reader
    /\ conn[a].socket \in {"broken", "closed"}
    /\ conn' = [conn EXCEPT ![a].reader = FALSE, ![a].closed = TRUE]
    /\ UNCHANGED <<restVars, wsClients, view, failures, raced>>

SocketFails(a) ==
    /\ conn[a].socket = "up"
    /\ Failure
    /\ \E how \in {"stuck", "broken"} : conn' = [conn EXCEPT ![a].socket = how]
    /\ UNCHANGED <<restVars, wsClients, view, raced>>

-----------------------------------------------------------------------------
(***************************************************************************)
(* handleStart, handleStop and handleKill: the hook, the cached flag, then *)
(* the broadcast to the clients registered at its start.                   *)
(***************************************************************************)
clientVars == <<wsClients, conn, view, failures, raced>>

\* main wires the hooks to the runner's Resume, Pause and KillAndFlatten, which
\* never return an error.
Call(o) ==
    /\ command[o].at = "idle"
    /\ commands < MaxCommands
    /\ commands' = commands + 1

Resume(o) ==
    /\ Call(o)
    /\ paused' = FALSE
    /\ command' = [command EXCEPT ![o] = [NoCommand EXCEPT !.at = "hooked", !.running = TRUE]]
    /\ UNCHANGED <<clientVars, running>>

Pause(o) ==
    /\ Call(o)
    /\ paused' = TRUE
    /\ command' = [command EXCEPT ![o] = [NoCommand EXCEPT !.at = "hooked"]]
    /\ UNCHANGED <<clientVars, running>>

\* The runner trips its kill switch, which is not what Status reports.
KillAndFlatten(o) ==
    /\ Call(o)
    /\ command' = [command EXCEPT ![o] = [NoCommand EXCEPT !.at = "hooked"]]
    /\ UNCHANGED <<clientVars, paused, running>>

Cache(o) ==
    /\ command[o].at = "hooked"
    /\ running' = command[o].running
    /\ command' = [command EXCEPT ![o].at = "cached"]
    /\ UNCHANGED <<clientVars, paused, commands>>

Broadcast(o) ==
    /\ command[o].at = "cached"
    /\ command' = [command EXCEPT ![o].at = "telling", ![o].to = wsClients]
    /\ UNCHANGED <<clientVars, paused, running, commands>>

Tell(o) ==
    /\ command[o].at = "telling"
    /\ \E a \in command[o].to :
          /\ Offer(a, command[o].running, conn[a].handler, conn[a].handler)
          /\ command' = [command EXCEPT ![o].to = @ \ {a}]
    /\ UNCHANGED <<paused, running, commands, view, failures, raced>>

Told(o) ==
    /\ command[o].at = "telling"
    /\ command[o].to = {}
    /\ command' = [command EXCEPT ![o] = NoCommand]
    /\ UNCHANGED <<clientVars, paused, running, commands>>

-----------------------------------------------------------------------------
Handler(a) == Upgrade(a) \/ Beat(a) \/ SendBeat(a) \/ HandlerEnds(a)
Writer(a) == Write(a) \/ WriterEnds(a)
Operator(o) == Cache(o) \/ Broadcast(o) \/ Tell(o) \/ Told(o)

Next ==
    \/ \E a \in Apps : CheckCap(a) \/ UpgradeFails(a) \/ Handler(a) \/ Writer(a)
                       \/ ReaderEnds(a) \/ SocketFails(a)
    \/ \E o \in Operators : Resume(o) \/ Pause(o) \/ KillAndFlatten(o) \/ Operator(o)

\* Goroutines run, and a request that was begun is served; nobody need connect
\* or send a command.
Spec ==
    /\ Init /\ [][Next]_serverVars
    /\ \A a \in Apps : /\ WF_serverVars(Handler(a)) /\ WF_serverVars(Writer(a))
                       /\ WF_serverVars(ReaderEnds(a))
    /\ \A o \in Operators : WF_serverVars(Operator(o))

-----------------------------------------------------------------------------
TypeOK ==
    /\ paused \in BOOLEAN /\ running \in BOOLEAN
    /\ wsClients \subseteq Apps
    /\ conn \in [Apps -> Conns]
    /\ \A a \in Apps : Len(conn[a].send) <= BufferSize
    /\ view \in [Apps -> {"none", "running", "stopped"}]
    /\ command \in [Operators -> Commands]
    /\ commands \in 0..MaxCommands
    /\ failures \in 0..MaxFailures
    /\ raced \subseteq Apps

(***************************************************************************)
(* The cap on connections holds but for those let in while another was on  *)
(* its way from the check to its registration.                             *)
(***************************************************************************)
CapHolds == Cardinality(wsClients \ raced) <= MaxConns

(***************************************************************************)
(* A client that broke, got stuck or was dropped as too slow is removed,   *)
(* its three goroutines end and its socket is closed: none waits for       *)
(* another for ever, and nothing is left behind.                           *)
(***************************************************************************)
Gone(a) ==
    /\ a \notin wsClients
    /\ conn[a].handler = "ended" /\ ~conn[a].writer /\ ~conn[a].reader
    /\ conn[a].socket = "closed"

DeadClientsGo ==
    \A a \in Apps : (conn[a].closed \/ conn[a].socket \in {"stuck", "broken"}) ~> Gone(a)

(***************************************************************************)
(* What an app shows is what the engine does: once the commands end, every *)
(* app that stays connected shows whether the runner is paused, in         *)
(* whatever order broadcasts and heartbeats overtook each other.           *)
(***************************************************************************)
ViewsConverge ==
    \A a \in Apps : <>[](a \in wsClients /\ conn[a].socket = "up" =>
                            view[a] = IF paused THEN "stopped" ELSE "running")
=============================================================================
