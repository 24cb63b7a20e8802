------------------------------ MODULE AsyncWs ------------------------------
(***************************************************************************)
(* The asynchronous subscription manager of the SDK: AsyncWebsocketManager *)
(* (src/alphasec/websocket/async_ws.py) and the part of AsyncAgent that    *)
(* starts, stops and reaps it (src/alphasec/async_agent.py).               *)
(*                                                                         *)
(* Everything runs on one asyncio event loop, so a step of the model is    *)
(* what one task does between two points where it really suspends.  The    *)
(* tasks are: the application's calls of connect() and stop(), the callers *)
(* of subscribe() and unsubscribe(), the message loop run(), the ping task *)
(* of a connection and the tasks of async callbacks.                       *)
(*                                                                         *)
(* Abstractions.  The list kept for an identifier is the set of its        *)
(* subscriptions: ids come from a counter, and no behaviour modelled here  *)
(* depends on the order of the list.  A caller-supplied subscription_id,   *)
(* the value of the backoff delay and stop() called from inside an async   *)
(* callback are left out.  A frame is its effect on the set of channels    *)
(* the server serves on that socket.                                       *)
(***************************************************************************)
EXTENDS Integers, FiniteSets

CONSTANTS
    Callers,             \* tasks of the application that subscribe/unsubscribe
    Timed,               \* the callers that pass a timeout
    Channels,            \* channel strings
    Identifiers,         \* routing keys
    IdentOf,             \* channel_to_identifier, as a function of the channel
    UserEvents,          \* the identifiers that start with "userevent:"
    Messages,            \* subscription updates the server may send
    MsgIdent,            \* ws_msg_to_identifier, as a function of the message
    About,               \* the channels a message has something to say to
    Conns,               \* sockets, reused once nothing refers to them
    Runs,                \* run() tasks, one for each successful connect()
    MaxId,               \* bound: subscription ids handed out
    MaxGen,              \* bound: connect() calls
    NoConn, NoRun, NoChan,
    Overlap,             \* may two calls be in flight on one identifier?
    Lifecycle,           \* "bare": manager alone; "agent": under AsyncAgent
    StopWhileConnecting  \* may stop() be called while connect() is awaited?

ASSUME CallersAssumption == Timed \subseteq Callers
ASSUME RoutingAssumption ==
    /\ IdentOf \in [Channels -> Identifiers]
    /\ UserEvents \subseteq Identifiers
    /\ About \in [Messages -> SUBSET Channels]
ASSUME BoundsAssumption == MaxId \in Nat /\ MaxGen \in Nat
ASSUME SwitchAssumption ==
    /\ Overlap \in BOOLEAN
    /\ StopWhileConnecting \in BOOLEAN
    /\ Lifecycle \in {"bare", "agent"}
ASSUME NoneAssumption ==
    /\ NoConn \notin Conns
    /\ NoRun \notin Runs
    /\ NoChan \notin Channels

VARIABLES
    event,       \* which asyncio.Event the _stop_event attribute holds
    eventSet,    \* the events that have been set
    wsReady,     \* ws_ready
    ws,          \* _ws
    connecting,  \* connect() is awaiting its handshake
    up,          \* the application has connected and not yet stopped
    stopper,     \* progress of a stop() call
    run,         \* the run() tasks
    conn,        \* state of each socket
    server,      \* channels the server serves on each socket
    counter,     \* subscription_id_counter
    active,      \* active_subscriptions
    call,        \* the subscribe()/unsubscribe() call of each caller
    held,        \* subscriptions the application holds: returned, not given up
    pingRef,     \* _ping_task, named by the run that created it
    pingLive,    \* ping tasks that have not finished
    cbTasks      \* _callback_tasks

stopVars   == <<event, eventSet, connecting, up, stopper>>
linkVars   == <<wsReady, ws>>
netVars    == <<conn, server>>
regVars    == <<counter, active, call, held>>
pingVars   == <<pingRef, pingLive>>
vars == <<event, eventSet, wsReady, ws, connecting, up, stopper, run, conn,
          server, counter, active, call, held, pingRef, pingLive, cbTasks>>

-----------------------------------------------------------------------------
Sub == [id : Nat, chan : Channels]

RunTask ==
    [at : {"none", "start", "recv", "connecting", "restoring", "backoff",
           "shutting", "done"},
     conn : Conns \cup {NoConn},
     born : Nat,             \* the event that was current when it was created
     waits : Nat,            \* the event its backoff waits on
     sent : SUBSET Sub]      \* what the restore under way has sent
IdleCall == [at |-> "idle", op |-> "none", chan |-> NoChan, id |-> 0,
             conn |-> NoConn, ahead |-> {}, written |-> FALSE]
BusyCall ==
    [at : {"parked", "sending"},
     op : {"sub", "unsub"},
     chan : Channels,
     id : Nat,
     conn : Conns \cup {NoConn},
     ahead : SUBSET Callers, \* sends in front of it on the same socket
     written : BOOLEAN]      \* its frame has been handed to the transport
Call == {IdleCall} \cup BusyCall

NewRun   == [at |-> "start", conn |-> NoConn, born |-> event, waits |-> event,
             sent |-> {}]
NoneRun  == [at |-> "none", conn |-> NoConn, born |-> 0, waits |-> 0, sent |-> {}]

(* A run() task goes on: what it receives on or closes, the event it sees   *)
(* now, and no restore under way.                                          *)
Moved(task, at, k) == [task EXCEPT !.at = at, !.conn = k, !.waits = event,
                                   !.sent = {}]
RunTo(r, at, k) == [run EXCEPT ![r] = Moved(run[r], at, k)]

Stopped    == event \in eventSet
Registered == UNION {active[i] : i \in Identifiers}
Ended(r)   == run[r].at \in {"none", "done"}
Alive      == {r \in Runs : ~Ended(r)}

TypeOK ==
    /\ event \in Nat
    /\ eventSet \subseteq Nat
    /\ wsReady \in BOOLEAN
    /\ ws \in Conns \cup {NoConn}
    /\ connecting \in BOOLEAN
    /\ up \in BOOLEAN
    /\ stopper \in [at : {"idle", "cancelling", "closing"},
                    conn : Conns \cup {NoConn}]
    /\ run \in [Runs -> RunTask]
    /\ conn \in [Conns -> {"closed", "open", "closing"}]
    /\ server \in [Conns -> SUBSET Channels]
    /\ counter \in Nat
    /\ active \in [Identifiers -> SUBSET Sub]
    /\ call \in [Callers -> Call]
    /\ held \subseteq Sub
    /\ pingRef \in Runs \cup {NoRun}
    /\ pingLive \subseteq Runs
    /\ cbTasks \subseteq Nat

Init ==
    /\ event = 0
    /\ eventSet = {}
    /\ wsReady = FALSE
    /\ ws = NoConn
    /\ connecting = FALSE
    /\ up = FALSE
    /\ stopper = [at |-> "idle", conn |-> NoConn]
    /\ run = [r \in Runs |-> NoneRun]
    /\ conn = [k \in Conns |-> "closed"]
    /\ server = [k \in Conns |-> {}]
    /\ counter = 0
    /\ active = [i \in Identifiers |-> {}]
    /\ call = [c \in Callers |-> IdleCall]
    /\ held = {}
    /\ pingRef = NoRun
    /\ pingLive = {}
    /\ cbTasks = {}

-----------------------------------------------------------------------------
(* The network and the websockets library.                                 *)

(* A handshake takes network round trips, while the sends waiting on a lost *)
(* socket are all woken, in a few turns of the loop, as soon as it is lost. *)
LostSendsResolved ==
    \A c \in Callers : call[c].at = "sending" => conn[call[c].conn] # "closed"

(* A socket nothing refers to any more stands for the next new one. *)
Fresh(k) ==
    /\ conn[k] = "closed"
    /\ k # ws
    /\ k # stopper.conn
    /\ \A r \in Alive : run[r].conn # k
    /\ \A c \in Callers : call[c].conn # k

Open(k) ==
    /\ Fresh(k)
    /\ LostSendsResolved
    /\ conn' = [conn EXCEPT ![k] = "open"]
    /\ server' = [server EXCEPT ![k] = {}]

(* The connection is lost: ungraceful, or closed by the server. *)
NetDrop(k) ==
    /\ conn[k] = "open"
    /\ conn' = [conn EXCEPT ![k] = "closed"]
    /\ server' = [server EXCEPT ![k] = {}]
    /\ UNCHANGED <<stopVars, linkVars, run, regVars, pingVars, cbTasks>>

(* The closing handshake started by close() completes or times out. *)
CloseDone(k) ==
    /\ conn[k] = "closing"
    /\ conn' = [conn EXCEPT ![k] = "closed"]
    /\ server' = [server EXCEPT ![k] = {}]
    /\ UNCHANGED <<stopVars, linkVars, run, regVars, pingVars, cbTasks>>

Closing(k) == [conn EXCEPT ![k] = IF @ = "open" THEN "closing" ELSE @]

-----------------------------------------------------------------------------
(* connect(): a new stop event, then the handshake.                        *)

ConnectBegin ==
    /\ ~up /\ ~connecting /\ stopper.at = "idle"
    /\ event < MaxGen
    /\ \E r \in Runs : run[r].at = "none"
    /\ event' = event + 1
    /\ connecting' = TRUE
    /\ UNCHANGED <<eventSet, up, stopper, linkVars, run, netVars, regVars,
                   pingVars, cbTasks>>

(* connect() returns and the application creates the run() task. *)
ConnectOk(r, k) ==
    /\ connecting
    /\ run[r].at = "none"
    /\ Open(k)
    /\ ws' = k
    /\ wsReady' = TRUE
    /\ connecting' = FALSE
    /\ up' = TRUE
    /\ run' = [run EXCEPT ![r] = NewRun]
    /\ UNCHANGED <<event, eventSet, stopper, regVars, pingVars, cbTasks>>

ConnectFail ==
    /\ connecting
    /\ connecting' = FALSE
    /\ UNCHANGED <<event, eventSet, up, stopper, linkVars, run, netVars, regVars,
                   pingVars, cbTasks>>

-----------------------------------------------------------------------------
(* _cleanup_ping_task(): forget the ping task the manager refers to, and   *)
(* cancel it.                                                              *)
CleanupPingForgets ==   \* mutant: forgotten, not cancelled
    pingRef' = NoRun /\ UNCHANGED pingLive

CleanupPing ==
    /\ pingRef' = NoRun
    /\ pingLive' = pingLive \ {pingRef}

(* A ping task ends by itself when it sees the stop event, or when its     *)
(* send fails on a lost socket.                                            *)
PingEnd(r) ==
    /\ r \in pingLive
    /\ Stopped \/ ws = NoConn \/ conn[ws] # "open"
    /\ pingLive' = pingLive \ {r}
    /\ UNCHANGED <<stopVars, linkVars, run, netVars, regVars, pingRef, cbTasks>>

-----------------------------------------------------------------------------
(* run(): the message loop and its reconnection.                           *)

(* The top of the while loop: a new ping task, then receive on _ws. *)
Receive(r) ==
    /\ run' = RunTo(r, "recv", ws)
    /\ pingRef' = r
    /\ pingLive' = pingLive \cup {r}

RunStart(r) ==
    /\ run[r].at = "start"
    /\ IF Stopped
       THEN run' = RunTo(r, "done", NoConn) /\ UNCHANGED pingVars
       ELSE Receive(r)
    /\ UNCHANGED <<stopVars, linkVars, netVars, regVars, cbTasks>>

(* The receive loop ends because its socket is closed. *)
RunDisconnected(r) ==
    /\ run[r].at = "recv"
    /\ conn[run[r].conn] = "closed"
    /\ CleanupPing
    /\ IF Stopped
       THEN /\ run' = RunTo(r, "done", NoConn)
            /\ UNCHANGED wsReady
       ELSE /\ run' = RunTo(r, "connecting", NoConn)
            /\ wsReady' = FALSE
    /\ UNCHANGED <<stopVars, ws, netVars, regVars, cbTasks>>

(* A message arrives after stop() began: the receive loop breaks. *)
RunBreak(r) ==
    /\ run[r].at = "recv"
    /\ conn[run[r].conn] # "closed"
    /\ Stopped
    /\ CleanupPing
    /\ run' = RunTo(r, "done", NoConn)
    /\ UNCHANGED <<stopVars, linkVars, netVars, regVars, cbTasks>>

(* _reconnect(): the handshake succeeds and the new socket becomes _ws. *)
RunConnectOk(r, k) ==
    /\ run[r].at = "connecting"
    /\ Open(k)
    /\ ws' = k
    /\ run' = RunTo(r, "restoring", NoConn)
    /\ UNCHANGED <<stopVars, wsReady, regVars, pingVars, cbTasks>>

RunConnectFail(r) ==
    /\ run[r].at = "connecting"
    /\ run' = RunTo(r, "backoff", NoConn)
    /\ UNCHANGED <<stopVars, linkVars, netVars, regVars, pingVars, cbTasks>>

(* _restore_subscriptions(): one subscribe frame, on whatever _ws is now. *)
RestoreSend(r, s) ==
    /\ run[r].at = "restoring"
    /\ s \in Registered \ run[r].sent
    /\ conn[ws] = "open"
    /\ server' = [server EXCEPT ![ws] = @ \cup {s.chan}]
    /\ run' = [run EXCEPT ![r].sent = @ \cup {s}]
    /\ UNCHANGED <<stopVars, linkVars, conn, regVars, pingVars, cbTasks>>

RestoreFail(r) ==
    /\ run[r].at = "restoring"
    /\ Registered # {}
    /\ conn[ws] # "open"
    /\ run' = RunTo(r, "backoff", NoConn)
    /\ UNCHANGED <<stopVars, linkVars, netVars, regVars, pingVars, cbTasks>>

(* Every registration has been sent again. *)
RestoredFirst(r) ==     \* mutant: returns after the first frame
    Registered = {} \/ run[r].sent # {}

Restored(r) == Registered \subseteq run[r].sent

RestoreDoneUnchecked(r) ==   \* mutant: no look at the stop event
    /\ run[r].at = "restoring"
    /\ Restored(r)
    /\ wsReady' = TRUE
    /\ Receive(r)
    /\ UNCHANGED <<stopVars, ws, netVars, regVars, cbTasks>>

(* All frames are sent: close the fresh socket if stop() came meanwhile,   *)
(* otherwise mark the manager ready and receive on it.                     *)
RestoreDone(r) ==
    /\ run[r].at = "restoring"
    /\ Restored(r)
    /\ IF Stopped
       THEN /\ run' = RunTo(r, "shutting", ws)
            /\ conn' = Closing(ws)
            /\ UNCHANGED <<wsReady, pingVars>>
       ELSE /\ wsReady' = TRUE
            /\ Receive(r)
            /\ UNCHANGED conn
    /\ UNCHANGED <<stopVars, ws, server, regVars, cbTasks>>

(* The close() of _reconnect() has returned; run() ends. *)
RunShut(r) ==
    /\ run[r].at = "shutting"
    /\ conn[run[r].conn] = "closed"
    /\ run' = RunTo(r, "done", NoConn)
    /\ UNCHANGED <<stopVars, linkVars, netVars, regVars, pingVars, cbTasks>>

(* The wait in the backoff holds on to the event it started with ... *)
BackoffStopped(r) ==
    /\ run[r].at = "backoff"
    /\ run[r].waits \in eventSet
    /\ run' = RunTo(r, "done", NoConn)
    /\ UNCHANGED <<stopVars, linkVars, netVars, regVars, pingVars, cbTasks>>

BackoffGivesUp(r) ==    \* mutant: one failed attempt ends the loop
    /\ run[r].at = "backoff"
    /\ run' = RunTo(r, "done", NoConn)
    /\ UNCHANGED <<stopVars, linkVars, netVars, regVars, pingVars, cbTasks>>

(* ... while the loop around it looks at the attribute again. *)
BackoffTimeout(r) ==
    /\ run[r].at = "backoff"
    /\ run' = RunTo(r, IF Stopped THEN "done" ELSE "connecting", NoConn)
    /\ UNCHANGED <<stopVars, linkVars, netVars, regVars, pingVars, cbTasks>>

(* The subscriptions on_message() finds for a message. *)
Listeners(m) ==
    IF MsgIdent[m] \in Identifiers THEN active[MsgIdent[m]] ELSE {}

DeliverAfterStop(r, m) ==   \* mutant: no look at the stop event
    /\ run[r].at = "recv"
    /\ cbTasks' = cbTasks \cup {s.id : s \in Listeners(m)}
    /\ UNCHANGED <<stopVars, linkVars, run, netVars, regVars, pingVars>>

(* on_message(): each async callback a message is for becomes a task. *)
Deliver(r, m) ==
    /\ run[r].at = "recv"
    /\ ~Stopped
    /\ Listeners(m) # {}
    /\ cbTasks' = cbTasks \cup {s.id : s \in Listeners(m)}
    /\ UNCHANGED <<stopVars, linkVars, run, netVars, regVars, pingVars>>

CallbackDone(id) ==
    /\ id \in cbTasks
    /\ cbTasks' = cbTasks \ {id}
    /\ UNCHANGED <<stopVars, linkVars, run, netVars, regVars, pingVars>>

-----------------------------------------------------------------------------
(* stop(): set the event and cancel the ping task, cancel the callbacks,   *)
(* close the socket, and under AsyncAgent reap the run() task.             *)

StopBegin ==
    /\ stopper.at = "idle"
    /\ connecting => StopWhileConnecting
    /\ eventSet' = eventSet \cup {event}
    /\ stopper' = [at |-> "cancelling", conn |-> NoConn]
    /\ CleanupPing
    /\ UNCHANGED <<event, connecting, up, linkVars, run, netVars, regVars, cbTasks>>

NotReaped == run        \* mutant: the task is left to end by itself

(* AsyncAgent.stop() cancels its run() task and waits for it to end. *)
Reaped ==
    IF Lifecycle = "agent"
    THEN [r \in Runs |-> IF Ended(r) THEN run[r] ELSE Moved(run[r], "done", NoConn)]
    ELSE run

StopReturns ==
    /\ stopper' = [at |-> "idle", conn |-> NoConn]
    /\ wsReady' = FALSE
    /\ up' = FALSE
    /\ run' = Reaped

(* The callback tasks are cancelled and gathered; then close() the socket  *)
(* _ws refers to now.  close() of a lost socket returns at once.           *)
StopClose ==
    /\ stopper.at = "cancelling"
    /\ cbTasks' = {}
    /\ IF ws # NoConn /\ conn[ws] # "closed"
       THEN /\ stopper' = [at |-> "closing", conn |-> ws]
            /\ conn' = Closing(ws)
            /\ UNCHANGED <<wsReady, up, run>>
       ELSE StopReturns /\ UNCHANGED conn
    /\ UNCHANGED <<event, eventSet, connecting, ws, server, regVars, pingVars>>

StopEnd ==
    /\ stopper.at = "closing"
    /\ conn[stopper.conn] = "closed"
    /\ StopReturns
    /\ UNCHANGED <<event, eventSet, connecting, ws, netVars, regVars, pingVars,
                   cbTasks>>

-----------------------------------------------------------------------------
(* subscribe() and unsubscribe().                                          *)

Busy(i) == \E c \in Callers : call[c].at # "idle" /\ IdentOf[call[c].chan] = i
PendingSubs == {c \in Callers : call[c].at = "parked" /\ call[c].op = "sub"}

(* The application calls subscribe(); it waits for ws_ready first. *)
CallSub(c, chan) ==
    /\ call[c].at = "idle"
    /\ counter + Cardinality(PendingSubs) < MaxId
    /\ Busy(IdentOf[chan]) => Overlap
    /\ call' = [call EXCEPT ![c] = [IdleCall EXCEPT !.at = "parked", !.op = "sub",
                                                    !.chan = chan]]
    /\ UNCHANGED <<stopVars, linkVars, run, netVars, counter, active, held,
                   pingVars, cbTasks>>

(* The application gives up a subscription it holds. *)
CallUnsub(c, s) ==
    /\ call[c].at = "idle"
    /\ s \in held
    /\ Busy(IdentOf[s.chan]) => Overlap
    /\ call' = [call EXCEPT ![c] = [IdleCall EXCEPT !.at = "parked", !.op = "unsub",
                                                    !.chan = s.chan, !.id = s.id]]
    /\ held' = held \ {s}
    /\ UNCHANGED <<stopVars, linkVars, run, netVars, counter, active, pingVars,
                   cbTasks>>

(* History only: an unsubscribe() that raises leaves the subscription with  *)
(* the caller.  The manager itself does nothing here.                       *)
GiveBack(c) ==
    IF call[c].op = "unsub" THEN {[id |-> call[c].id, chan |-> call[c].chan]} ELSE {}

ParkedIgnores(c) == FALSE    \* mutant: the timeout is ignored

ParkedTimeout(c) ==
    /\ c \in Timed
    /\ call[c].at = "parked"
    /\ ~wsReady
    /\ held' = held \cup GiveBack(c)
    /\ call' = [call EXCEPT ![c] = IdleCall]
    /\ UNCHANGED <<stopVars, linkVars, run, netVars, counter, active, pingVars,
                   cbTasks>>

(* _check_userevent_guard() *)
GuardRaises(i) == i \in UserEvents /\ active[i] # {}

(* The sends on a socket are serialised in order: the frame of the first   *)
(* is written, the others wait for the lock.                               *)
Sending(k) == {c \in Callers : call[c].at = "sending" /\ call[c].conn = k}

Frame(served, op, chan) ==
    IF op = "sub" THEN served \cup {chan} ELSE served \ {chan}

StartSend(c, id) ==
    LET now == conn[ws] = "open" /\ Sending(ws) = {}
    IN  /\ call' = [call EXCEPT ![c] =
                       [@ EXCEPT !.at = "sending", !.id = id, !.conn = ws,
                                 !.ahead = Sending(ws), !.written = now]]
        /\ server' = IF now
                     THEN [server EXCEPT ![ws] = Frame(@, call[c].op, call[c].chan)]
                     ELSE server

GateOnSocket == ws # NoConn  \* mutant: a socket is enough

(* Callers poll ws_ready and go on when it is set. *)
Gate == wsReady

ReusedId == Cardinality(Registered) + 1   \* mutant: counts what is registered

NextId == counter + 1

(* Past the gate: take the next id, check the guard, start the send. *)
SubSend(c) ==
    /\ call[c].at = "parked" /\ call[c].op = "sub"
    /\ Gate
    /\ counter' = NextId
    /\ IF GuardRaises(IdentOf[call[c].chan])
       THEN call' = [call EXCEPT ![c] = IdleCall] /\ UNCHANGED server
       ELSE StartSend(c, NextId)
    /\ UNCHANGED <<stopVars, linkVars, run, conn, active, held, pingVars, cbTasks>>

WithoutOthers(i, id) == {s \in active[i] : s.id = id}   \* mutant: inverted

Without(i, id) == {s \in active[i] : s.id # id}

(* Past the gate: only the last subscriber of an identifier sends a frame. *)
UnsubSend(c) ==
    LET i == IdentOf[call[c].chan]
    IN  /\ call[c].at = "parked" /\ call[c].op = "unsub"
        /\ Gate
        /\ IF Without(i, call[c].id) = {} /\ active[i] # {}
           THEN StartSend(c, call[c].id) /\ UNCHANGED active
           ELSE /\ active' = [active EXCEPT ![i] = Without(i, call[c].id)]
                /\ call' = [call EXCEPT ![c] = IdleCall]
                /\ UNCHANGED server
        /\ UNCHANGED <<stopVars, linkVars, run, conn, counter, held, pingVars,
                       cbTasks>>

(* The lock is released to the next send in line on that socket. *)
Release(c) ==
    [d \in Callers |->
        IF d = c THEN IdleCall
        ELSE IF c \in call[d].ahead THEN [call[d] EXCEPT !.ahead = @ \ {c}]
        ELSE call[d]]

SendWrite(c) ==
    /\ call[c].at = "sending"
    /\ call[c].ahead = {} /\ ~call[c].written
    /\ conn[call[c].conn] = "open"
    /\ call' = [call EXCEPT ![c].written = TRUE]
    /\ server' = [server EXCEPT ![call[c].conn] =
                                    Frame(@, call[c].op, call[c].chan)]
    /\ UNCHANGED <<stopVars, linkVars, run, conn, counter, active, held, pingVars,
                   cbTasks>>

SubDoneUnchecked(c) ==  \* mutant: no second look at the guard
    LET s == [id |-> call[c].id, chan |-> call[c].chan]
    IN  /\ call[c].at = "sending" /\ call[c].op = "sub"
        /\ call[c].written
        /\ active' = [active EXCEPT ![IdentOf[s.chan]] = @ \cup {s}]
        /\ held' = held \cup {s}
        /\ call' = Release(c)
        /\ UNCHANGED <<stopVars, linkVars, run, netVars, counter, pingVars, cbTasks>>

SubDoneByChannel(c) ==  \* mutant: registered under the channel, as the caller spells it
    LET s == [id |-> call[c].id, chan |-> call[c].chan]
    IN  /\ call[c].at = "sending" /\ call[c].op = "sub"
        /\ call[c].written
        /\ active' = [i \in Identifiers \cup {s.chan} |->
                        IF i = s.chan THEN {s} ELSE active[i]]
        /\ held' = held \cup {s}
        /\ call' = Release(c)
        /\ UNCHANGED <<stopVars, linkVars, run, netVars, counter, pingVars, cbTasks>>

(* The send of subscribe() returns: the guard is checked again before the  *)
(* subscription is registered and its id returned.                         *)
SubDone(c) ==
    LET i == IdentOf[call[c].chan]
        s == [id |-> call[c].id, chan |-> call[c].chan]
    IN  /\ call[c].at = "sending" /\ call[c].op = "sub"
        /\ call[c].written
        /\ IF GuardRaises(i)
           THEN UNCHANGED <<active, held>>
           ELSE /\ active' = [active EXCEPT ![i] = @ \cup {s}]
                /\ held' = held \cup {s}
        /\ call' = Release(c)
        /\ UNCHANGED <<stopVars, linkVars, run, netVars, counter, pingVars, cbTasks>>

(* The send of unsubscribe() returns: the list computed before the await,  *)
(* which was empty, replaces whatever the identifier has now.              *)
UnsubDone(c) ==
    /\ call[c].at = "sending" /\ call[c].op = "unsub"
    /\ call[c].written
    /\ active' = [active EXCEPT ![IdentOf[call[c].chan]] = {}]
    /\ call' = Release(c)
    /\ UNCHANGED <<stopVars, linkVars, run, netVars, counter, held, pingVars, cbTasks>>

(* The send raises because its socket is lost or closing. *)
SendFail(c) ==
    /\ call[c].at = "sending"
    /\ call[c].ahead = {}
    /\ conn[call[c].conn] # "open"
    /\ held' = held \cup GiveBack(c)
    /\ call' = Release(c)
    /\ UNCHANGED <<stopVars, linkVars, run, netVars, counter, active, pingVars,
                   cbTasks>>

-----------------------------------------------------------------------------
NetStep  == \E k \in Conns : NetDrop(k) \/ CloseDone(k)
AppStep  == \/ ConnectBegin \/ ConnectFail
            \/ \E r \in Runs, k \in Conns : ConnectOk(r, k)
            \/ StopBegin \/ StopClose \/ StopEnd
RunStep(r) ==
    \/ RunStart(r) \/ RunDisconnected(r) \/ RunBreak(r)
    \/ RunConnectFail(r) \/ RestoreFail(r) \/ RestoreDone(r) \/ RunShut(r)
    \/ BackoffStopped(r) \/ BackoffTimeout(r) \/ PingEnd(r)
    \/ \E k \in Conns : RunConnectOk(r, k)
    \/ \E s \in Registered : RestoreSend(r, s)
    \/ \E m \in Messages : Deliver(r, m)
CallStep(c) ==
    \/ \E chan \in Channels : CallSub(c, chan)
    \/ \E s \in held : CallUnsub(c, s)
    \/ ParkedTimeout(c) \/ SubSend(c) \/ UnsubSend(c) \/ SendWrite(c)
    \/ SubDone(c) \/ UnsubDone(c) \/ SendFail(c)

Next ==
    \/ NetStep
    \/ AppStep
    \/ \E r \in Runs : RunStep(r)
    \/ \E c \in Callers : CallStep(c)
    \/ \E id \in cbTasks : CallbackDone(id)

Spec == Init /\ [][Next]_vars

(* Every task that can continue is resumed by the event loop, a close()     *)
(* handshake ends (websockets bounds it by close_timeout), and a server     *)
(* asked again and again accepts in the end.  Nothing forces a drop, a      *)
(* failure, a message or a call of the application.                         *)
Fairness ==
    /\ \A k \in Conns : WF_vars(CloseDone(k))
    /\ \A r \in Runs :
          /\ WF_vars(RunStart(r)) /\ WF_vars(RunDisconnected(r))
          /\ WF_vars(RestoreFail(r)) /\ WF_vars(RestoreDone(r))
          /\ WF_vars(\E s \in Registered : RestoreSend(r, s))
          /\ WF_vars(BackoffStopped(r)) /\ WF_vars(BackoffTimeout(r))
          /\ WF_vars(RunShut(r)) /\ WF_vars(PingEnd(r))
          /\ SF_vars(\E k \in Conns : RunConnectOk(r, k))
          /\ WF_vars(RunConnectFail(r) \/ \E k \in Conns : RunConnectOk(r, k))
    /\ WF_vars(StopClose) /\ WF_vars(StopEnd)
    /\ \A c \in Callers :
          /\ WF_vars(ParkedTimeout(c) \/ SubSend(c) \/ UnsubSend(c))  \* its polling
          /\ WF_vars(SendWrite(c)) /\ WF_vars(SubDone(c)) /\ WF_vars(UnsubDone(c))
          /\ WF_vars(SendFail(c))

FairSpec == Spec /\ Fairness

-----------------------------------------------------------------------------
(* Safety.                                                                 *)

(* At most one userEvent subscription exists per address, although the     *)
(* guard is evaluated before the send and two callers may both pass it     *)
(* (async_ws.py:491-497, 559-561).                                         *)
OneUserEvent ==
    \A i \in UserEvents : \A s, t \in active[i] : s = t

(* While the manager says it is ready and its socket is open, the server   *)
(* serves the channel of every registered subscription: drops, restores,   *)
(* failed sends and sends overtaking each other never leave a registration *)
(* that gets nothing.  The exception is an unsubscribe whose frame is      *)
(* already on the wire (async_ws.py:303-326, 545-565, 602-615).            *)
RegisteredIsServed ==
    (wsReady /\ ws # NoConn /\ conn[ws] = "open") =>
        \A s \in Registered :
            \/ s.chan \in server[ws]
            \/ \E c \in Sending(ws) : /\ call[c].op = "unsub" /\ call[c].written
                                      /\ call[c].chan = s.chan

(* A subscription the application was given and has not given up stays     *)
(* registered (async_ws.py:563-567, 595-616).                              *)
HeldIsRegistered == held \subseteq Registered

(* A message reaches the subscriptions of the streams it is about and no   *)
(* other one: it is never dropped under a key nobody registered, whatever  *)
(* spellings subscribers and server use (async_ws.py:38-40, 439-453;       *)
(* tests/ws_pure_test.py:105-108).                                         *)
RoutedToSubscribers ==
    \A m \in Messages : \A s \in Registered : s \in Listeners(m) <=> s.chan \in About[m]

(* Once stop() has returned the manager is not ready (async_ws.py:290-299, *)
(* 386-391; tests/async_ws_test.py:607).                                   *)
NotReadyAfterStop == (Stopped /\ stopper.at = "idle") => ~wsReady

(* Once stop() has returned and every run() task has ended, no socket is   *)
(* open any more: a handshake that completes late is closed                *)
(* (async_ws.py:290-296; tests/async_ws_test.py:606).                      *)
NoSocketAfterStop ==
    (Stopped /\ stopper.at = "idle" /\ ~connecting /\ Alive = {}) =>
        \A k \in Conns : conn[k] # "open"

(* No async callback is pending after stop() has returned, whatever        *)
(* messages arrived while it was closing the socket (async_ws.py:243-244,  *)
(* 379-384).                                                               *)
NoCallbackAfterStop == (Stopped /\ stopper.at # "cancelling") => cbTasks = {}

(* Each receiving loop has its own ping task, the one the manager refers   *)
(* to, as long as its socket is open; outside of that there is no ping     *)
(* (async_ws.py:238-254, 328-344).                                         *)
PingOwned ==
    /\ \A r \in pingLive : run[r].at = "recv" /\ pingRef = r
    /\ \A r \in Runs :
          (run[r].at = "recv" /\ conn[run[r].conn] = "open" /\ ~Stopped) =>
              r \in pingLive

(* While subscriptions are being restored the set of registrations does    *)
(* not change, so iterating over it without a copy is safe                 *)
(* (async_ws.py:306-308).                                                  *)
RestoreStable ==
    [][(\E r \in Runs : run[r].at = "restoring") => UNCHANGED active]_vars

(* A message loop whose stop event has been set never receives again, not  *)
(* even when the manager is restarted meanwhile (async_ws.py:233, 267-271).*)
StopEndsReconnect ==
    [][\A r \in Runs : (run[r].at # "recv" /\ run'[r].at = "recv") =>
                           run[r].born \notin eventSet]_vars

(* unsubscribe() removes the subscription it was asked to remove and no    *)
(* other one (async_ws.py:576, 598-615).                                   *)
UnsubscribeRemovesOwn ==
    [][\A c \in Callers : \A s \in Registered :
           (call[c].op = "unsub" /\ call'[c].op = "none" /\ s.id # call[c].id)
               => s \in Registered']_vars

(* As long as the application has one call at a time in flight on an       *)
(* identifier, the registry is the one SubscriptionRegistry describes      *)
(* (async_ws.py:491-616).                                                  *)
Registry == INSTANCE SubscriptionRegistry WITH registered <- Registered
RegistrySpec == Registry!Spec

-----------------------------------------------------------------------------
(* Liveness, under FairSpec.                                               *)

NetSettles == <>[][\A k \in Conns : ~NetDrop(k)]_vars

(* After stop() every message loop ends, in whatever phase of connecting,  *)
(* restoring or backing off it was (async_ws.py:233, 267-271).             *)
StopEndsRuns == \A r \in Runs : (Stopped /\ ~Ended(r)) ~> Ended(r)

(* When connections stop dropping, a registered channel is served again:   *)
(* the loop keeps retrying and restores every registration                 *)
(* (async_ws.py:226-229).                                                  *)
Recovery ==
    NetSettles =>
        \A chan \in Channels :
            (\E s \in Registered : s.chan = chan) ~>
                \/ ws # NoConn /\ conn[ws] = "open" /\ chan \in server[ws]
                \/ \A s \in Registered : s.chan # chan
                \/ Stopped

(* A call with a timeout always comes back.  One without comes back when   *)
(* connections stop dropping and the manager is not stopped                *)
(* (async_ws.py:528-534, 587-593).                                         *)
CallsReturn ==
    /\ \A c \in Timed : call[c].at = "parked" ~> call[c].at # "parked"
    /\ NetSettles => \A c \in Callers :
           (up /\ call[c].at # "idle") ~> (call[c].at = "idle" \/ Stopped)
=============================================================================
