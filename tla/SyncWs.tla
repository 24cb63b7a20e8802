------------------------------- MODULE SyncWs -------------------------------
(***************************************************************************)
(* The threaded subscription manager of the SDK: WebsocketManager          *)
(* (src/alphasec/websocket/ws.py), started and stopped by Agent            *)
(* (src/alphasec/agent.py).  Its own thread runs the reconnect loop and,   *)
(* inside run_forever() of websocket-client, every callback; application   *)
(* threads call subscribe(), unsubscribe() and stop().                     *)
(*                                                                         *)
(* A step is what one thread does between two calls, which is where the    *)
(* interpreter (3.10 and later) may switch to another thread; so taking    *)
(* the next id is one step.  Reading self.ws and sending on it are one     *)
(* step too: a backoff of a second or more lies between the loss of an     *)
(* application and its replacement.  Not modelled: the value of the        *)
(* backoff delay, a caller-supplied subscription_id, and callbacks that    *)
(* call back into the manager.                                             *)
(***************************************************************************)
EXTENDS Integers, FiniteSets

CONSTANTS
    Callers,         \* application threads that subscribe and unsubscribe
    Timed,           \* the callers that pass a timeout
    Channels,        \* channel strings
    Identifiers,     \* routing keys
    IdentOf,         \* channel_to_identifier, as a function of the channel
    UserEvents,      \* the identifiers that start with "userEvent:"
    MaxId,           \* bound: subscription ids handed out
    NoChan,
    Overlap,         \* may two calls be in flight on one identifier?
    CallbackRaises   \* may a callback of a subscriber raise?

ASSUME CallersAssumption == Timed \subseteq Callers
ASSUME RoutingAssumption ==
    /\ IdentOf \in [Channels -> Identifiers]
    /\ UserEvents \subseteq Identifiers
ASSUME BoundAssumption == MaxId \in Nat
ASSUME SwitchAssumption == Overlap \in BOOLEAN /\ CallbackRaises \in BOOLEAN
ASSUME NoneAssumption == NoChan \notin Channels

VARIABLES
    thread,       \* where the manager's thread is
    pinger,       \* where the ping thread is
    stopper,      \* progress of stop()
    stopEvent,    \* stop_event is set
    missed,       \* history: close() fell between the check and run_forever()
    keepRunning,  \* keep_running of the current WebSocketApp
    link,         \* its socket: none, open, or dead and not yet noticed
    server,       \* channels the server serves on that socket
    wsReady,      \* ws_ready
    todo,         \* what the loop of the restore under way has still to send
    counter,      \* subscription_id_counter
    active,       \* active_subscriptions
    call,         \* the subscribe()/unsubscribe() call of each caller
    held          \* subscriptions the application holds: returned, not given up

stopVars == <<stopper, stopEvent, missed>>
linkVars == <<keepRunning, link, server>>
loopVars == <<thread, pinger, todo>>
regVars  == <<counter, active, call, held>>
vars == <<thread, pinger, stopper, stopEvent, missed, keepRunning, link, server,
          wsReady, todo, counter, active, call, held>>

-----------------------------------------------------------------------------
Sub == [id : Nat, chan : Channels]

IdleCall == [at |-> "idle", op |-> "none", chan |-> NoChan, id |-> 0, keep |-> {}]
BusyCall ==
    [at : {"parked", "appending", "sending", "storing"},
     op : {"sub", "unsub"},
     chan : Channels,
     id : Nat,
     keep : SUBSET Sub]     \* the list an unsubscribe() is going to store

Registered == UNION {active[i] : i \in Identifiers}
SubOf(c)   == [id |-> call[c].id, chan |-> call[c].chan]

TypeOK ==
    /\ thread \in {"new", "starting", "check", "call", "dialing", "opened",
                   "restoring", "reading", "ended", "backoff", "done"}
    /\ pinger \in {"new", "alive", "done"}
    /\ stopper \in {"idle", "set", "joining", "returned"}
    /\ stopEvent \in BOOLEAN
    /\ missed \in BOOLEAN
    /\ keepRunning \in BOOLEAN
    /\ link \in {"none", "open", "dead"}
    /\ server \subseteq Channels
    /\ wsReady \in BOOLEAN
    /\ todo \subseteq Sub
    /\ counter \in Nat
    /\ active \in [Identifiers -> SUBSET Sub]
    /\ call \in [Callers -> {IdleCall} \cup BusyCall]
    /\ held \subseteq Sub

Init ==
    /\ thread = "new" /\ pinger = "new"
    /\ stopper = "idle" /\ stopEvent = FALSE /\ missed = FALSE
    /\ keepRunning = FALSE /\ link = "none" /\ server = {}
    /\ wsReady = FALSE
    /\ todo = {}
    /\ counter = 0
    /\ active = [i \in Identifiers |-> {}]
    /\ call = [c \in Callers |-> IdleCall]
    /\ held = {}

-----------------------------------------------------------------------------
(* The manager's thread: run() and, inside run_forever(), the callbacks.   *)

ThreadTo(at) == thread' = at

(* start() *)
Start ==
    /\ thread = "new"
    /\ ThreadTo("starting")
    /\ UNCHANGED <<pinger, todo, stopVars, linkVars, wsReady, regVars>>

PingerStart ==
    /\ thread = "starting"
    /\ ThreadTo("check")
    /\ pinger' = "alive"
    /\ UNCHANGED <<todo, stopVars, linkVars, wsReady, regVars>>

(* send_ping() sees the stop event; its pings change nothing. *)
PingerEnd ==
    /\ pinger = "alive"
    /\ stopEvent
    /\ pinger' = "done"
    /\ UNCHANGED <<thread, todo, stopVars, linkVars, wsReady, regVars>>

Check ==
    /\ thread = "check"
    /\ ThreadTo(IF stopEvent THEN "done" ELSE "call")
    /\ UNCHANGED <<pinger, todo, stopVars, linkVars, wsReady, regVars>>

(* run_forever() sets keep_running, whatever a close() did before it. *)
RunForever ==
    /\ thread = "call"
    /\ ThreadTo("dialing")
    /\ keepRunning' = TRUE
    /\ UNCHANGED <<pinger, todo, stopVars, link, server, wsReady, regVars>>

(* The handshake succeeds and on_open() marks the manager ready.  A close() *)
(* during the handshake may have taken the socket away already.             *)
DialOk ==
    /\ thread = "dialing"
    /\ ThreadTo("opened")
    /\ link' \in IF keepRunning THEN {"open"} ELSE {"open", "none"}
    /\ wsReady' = TRUE
    /\ UNCHANGED <<pinger, todo, stopVars, keepRunning, server, regVars>>

(* on_error(), then the teardown, which calls on_close(). *)
Teardown ==
    /\ ThreadTo("ended")
    /\ keepRunning' = FALSE
    /\ link' = "none"
    /\ server' = {}
    /\ wsReady' = FALSE
    /\ UNCHANGED <<pinger, todo, stopVars, regVars>>

DialFail == thread = "dialing" /\ Teardown

RestoreNothing == {}     \* mutant: reconnects without restoring

(* _restore_subscriptions() takes a snapshot of the lists. *)
ToRestore == Registered

RestoreBegin ==
    /\ thread = "opened"
    /\ ThreadTo("restoring")
    /\ todo' = ToRestore
    /\ UNCHANGED <<pinger, stopVars, linkVars, wsReady, regVars>>

(* One frame.  On a connection lost unnoticed it may be lost with it. *)
RestoreSend(s) ==
    /\ thread = "restoring"
    /\ s \in todo
    /\ link # "none"
    /\ todo' = todo \ {s}
    /\ server' = IF link = "open" THEN server \cup {s.chan} ELSE server
    /\ UNCHANGED <<thread, pinger, stopVars, keepRunning, link, wsReady, regVars>>

(* The send raises out of on_open(); websocket-client hands the exception   *)
(* to on_error() and goes on to read.                                       *)
RestoreRaise ==
    /\ thread = "restoring"
    /\ todo # {}
    /\ link # "open"
    /\ ThreadTo("reading")
    /\ todo' = {}
    /\ wsReady' = FALSE
    /\ UNCHANGED <<pinger, stopVars, linkVars, regVars>>

RestoreEnd ==
    /\ thread = "restoring"
    /\ todo = {}
    /\ ThreadTo("reading")
    /\ UNCHANGED <<pinger, todo, stopVars, linkVars, wsReady, regVars>>

(* on_message(): an exception out of a subscriber's callback goes to        *)
(* on_error(), too.  Messages that raise nothing change nothing here.       *)
CallbackRaised ==
    /\ CallbackRaises
    /\ thread = "reading"
    /\ link = "open" /\ keepRunning
    /\ \E s \in Registered : s.chan \in server
    /\ wsReady' = FALSE
    /\ UNCHANGED <<loopVars, stopVars, linkVars, regVars>>

(* The read loop ends: the loss is noticed, or close() was called. *)
ReadEnd ==
    /\ thread = "reading"
    /\ link # "open" \/ ~keepRunning
    /\ Teardown

EndedGivesUp ==          \* mutant: a disconnect ends the loop
    /\ thread = "ended"
    /\ ThreadTo("done")
    /\ wsReady' = FALSE
    /\ UNCHANGED <<pinger, todo, stopVars, linkVars, regVars>>

(* run_forever() has returned. *)
Ended ==
    /\ thread = "ended"
    /\ IF stopEvent
       THEN ThreadTo("done") /\ UNCHANGED wsReady
       ELSE ThreadTo("backoff") /\ wsReady' = FALSE
    /\ UNCHANGED <<pinger, todo, stopVars, linkVars, regVars>>

(* The wait is over: stopped, or a new application and another round. *)
Backoff ==
    /\ thread = "backoff"
    /\ ThreadTo(IF stopEvent THEN "done" ELSE "check")
    /\ UNCHANGED <<pinger, todo, stopVars, linkVars, wsReady, regVars>>

NetDrop ==
    /\ link = "open"
    /\ link' = "dead"
    /\ server' = {}
    /\ UNCHANGED <<loopVars, stopVars, keepRunning, wsReady, regVars>>

-----------------------------------------------------------------------------
(* stop(): set the event, close the application, join the ping thread.     *)

StopSet ==
    /\ stopper = "idle"
    /\ stopper' = "set"
    /\ stopEvent' = TRUE
    /\ UNCHANGED <<missed, loopVars, linkVars, wsReady, regVars>>

StopSkipsClose ==        \* mutant: the application is not closed
    /\ stopper = "set"
    /\ stopper' = IF pinger = "alive" THEN "joining" ELSE "returned"
    /\ UNCHANGED <<stopEvent, missed, loopVars, linkVars, wsReady, regVars>>

(* WebSocketApp.close() clears keep_running and closes its socket, if any. *)
StopClose ==
    /\ stopper = "set"
    /\ stopper' = IF pinger = "alive" THEN "joining" ELSE "returned"
    /\ keepRunning' = FALSE
    /\ link' = "none"
    /\ server' = {}
    /\ missed' = (thread = "call")
    /\ UNCHANGED <<stopEvent, loopVars, wsReady, regVars>>

StopJoined ==
    /\ stopper = "joining"
    /\ pinger = "done"
    /\ stopper' = "returned"
    /\ UNCHANGED <<stopEvent, missed, loopVars, linkVars, wsReady, regVars>>

-----------------------------------------------------------------------------
(* subscribe() and unsubscribe().                                          *)

Return(c)  == call' = [call EXCEPT ![c] = IdleCall]
CallTo(c, at) == call' = [call EXCEPT ![c].at = at]
Busy(i)    == \E c \in Callers : call[c].at # "idle" /\ IdentOf[call[c].chan] = i
PendingSubs == {c \in Callers : call[c].at = "parked" /\ call[c].op = "sub"}

CallSub(c, chan) ==
    /\ call[c].at = "idle"
    /\ counter + Cardinality(PendingSubs) < MaxId
    /\ Busy(IdentOf[chan]) => Overlap
    /\ call' = [call EXCEPT ![c] = [IdleCall EXCEPT !.at = "parked", !.op = "sub",
                                                    !.chan = chan]]
    /\ UNCHANGED <<loopVars, stopVars, linkVars, wsReady, counter, active, held>>

(* The application gives up a subscription it holds. *)
CallUnsub(c, s) ==
    /\ call[c].at = "idle"
    /\ s \in held
    /\ Busy(IdentOf[s.chan]) => Overlap
    /\ call' = [call EXCEPT ![c] = [IdleCall EXCEPT !.at = "parked", !.op = "unsub",
                                                    !.chan = s.chan, !.id = s.id]]
    /\ held' = held \ {s}
    /\ UNCHANGED <<loopVars, stopVars, linkVars, wsReady, counter, active>>

(* History only: an unsubscribe() that raises leaves the subscription with  *)
(* the caller.  The manager itself does nothing here.                       *)
GiveBack(c) == IF call[c].op = "unsub" THEN {SubOf(c)} ELSE {}

Raise(c) == Return(c) /\ held' = held \cup GiveBack(c)

ParkedIgnoresStop(c) == \* mutant: only the timeout ends the wait
    /\ call[c].at = "parked"
    /\ ~wsReady
    /\ c \in Timed
    /\ Raise(c)
    /\ UNCHANGED <<loopVars, stopVars, linkVars, wsReady, counter, active>>

(* RuntimeError once the manager is stopped, TimeoutError after the timeout. *)
ParkedRaise(c) ==
    /\ call[c].at = "parked"
    /\ ~wsReady
    /\ stopEvent \/ c \in Timed
    /\ Raise(c)
    /\ UNCHANGED <<loopVars, stopVars, linkVars, wsReady, counter, active>>

GuardRaises(i) == i \in UserEvents /\ active[i] # {}

ReusedId == Cardinality(Registered) + 1   \* mutant: counts what is registered

NextId == counter + 1

(* Past the gate: take the next id, check the userEvent guard. *)
SubEnter(c) ==
    /\ call[c].at = "parked" /\ call[c].op = "sub"
    /\ wsReady
    /\ counter' = NextId
    /\ IF GuardRaises(IdentOf[call[c].chan])
       THEN Return(c)
       ELSE call' = [call EXCEPT ![c] = [@ EXCEPT !.at = "appending", !.id = NextId]]
    /\ UNCHANGED <<loopVars, stopVars, linkVars, wsReady, active, held>>

SubAppendByChannel(c) ==  \* mutant: registered under the channel, as the caller spells it
    /\ call[c].at = "appending"
    /\ active' = [i \in Identifiers \cup {call[c].chan} |->
                    IF i = call[c].chan THEN {SubOf(c)} ELSE active[i]]
    /\ CallTo(c, "sending")
    /\ UNCHANGED <<thread, pinger, todo, stopVars, linkVars, wsReady, counter, held>>

(* The registration comes before its frame.  A restore under way sees it    *)
(* if it is iterating over that very list, at its end at the latest; whether *)
(* it is depends on when the list was made.                                 *)
SubAppend(c) ==
    /\ call[c].at = "appending"
    /\ active' = [active EXCEPT ![IdentOf[call[c].chan]] = @ \cup {SubOf(c)}]
    /\ todo' \in {todo} \cup
          (IF thread = "restoring" THEN {todo \cup {SubOf(c)}} ELSE {})
    /\ CallTo(c, "sending")
    /\ UNCHANGED <<thread, pinger, stopVars, linkVars, wsReady, counter, held>>

(* The frame goes out; if the connection is lost unnoticed, it is lost too. *)
SubSend(c) ==
    /\ call[c].at = "sending" /\ call[c].op = "sub"
    /\ link # "none"
    /\ server' = IF link = "open" THEN server \cup {call[c].chan} ELSE server
    /\ held' = held \cup {SubOf(c)}
    /\ Return(c)
    /\ UNCHANGED <<loopVars, stopVars, keepRunning, link, wsReady, counter, active>>

(* subscribe() raises, but the registration stays. *)
SubRaise(c) ==
    /\ call[c].at = "sending" /\ call[c].op = "sub"
    /\ link # "open"
    /\ Return(c)
    /\ UNCHANGED <<loopVars, stopVars, linkVars, wsReady, counter, active, held>>

WithoutOthers(i, id) == {s \in active[i] : s.id = id}   \* mutant: inverted

Without(i, id) == {s \in active[i] : s.id # id}

(* Past the gate: a frame is sent only if no subscriber would be left. *)
UnsubEnter(c) ==
    LET keep == Without(IdentOf[call[c].chan], call[c].id)
    IN  /\ call[c].at = "parked" /\ call[c].op = "unsub"
        /\ wsReady
        /\ call' = [call EXCEPT ![c] =
                      [@ EXCEPT !.at = IF keep = {} THEN "sending" ELSE "storing",
                                !.keep = keep]]
        /\ UNCHANGED <<loopVars, stopVars, linkVars, wsReady, counter, active, held>>

UnsubSend(c) ==
    /\ call[c].at = "sending" /\ call[c].op = "unsub"
    /\ link # "none"
    /\ server' = server \ {call[c].chan}
    /\ CallTo(c, "storing")
    /\ UNCHANGED <<loopVars, stopVars, keepRunning, link, wsReady, counter, active,
                   held>>

UnsubRaise(c) ==
    /\ call[c].at = "sending" /\ call[c].op = "unsub"
    /\ link # "open"
    /\ Raise(c)
    /\ UNCHANGED <<loopVars, stopVars, linkVars, wsReady, counter, active>>

UnsubStore(c) ==
    /\ call[c].at = "storing"
    /\ active' = [active EXCEPT ![IdentOf[call[c].chan]] = call[c].keep]
    /\ Return(c)
    /\ UNCHANGED <<loopVars, stopVars, linkVars, wsReady, counter, held>>

-----------------------------------------------------------------------------
ThreadStep ==
    \/ Start \/ PingerStart \/ Check \/ RunForever
    \/ DialOk \/ DialFail \/ RestoreBegin \/ RestoreRaise \/ RestoreEnd
    \/ CallbackRaised \/ ReadEnd \/ Ended \/ Backoff
    \/ \E s \in todo : RestoreSend(s)
StopStep == StopSet \/ StopClose \/ StopJoined
CallStep(c) ==
    \/ \E chan \in Channels : CallSub(c, chan)
    \/ \E s \in held : CallUnsub(c, s)
    \/ ParkedRaise(c) \/ SubEnter(c) \/ SubAppend(c) \/ SubSend(c) \/ SubRaise(c)
    \/ UnsubEnter(c) \/ UnsubSend(c) \/ UnsubRaise(c) \/ UnsubStore(c)

Next ==
    \/ ThreadStep
    \/ StopStep
    \/ PingerEnd
    \/ NetDrop
    \/ \E c \in Callers : CallStep(c)

Spec == Init /\ [][Next]_vars

(* Threads that can continue do, and a server dialed again and again        *)
(* accepts in the end.  Nothing forces a drop, a callback that raises, or a *)
(* call of the application (start() and stop() included).                   *)
Fairness ==
    /\ WF_vars(PingerStart) /\ WF_vars(PingerEnd)
    /\ WF_vars(Check) /\ WF_vars(RunForever)
    /\ WF_vars(DialOk \/ DialFail) /\ SF_vars(DialOk)
    /\ WF_vars(RestoreBegin) /\ WF_vars(RestoreRaise \/ \E s \in todo : RestoreSend(s))
    /\ WF_vars(RestoreEnd) /\ WF_vars(ReadEnd) /\ WF_vars(Ended) /\ WF_vars(Backoff)
    /\ WF_vars(StopClose) /\ WF_vars(StopJoined)
    /\ \A c \in Callers :
          /\ WF_vars(ParkedRaise(c) \/ SubEnter(c) \/ UnsubEnter(c))  \* its polling
          /\ WF_vars(SubAppend(c)) /\ WF_vars(SubSend(c) \/ SubRaise(c))
          /\ WF_vars(UnsubSend(c) \/ UnsubRaise(c)) /\ WF_vars(UnsubStore(c))

FairSpec == Spec /\ Fairness

-----------------------------------------------------------------------------
(* Safety.                                                                 *)

(* A subscription the application was given and has not given up stays     *)
(* registered (ws.py:239-241, 256-261).                                    *)
HeldIsRegistered == held \subseteq Registered

(* Once the restore is over, an open connection serves the channel of      *)
(* every registration, those whose subscribe() raised included; the        *)
(* exceptions are calls between registering and sending, or between        *)
(* sending and unregistering (ws.py:197-216, 239-240, 258-260).            *)
RegisteredIsServed ==
    (thread = "reading" /\ link = "open") =>
        \A s \in Registered :
            \/ s.chan \in server
            \/ \E c \in Callers :
                  /\ call[c].chan = s.chan
                  /\ \/ call[c].op = "sub" /\ call[c].at = "sending"
                     \/ call[c].op = "unsub" /\ call[c].at = "storing"

(* At most one userEvent subscription exists per address (ws.py:236-239).  *)
OneUserEvent == \A i \in UserEvents : \A s, t \in active[i] : s = t

(* As long as the application has one call at a time in flight on an       *)
(* identifier, the registry is the one SubscriptionRegistry describes      *)
(* (ws.py:230-261).                                                        *)
Registry == INSTANCE SubscriptionRegistry WITH registered <- Registered
RegistrySpec == Registry!Spec

-----------------------------------------------------------------------------
(* Liveness, under FairSpec.                                               *)

NetSettles == <>[][~NetDrop]_vars

(* When connections stop dropping, a registered channel is served again,   *)
(* callbacks that raise notwithstanding (ws.py:133-149, 197-216).          *)
Recovery ==
    NetSettles =>
        \A chan \in Channels :
            (thread # "new" /\ \E s \in Registered : s.chan = chan) ~>
                \/ link = "open" /\ chan \in server
                \/ \A s \in Registered : s.chan # chan
                \/ stopEvent

(* No call outlives stop(): it raises, or finishes on what is left of the  *)
(* connection.  A call with a timeout always comes back (ws.py:222-228,    *)
(* 245-251).                                                               *)
CallsReturn ==
    \A c \in Callers :
        (call[c].at # "idle" /\ (stopEvent \/ c \in Timed)) ~> call[c].at = "idle"

(* After stop() the thread ends, whatever it was doing; only a close() that *)
(* falls between the check of the event and run_forever() is lost           *)
(* (ws.py:139-146, 161-165).                                                *)
StopEndsThread == stopEvent ~> (thread \in {"new", "done"} \/ missed)
=============================================================================
