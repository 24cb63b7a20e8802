--------------------------- MODULE AsyncWsProofs ---------------------------
(***************************************************************************)
(* Theorems about AsyncWs, for every set of callers, channels, sockets and *)
(* run() tasks and every bound on ids and connects.                        *)
(***************************************************************************)
EXTENDS AsyncWs, TLAPS

-----------------------------------------------------------------------------
(* Type correctness, one lemma for each group of actions.                  *)

LEMMA ClosingType ==
    ASSUME TypeOK, NEW k \in Conns
    PROVE  Closing(k) \in [Conns -> {"closed", "open", "closing"}]
  BY DEF TypeOK, Closing

LEMMA MovedType ==
    ASSUME TypeOK, NEW task \in RunTask, NEW k \in Conns \cup {NoConn},
           NEW at \in {"none", "start", "recv", "connecting", "restoring",
                       "backoff", "shutting", "done"}
    PROVE  Moved(task, at, k) \in RunTask
  BY DEF TypeOK, RunTask, Moved

LEMMA RunToType ==
    ASSUME TypeOK, NEW r \in Runs, NEW k \in Conns \cup {NoConn},
           NEW at \in {"none", "start", "recv", "connecting", "restoring",
                       "backoff", "shutting", "done"}
    PROVE  RunTo(r, at, k) \in [Runs -> RunTask]
  <1>1. run[r] \in RunTask BY DEF TypeOK
  <1>2. Moved(run[r], at, k) \in RunTask BY <1>1, MovedType
  <1> QED BY <1>2 DEF TypeOK, RunTo

LEMMA StopReturnsType ==
    ASSUME TypeOK, StopReturns
    PROVE  /\ stopper' \in [at : {"idle", "cancelling", "closing"},
                            conn : Conns \cup {NoConn}]
           /\ wsReady' \in BOOLEAN
           /\ up' \in BOOLEAN
           /\ run' \in [Runs -> RunTask]
  <1>1. \A r \in Runs : Moved(run[r], "done", NoConn) \in RunTask
    BY MovedType DEF TypeOK
  <1>2. run' \in [Runs -> RunTask]
    BY <1>1 DEF TypeOK, StopReturns, Reaped
  <1> QED BY <1>2 DEF StopReturns


LEMMA NetStepType ==
    ASSUME TypeOK, NetStep PROVE TypeOK'
  <1>1. ASSUME NEW k \in Conns, NetDrop(k) PROVE TypeOK'
    BY <1>1 DEF TypeOK, NetDrop, stopVars, linkVars, regVars, pingVars
  <1>2. ASSUME NEW k \in Conns, CloseDone(k) PROVE TypeOK'
    BY <1>2 DEF TypeOK, CloseDone, stopVars, linkVars, regVars, pingVars
  <1> QED BY <1>1, <1>2 DEF NetStep

LEMMA AppStepType ==
    ASSUME TypeOK, AppStep PROVE TypeOK'
  <1> USE DEF linkVars, netVars, regVars, pingVars
  <1>1. CASE ConnectBegin BY <1>1 DEF TypeOK, ConnectBegin
  <1>2. CASE ConnectFail BY <1>2 DEF TypeOK, ConnectFail
  <1>3. ASSUME NEW r \in Runs, NEW k \in Conns, ConnectOk(r, k) PROVE TypeOK'
    BY <1>3 DEF TypeOK, ConnectOk, Open, NewRun, RunTask
  <1>4. CASE StopBegin BY <1>4 DEF TypeOK, StopBegin, CleanupPing
  <1>5. CASE StopClose
    <2>1. CASE ws # NoConn /\ conn[ws] # "closed"
      <3>1. ws \in Conns BY <2>1 DEF TypeOK
      <3>2. conn' \in [Conns -> {"closed", "open", "closing"}]
        BY <1>5, <2>1, <3>1, ClosingType DEF StopClose
      <3> QED BY <1>5, <2>1, <3>1, <3>2 DEF StopClose, TypeOK
    <2>2. CASE ~(ws # NoConn /\ conn[ws] # "closed")
      <3>1. StopReturns /\ UNCHANGED conn BY <1>5, <2>2 DEF StopClose
      <3> QED BY <1>5, <3>1, StopReturnsType DEF StopClose, TypeOK
    <2> QED BY <2>1, <2>2
  <1>6. CASE StopEnd BY <1>6, StopReturnsType DEF StopEnd, TypeOK
  <1> QED BY <1>1, <1>2, <1>3, <1>4, <1>5, <1>6 DEF AppStep

LEMMA RunStepType ==
    ASSUME TypeOK, NEW r \in Runs, RunStep(r) PROVE TypeOK'
  <1> USE DEF stopVars, linkVars, netVars, regVars, pingVars
  <1>a. ws \in Conns \cup {NoConn} BY DEF TypeOK
  <1>1. CASE RunStart(r)
    BY <1>1, <1>a, RunToType DEF TypeOK, RunStart, Receive
  <1>2. CASE RunDisconnected(r)
    <2>1. run' \in [Runs -> RunTask] BY <1>2, RunToType DEF RunDisconnected
    <2>2. wsReady' \in BOOLEAN BY <1>2 DEF RunDisconnected, TypeOK
    <2> QED BY <1>2, <2>1, <2>2 DEF TypeOK, RunDisconnected, CleanupPing
  <1>3. CASE RunBreak(r)
    BY <1>3, RunToType DEF TypeOK, RunBreak, CleanupPing
  <1>4. CASE RunConnectFail(r)
    BY <1>4, RunToType DEF TypeOK, RunConnectFail
  <1>5. CASE RestoreFail(r)
    BY <1>5, RunToType DEF TypeOK, RestoreFail
  <1>6. CASE RestoreDone(r)
    <2>1. CASE Stopped
      <3>1. conn' \in [Conns -> {"closed", "open", "closing"}]
        BY <1>6, <2>1 DEF TypeOK, RestoreDone, Closing
      <3>2. run' \in [Runs -> RunTask]
        BY <1>6, <2>1, <1>a, RunToType DEF RestoreDone
      <3> QED BY <1>6, <2>1, <3>1, <3>2 DEF TypeOK, RestoreDone
    <2>2. CASE ~Stopped
      BY <1>6, <2>2, <1>a, RunToType DEF TypeOK, RestoreDone, Receive
    <2> QED BY <2>1, <2>2
  <1>7. CASE RunShut(r) BY <1>7, RunToType DEF TypeOK, RunShut
  <1>8. CASE BackoffStopped(r) BY <1>8, RunToType DEF TypeOK, BackoffStopped
  <1>9. CASE BackoffTimeout(r) BY <1>9, RunToType DEF TypeOK, BackoffTimeout
  <1>10. CASE PingEnd(r) BY <1>10 DEF TypeOK, PingEnd
  <1>11. ASSUME NEW k \in Conns, RunConnectOk(r, k) PROVE TypeOK'
    BY <1>11, RunToType DEF TypeOK, RunConnectOk, Open
  <1>12. ASSUME NEW s \in Registered, RestoreSend(r, s) PROVE TypeOK'
    <2>1. s \in Sub BY DEF Registered, TypeOK
    <2>2. s.chan \in Channels BY <2>1 DEF Sub
    <2>3. run' \in [Runs -> RunTask]
      BY <1>12, <2>1 DEF TypeOK, RestoreSend, RunTask
    <2>4. server' \in [Conns -> SUBSET Channels]
      BY <1>12, <2>2 DEF TypeOK, RestoreSend
    <2> QED BY <1>12, <2>3, <2>4 DEF TypeOK, RestoreSend
  <1>13. ASSUME NEW m \in Messages, Deliver(r, m) PROVE TypeOK'
    <2>1. Listeners(m) \subseteq Sub BY DEF TypeOK, Listeners
    <2>2. {s.id : s \in Listeners(m)} \subseteq Nat BY <2>1 DEF Sub
    <2> QED BY <1>13, <2>2 DEF TypeOK, Deliver
  <1> QED BY <1>1, <1>2, <1>3, <1>4, <1>5, <1>6, <1>7, <1>8, <1>9, <1>10, <1>11,
             <1>12, <1>13 DEF RunStep

(* The records of calls. *)
LEMMA BusyCallType ==
    ASSUME TypeOK, NEW c \in Callers, call[c].at # "idle"
    PROVE  call[c] \in BusyCall
  BY DEF TypeOK, Call, IdleCall

LEMMA CallSetType ==
    ASSUME TypeOK, NEW c \in Callers, NEW d \in Call
    PROVE  [call EXCEPT ![c] = d] \in [Callers -> Call]
  BY DEF TypeOK

LEMMA ReleaseType ==
    ASSUME TypeOK, NEW c \in Callers
    PROVE  Release(c) \in [Callers -> Call]
  <1>1. ASSUME NEW d \in Callers, c \in call[d].ahead
        PROVE  [call[d] EXCEPT !.ahead = @ \ {c}] \in Call
    <2>1. call[d] \in BusyCall BY <1>1 DEF TypeOK, Call, IdleCall
    <2>2. [call[d] EXCEPT !.ahead = @ \ {c}] \in BusyCall BY <2>1 DEF BusyCall
    <2> QED BY <2>2 DEF Call
  <1> QED BY <1>1 DEF Release, Call, TypeOK

LEMMA GiveBackType ==
    ASSUME TypeOK, NEW c \in Callers, call[c].at # "idle"
    PROVE  GiveBack(c) \subseteq Sub
  BY BusyCallType DEF GiveBack, BusyCall, Sub

LEMMA FrameType ==
    ASSUME TypeOK, NEW k \in Conns \cup {NoConn}, NEW op, NEW chan \in Channels
    PROVE  [server EXCEPT ![k] = Frame(@, op, chan)] \in [Conns -> SUBSET Channels]
  BY DEF TypeOK, Frame

LEMMA StartSendType ==
    ASSUME TypeOK, NEW c \in Callers, NEW id \in Nat, call[c].at # "idle",
           StartSend(c, id)
    PROVE  call' \in [Callers -> Call] /\ server' \in [Conns -> SUBSET Channels]
  <1>1. call[c] \in BusyCall BY BusyCallType
  <1>2. ws \in Conns \cup {NoConn} BY DEF TypeOK
  <1>3. Sending(ws) \subseteq Callers BY DEF Sending
  <1>4. call' \in [Callers -> Call]
    <2> DEFINE now == conn[ws] = "open" /\ Sending(ws) = {}
    <2>1. [call[c] EXCEPT !.at = "sending", !.id = id, !.conn = ws,
                          !.ahead = Sending(ws), !.written = now] \in BusyCall
      BY <1>1, <1>2, <1>3 DEF BusyCall
    <2> QED BY <2>1, CallSetType DEF StartSend, Call, TypeOK
  <1>5. server' \in [Conns -> SUBSET Channels]
    <2>1. call[c].chan \in Channels BY <1>1 DEF BusyCall
    <2> QED BY <1>2, <2>1, FrameType DEF StartSend, TypeOK
  <1> QED BY <1>4, <1>5

LEMMA CallStepType ==
    ASSUME TypeOK, NEW c \in Callers, CallStep(c) PROVE TypeOK'
  <1> USE DEF stopVars, linkVars, netVars, pingVars
  <1>a. IdleCall \in Call BY DEF Call
  <1>1. ASSUME NEW chan \in Channels, CallSub(c, chan) PROVE TypeOK'
    <2>1. [IdleCall EXCEPT !.at = "parked", !.op = "sub", !.chan = chan] \in BusyCall
      BY DEF IdleCall, BusyCall
    <2>2. call' \in [Callers -> Call]
      BY <1>1, <2>1, CallSetType DEF CallSub, Call
    <2> QED BY <1>1, <2>2 DEF CallSub, TypeOK
  <1>2. ASSUME NEW s \in held, CallUnsub(c, s) PROVE TypeOK'
    <2>1. s \in Sub BY DEF TypeOK
    <2>2. [IdleCall EXCEPT !.at = "parked", !.op = "unsub", !.chan = s.chan,
                           !.id = s.id] \in BusyCall
      BY <2>1 DEF IdleCall, BusyCall, Sub
    <2>3. call' \in [Callers -> Call]
      BY <1>2, <2>2, CallSetType DEF CallUnsub, Call
    <2> QED BY <1>2, <2>3 DEF CallUnsub, TypeOK
  <1>3. CASE ParkedTimeout(c)
    <2>1. call' \in [Callers -> Call] BY <1>3, <1>a, CallSetType DEF ParkedTimeout
    <2> QED BY <1>3, <2>1, GiveBackType DEF ParkedTimeout, TypeOK
  <1>4. CASE SubSend(c)
    <2>1. call' \in [Callers -> Call] /\ server' \in [Conns -> SUBSET Channels]
      <3>1. CASE GuardRaises(IdentOf[call[c].chan])
        BY <1>4, <3>1, <1>a, CallSetType DEF SubSend, TypeOK
      <3>2. CASE ~GuardRaises(IdentOf[call[c].chan])
        <4>1. NextId \in Nat BY DEF TypeOK, NextId
        <4> QED BY <1>4, <3>2, <4>1, StartSendType DEF SubSend
      <3> QED BY <3>1, <3>2
    <2> QED BY <1>4, <2>1 DEF SubSend, NextId, TypeOK
  <1>5. CASE UnsubSend(c)
    <2> DEFINE i == IdentOf[call[c].chan]
    <2>1. call[c] \in BusyCall BY <1>5, BusyCallType DEF UnsubSend
    <2>2. call[c].id \in Nat BY <2>1 DEF BusyCall
    <2>3. CASE Without(i, call[c].id) = {} /\ active[i] # {}
      <3>1. call' \in [Callers -> Call] /\ server' \in [Conns -> SUBSET Channels]
        BY <1>5, <2>2, <2>3, StartSendType DEF UnsubSend
      <3> QED BY <1>5, <2>3, <3>1 DEF UnsubSend, TypeOK
    <2>4. CASE ~(Without(i, call[c].id) = {} /\ active[i] # {})
      <3>1. call' \in [Callers -> Call]
        BY <1>5, <2>4, <1>a, CallSetType DEF UnsubSend
      <3>2. i \in Identifiers BY <2>1, RoutingAssumption DEF BusyCall
      <3>3. active' \in [Identifiers -> SUBSET Sub]
        BY <1>5, <2>4, <3>2 DEF UnsubSend, Without, TypeOK
      <3> QED BY <1>5, <2>4, <3>1, <3>3 DEF UnsubSend, TypeOK
    <2> QED BY <2>3, <2>4
  <1>6. CASE SendWrite(c)
    <2>1. call[c] \in BusyCall BY <1>6, BusyCallType DEF SendWrite
    <2>2. [call[c] EXCEPT !.written = TRUE] \in BusyCall BY <2>1 DEF BusyCall
    <2>3. call' \in [Callers -> Call]
      BY <1>6, <2>2, CallSetType DEF SendWrite, Call
    <2>4. server' \in [Conns -> SUBSET Channels]
      BY <1>6, <2>1, FrameType DEF SendWrite, BusyCall
    <2> QED BY <1>6, <2>3, <2>4 DEF SendWrite, TypeOK
  <1>7. CASE SubDone(c)
    <2> DEFINE s == [id |-> call[c].id, chan |-> call[c].chan]
    <2>1. call[c] \in BusyCall BY <1>7, BusyCallType DEF SubDone
    <2>2. s \in Sub BY <2>1 DEF BusyCall, Sub
    <2>3. call' \in [Callers -> Call] BY <1>7, ReleaseType DEF SubDone
    <2>4. active' \in [Identifiers -> SUBSET Sub] /\ held' \subseteq Sub
      BY <1>7, <2>2 DEF SubDone, TypeOK
    <2> QED BY <1>7, <2>3, <2>4 DEF SubDone, TypeOK
  <1>8. CASE UnsubDone(c)
    <2>1. call' \in [Callers -> Call] BY <1>8, ReleaseType DEF UnsubDone
    <2> QED BY <1>8, <2>1 DEF UnsubDone, TypeOK
  <1>9. CASE SendFail(c)
    <2>1. call' \in [Callers -> Call] BY <1>9, ReleaseType DEF SendFail
    <2> QED BY <1>9, <2>1, GiveBackType DEF SendFail, TypeOK
  <1> QED BY <1>1, <1>2, <1>3, <1>4, <1>5, <1>6, <1>7, <1>8, <1>9 DEF CallStep

LEMMA TypeInit == Init => TypeOK
  <1> SUFFICES ASSUME Init PROVE TypeOK
    OBVIOUS
  <1>1. run \in [Runs -> RunTask] BY DEF Init, NoneRun, RunTask
  <1>2. call \in [Callers -> Call] BY DEF Init, Call
  <1> QED BY <1>1, <1>2 DEF Init, TypeOK

LEMMA TypeStep == TypeOK /\ [Next]_vars => TypeOK'
  <1> SUFFICES ASSUME TypeOK, [Next]_vars PROVE TypeOK'
    OBVIOUS
  <1>1. CASE NetStep BY <1>1, NetStepType
  <1>2. CASE AppStep BY <1>2, AppStepType
  <1>3. ASSUME NEW r \in Runs, RunStep(r) PROVE TypeOK' BY <1>3, RunStepType
  <1>4. ASSUME NEW c \in Callers, CallStep(c) PROVE TypeOK' BY <1>4, CallStepType
  <1>5. ASSUME NEW id \in cbTasks, CallbackDone(id) PROVE TypeOK'
    BY <1>5 DEF CallbackDone, TypeOK, stopVars, linkVars, netVars, regVars, pingVars
  <1>6. CASE UNCHANGED vars BY <1>6 DEF vars, TypeOK
  <1> QED BY <1>1, <1>2, <1>3, <1>4, <1>5, <1>6 DEF Next

(* Every variable keeps its type in every reachable state. *)
THEOREM TypeCorrect == Spec => []TypeOK
  BY TypeInit, TypeStep, PTL DEF Spec

-----------------------------------------------------------------------------
(* At most one userEvent subscription per identifier.  The invariant is     *)
(* inductive as it stands because the guard is evaluated again in the step  *)
(* that registers.                                                          *)

LEMMA OneUserEventStep ==
    TypeOK /\ OneUserEvent /\ [Next]_vars => OneUserEvent'
  <1> SUFFICES ASSUME TypeOK, OneUserEvent, [Next]_vars PROVE OneUserEvent'
    OBVIOUS
  <1>1. CASE UNCHANGED active BY <1>1 DEF OneUserEvent
  <1>2. ASSUME NEW c \in Callers, SubDone(c) PROVE OneUserEvent'
    <2> DEFINE i == IdentOf[call[c].chan]
    <2>1. CASE GuardRaises(i) BY <1>1, <1>2, <2>1 DEF SubDone
    <2>2. CASE ~GuardRaises(i)
      <3>1. i \notin UserEvents \/ active[i] = {} BY <2>2 DEF GuardRaises
      <3>2. active' = [active EXCEPT ![i] =
                          @ \cup {[id |-> call[c].id, chan |-> call[c].chan]}]
        BY <1>2, <2>2 DEF SubDone
      <3> QED BY <3>1, <3>2, RoutingAssumption DEF OneUserEvent, TypeOK
    <2> QED BY <2>1, <2>2
  <1>3. ASSUME NEW c \in Callers, UnsubDone(c) PROVE OneUserEvent'
    BY <1>3, RoutingAssumption DEF UnsubDone, OneUserEvent, TypeOK
  <1>4. ASSUME NEW c \in Callers, UnsubSend(c) PROVE OneUserEvent'
    BY <1>4, RoutingAssumption DEF UnsubSend, Without, OneUserEvent, TypeOK
  <1>5. ASSUME NEW c \in Callers, CallStep(c) PROVE OneUserEvent'
    BY <1>1, <1>2, <1>3, <1>4, <1>5
       DEF CallStep, CallSub, CallUnsub, ParkedTimeout, SubSend, SendWrite, SendFail
  <1>6. ASSUME NEW r \in Runs, RunStep(r) PROVE UNCHANGED active
    BY <1>6 DEF RunStep, RunStart, RunDisconnected, RunBreak, RunConnectFail,
       RestoreFail, RestoreDone, RunShut, BackoffStopped, BackoffTimeout, PingEnd,
       RunConnectOk, RestoreSend, Deliver, regVars
  <1>7. NetStep => UNCHANGED active
    BY DEF NetStep, NetDrop, CloseDone, regVars
  <1>8. AppStep => UNCHANGED active
    BY DEF AppStep, ConnectBegin, ConnectFail, ConnectOk, StopBegin, StopClose,
       StopEnd, regVars
  <1>9. ASSUME NEW id \in cbTasks, CallbackDone(id) PROVE UNCHANGED active
    BY <1>9 DEF CallbackDone, regVars
  <1>10. UNCHANGED vars => UNCHANGED active BY DEF vars
  <1> QED BY <1>1, <1>5, <1>6, <1>7, <1>8, <1>9, <1>10 DEF Next

(* No interleaving of subscribe() calls, restores or restarts registers two *)
(* userEvent subscriptions for one address (async_ws.py:491-497, 559-561).  *)
THEOREM AtMostOneUserEvent == Spec => []OneUserEvent
  <1>1. Init => OneUserEvent
    BY RoutingAssumption DEF Init, OneUserEvent
  <1> QED BY <1>1, OneUserEventStep, TypeCorrect, PTL DEF Spec

-----------------------------------------------------------------------------
(* stop().  An event that has been set is never newer than the current one, *)
(* so the event of a new connect() has not been set; and while connect() is *)
(* awaited, no stop() may set it, under the assumption StopWhileConnecting  *)
(* rules out.                                                               *)

EventsPast    == eventSet \subseteq 0 .. event
HandshakeLive == connecting => ~Stopped

StopInv ==
    /\ EventsPast
    /\ HandshakeLive
    /\ NotReadyAfterStop
    /\ NoCallbackAfterStop

stateOfStop == <<event, eventSet, connecting, stopper, wsReady, cbTasks>>

LEMMA StopInvFrame ==
    ASSUME StopInv, UNCHANGED stateOfStop PROVE StopInv'
  BY DEF stateOfStop, StopInv, EventsPast, HandshakeLive, NotReadyAfterStop,
     NoCallbackAfterStop, Stopped

LEMMA StopInvApp ==
    ASSUME TypeOK, StopInv, AppStep, ~StopWhileConnecting PROVE StopInv'
  <1> USE DEF StopInv, EventsPast, HandshakeLive, NotReadyAfterStop,
              NoCallbackAfterStop, Stopped
  <1>1. CASE ConnectBegin
    <2>1. event' \notin eventSet' /\ eventSet' \subseteq 0 .. event'
      BY <1>1 DEF ConnectBegin, TypeOK
    <2> QED BY <1>1, <2>1 DEF ConnectBegin
  <1>2. CASE ConnectFail BY <1>2 DEF ConnectFail, linkVars
  <1>3. ASSUME NEW r \in Runs, NEW k \in Conns, ConnectOk(r, k) PROVE StopInv'
    BY <1>3 DEF ConnectOk
  <1>4. CASE StopBegin
    <2>1. ~connecting BY <1>4, ~StopWhileConnecting DEF StopBegin
    <2>2. eventSet' \subseteq 0 .. event' BY <1>4 DEF StopBegin, TypeOK
    <2> QED BY <1>4, <2>1, <2>2 DEF StopBegin
  <1>5. CASE StopClose BY <1>5 DEF StopClose, StopReturns
  <1>6. CASE StopEnd BY <1>6 DEF StopEnd, StopReturns
  <1> QED BY <1>1, <1>2, <1>3, <1>4, <1>5, <1>6 DEF AppStep

LEMMA StopInvRun ==
    ASSUME StopInv, NEW r \in Runs, RunStep(r) PROVE StopInv'
  <1> USE DEF StopInv, EventsPast, HandshakeLive, NotReadyAfterStop,
              NoCallbackAfterStop, Stopped, stopVars
  <1>1. CASE RunDisconnected(r) BY <1>1 DEF RunDisconnected
  <1>2. CASE RestoreDone(r) BY <1>2 DEF RestoreDone
  <1>3. ASSUME NEW m \in Messages, Deliver(r, m) PROVE StopInv'
    BY <1>3 DEF Deliver, linkVars
  <1>4. CASE UNCHANGED stateOfStop BY <1>4, StopInvFrame
  <1> QED
    BY <1>1, <1>2, <1>3, <1>4 DEF RunStep, RunStart, RunBreak, RunConnectFail,
       RestoreFail, RunShut, BackoffStopped, BackoffTimeout, PingEnd,
       RunConnectOk, RestoreSend, linkVars, stateOfStop

LEMMA StopInvStep ==
    TypeOK /\ StopInv /\ ~StopWhileConnecting /\ [Next]_vars => StopInv'
  <1> SUFFICES ASSUME TypeOK, StopInv, ~StopWhileConnecting, [Next]_vars
               PROVE  StopInv'
    OBVIOUS
  <1>1. CASE AppStep BY <1>1, StopInvApp
  <1>2. ASSUME NEW r \in Runs, RunStep(r) PROVE StopInv' BY <1>2, StopInvRun
  <1>3. ASSUME NEW c \in Callers, CallStep(c) PROVE UNCHANGED stateOfStop
    BY <1>3 DEF CallStep, CallSub, CallUnsub, ParkedTimeout, SubSend, UnsubSend,
       SendWrite, SubDone, UnsubDone, SendFail, stopVars, linkVars, stateOfStop
  <1>4. NetStep => UNCHANGED stateOfStop
    BY DEF NetStep, NetDrop, CloseDone, stopVars, linkVars, stateOfStop
  <1>5. ASSUME NEW id \in cbTasks, CallbackDone(id) PROVE StopInv'
    BY <1>5 DEF CallbackDone, stopVars, linkVars, StopInv, EventsPast,
       HandshakeLive, NotReadyAfterStop, NoCallbackAfterStop, Stopped
  <1>6. UNCHANGED vars => UNCHANGED stateOfStop BY DEF vars, stateOfStop
  <1> QED BY <1>1, <1>2, <1>3, <1>4, <1>5, <1>6, StopInvFrame DEF Next

LEMMA StopInvInit == Init => StopInv
  BY DEF Init, StopInv, EventsPast, HandshakeLive, NotReadyAfterStop,
     NoCallbackAfterStop, Stopped

LEMMA StopInvariant ==
    ASSUME ~StopWhileConnecting PROVE Spec => []StopInv
  <1>1. TypeOK /\ StopInv /\ [Next]_vars => StopInv' BY StopInvStep
  <1> QED BY <1>1, StopInvInit, TypeCorrect, PTL DEF Spec

(* If stop() is never called while connect() is awaited, a manager whose    *)
(* stop() has returned is not ready, whatever its run() task was doing      *)
(* (async_ws.py:290-299, 386-391).                                          *)
THEOREM StoppedIsNotReady ==
    ASSUME ~StopWhileConnecting PROVE Spec => []NotReadyAfterStop
  <1>1. StopInv => NotReadyAfterStop BY DEF StopInv
  <1> QED BY <1>1, StopInvariant, PTL

(* Under the same assumption no async callback survives stop()              *)
(* (async_ws.py:243-244, 379-384).                                          *)
THEOREM StoppedHasNoCallbacks ==
    ASSUME ~StopWhileConnecting PROVE Spec => []NoCallbackAfterStop
  <1>1. StopInv => NoCallbackAfterStop BY DEF StopInv
  <1> QED BY <1>1, StopInvariant, PTL

-----------------------------------------------------------------------------
(* The registry: as long as the application has one call at a time in       *)
(* flight on an identifier, it is the one SubscriptionRegistry promises,    *)
(* and what the application holds is registered.                            *)

Own(c)   == [id |-> call[c].id, chan |-> call[c].chan]
Ident(c) == IdentOf[call[c].chan]
InCall(c) == call[c].at # "idle"
SendsSub(c) == call[c].at = "sending" /\ call[c].op = "sub"

-----------------------------------------------------------------------------
(* The inductive invariant.  A call of unsubscribe() owns the subscription  *)
(* it names from the moment the application gives it up; while its frame is *)
(* being sent that subscription is the only one of its identifier, which is *)
(* why the empty list written afterwards loses nothing.                     *)

Placed ==
    \A i \in Identifiers : \A s \in active[i] : IdentOf[s.chan] = i
UniqueIds ==
    \A i, j \in Identifiers : \A s \in active[i], t \in active[j] :
        s.id = t.id => s = t
IdsIssued ==
    /\ \A i \in Identifiers : \A s \in active[i] : s.id <= counter
    /\ \A c \in Callers : SendsSub(c) => call[c].id <= counter
HeldPlaced == \A s \in held : s \in active[IdentOf[s.chan]]
Exclusive ==
    \A c, d \in Callers : (InCall(c) /\ InCall(d) /\ c # d) => Ident(c) # Ident(d)
FreshSubs ==
    \A c \in Callers : SendsSub(c) =>
        /\ \A i \in Identifiers : \A s \in active[i] : s.id # call[c].id
        /\ \A d \in Callers : (SendsSub(d) /\ d # c) => call[d].id # call[c].id
OwnedUnsubs ==
    \A c \in Callers : (InCall(c) /\ call[c].op = "unsub") =>
        /\ Own(c) \in active[Ident(c)]
        /\ Own(c) \notin held
        /\ call[c].at = "sending" => active[Ident(c)] = {Own(c)}

RegInv == /\ Placed /\ UniqueIds /\ IdsIssued /\ HeldPlaced
          /\ Exclusive /\ FreshSubs /\ OwnedUnsubs

LEMMA RegInvInit == Init => RegInv
  BY DEF Init, RegInv, Placed, UniqueIds, IdsIssued, HeldPlaced, Exclusive,
     FreshSubs, OwnedUnsubs, InCall, SendsSub, IdleCall

LEMMA RegInvFrame ==
    ASSUME RegInv, UNCHANGED regVars PROVE RegInv'
  BY DEF regVars, RegInv, Placed, UniqueIds, IdsIssued, HeldPlaced, Exclusive,
     FreshSubs, OwnedUnsubs, InCall, SendsSub, Own, Ident

-----------------------------------------------------------------------------
(* What a step leaves of the calls it does not concern.                     *)

Keeps(d) == /\ call'[d].at = call[d].at /\ call'[d].op = call[d].op
            /\ call'[d].chan = call[d].chan /\ call'[d].id = call[d].id

LEMMA ReleaseKeeps ==
    ASSUME TypeOK, NEW c \in Callers, call' = Release(c)
    PROVE  call'[c] = IdleCall /\ \A d \in Callers \ {c} : Keeps(d)
  <1>1. call'[c] = IdleCall BY DEF Release
  <1>2. ASSUME NEW d \in Callers \ {c} PROVE Keeps(d)
    <2>1. CASE c \in call[d].ahead
      <3>1. call[d] \in BusyCall BY <2>1 DEF TypeOK, Call, IdleCall
      <3> QED BY <2>1, <3>1 DEF Release, Keeps, BusyCall
    <2>2. CASE c \notin call[d].ahead BY <2>2 DEF Release, Keeps
    <2> QED BY <2>1, <2>2
  <1> QED BY <1>1, <1>2

LEMMA CallIdent ==
    ASSUME TypeOK, NEW c \in Callers, InCall(c)
    PROVE  call[c] \in BusyCall /\ Ident(c) \in Identifiers /\ Own(c) \in Sub
  BY BusyCallType, RoutingAssumption DEF InCall, Ident, Own, BusyCall, Sub

(* A call that ends without a change of the registry, an unsubscribe() that *)
(* raises having given its subscription back.                               *)
LEMMA CallEnds ==
    ASSUME TypeOK, RegInv, NEW c \in Callers, InCall(c),
           call'[c] = IdleCall, \A d \in Callers \ {c} : Keeps(d),
           held' = held \/ held' = held \cup GiveBack(c),
           UNCHANGED active, counter' \in Nat, counter' >= counter
    PROVE  RegInv'
  <1> USE DEF InCall, SendsSub, Own, Ident, Keeps
  <1>a. ~InCall(c)' BY DEF IdleCall
  <1>1. Placed' /\ UniqueIds' BY DEF RegInv, Placed, UniqueIds
  <1>2. IdsIssued'
    <2>1. \A i \in Identifiers : \A s \in active[i] : s.id \in Nat
      BY DEF TypeOK, Sub
    <2>2. \A d \in Callers : SendsSub(d) => call[d].id \in Nat
      BY CallIdent DEF BusyCall
    <2>3. counter \in Nat BY DEF TypeOK
    <2> QED BY <1>a, <2>1, <2>2, <2>3 DEF RegInv, IdsIssued
  <1>3. HeldPlaced' BY DEF RegInv, HeldPlaced, GiveBack, OwnedUnsubs
  <1>4. Exclusive' BY <1>a DEF RegInv, Exclusive
  <1>5. FreshSubs' BY <1>a DEF RegInv, FreshSubs
  <1>6. OwnedUnsubs'
    BY <1>a DEF RegInv, OwnedUnsubs, Exclusive, GiveBack
  <1> QED BY <1>1, <1>2, <1>3, <1>4, <1>5, <1>6 DEF RegInv

(* A call of unsubscribe() that ends having removed its own subscription    *)
(* and no other one.                                                        *)
LEMMA RemoveOwn ==
    ASSUME TypeOK, RegInv, NEW c \in Callers, InCall(c), call[c].op = "unsub",
           NEW rest, active[Ident(c)] \ rest = {Own(c)}, rest \subseteq active[Ident(c)],
           active' = [active EXCEPT ![Ident(c)] = rest],
           call'[c] = IdleCall, \A d \in Callers \ {c} : Keeps(d),
           UNCHANGED <<held, counter>>
    PROVE  RegInv'
  <1> USE DEF InCall, SendsSub, Own, Ident, Keeps
  <1>1. Ident(c) \in Identifiers /\ active \in [Identifiers -> SUBSET Sub]
    BY CallIdent DEF TypeOK
  <1>2. \A i \in Identifiers : active'[i] \subseteq active[i] BY <1>1
  <1>3. \A i \in Identifiers : \A s \in active[i] : s \in active'[i] \/ s = Own(c)
    BY <1>1
  <1>4. ~InCall(c)' BY DEF IdleCall
  <1>5. Placed' /\ UniqueIds' BY <1>2 DEF RegInv, Placed, UniqueIds
  <1>6. IdsIssued' BY <1>2, <1>4 DEF RegInv, IdsIssued
  <1>7. HeldPlaced'
    <2> SUFFICES ASSUME NEW s \in held PROVE s \in active'[IdentOf[s.chan]]
      BY DEF HeldPlaced
    <2>1. s.chan \in Channels BY DEF TypeOK, Sub
    <2>2. s # Own(c) BY DEF RegInv, OwnedUnsubs
    <2> QED BY <1>3, <2>1, <2>2, RoutingAssumption DEF RegInv, HeldPlaced
  <1>8. Exclusive' BY <1>4 DEF RegInv, Exclusive
  <1>9. FreshSubs' BY <1>2, <1>4 DEF RegInv, FreshSubs
  <1>10. OwnedUnsubs'
    <2> SUFFICES ASSUME NEW d \in Callers, InCall(d)', call'[d].op = "unsub"
                 PROVE  /\ Own(d)' \in active'[Ident(d)']
                        /\ Own(d)' \notin held
                        /\ call'[d].at = "sending" => active'[Ident(d)'] = {Own(d)'}
      BY DEF OwnedUnsubs
    <2>1. d # c /\ Keeps(d) BY <1>4
    <2>2. InCall(d) /\ call[d].op = "unsub" /\ Own(d)' = Own(d)
          /\ Ident(d)' = Ident(d)
      BY <2>1
    <2>3. Ident(d) # Ident(c) BY <2>1, <2>2 DEF RegInv, Exclusive
    <2>4. Ident(d) \in Identifiers BY <2>2, CallIdent
    <2>5. active'[Ident(d)] = active[Ident(d)] BY <1>1, <2>3, <2>4
    <2> QED BY <2>1, <2>2, <2>5 DEF RegInv, OwnedUnsubs
  <1> QED BY <1>5, <1>6, <1>7, <1>8, <1>9, <1>10 DEF RegInv

-----------------------------------------------------------------------------
(* Each action of a caller preserves the invariant.                         *)

LEMMA CallBegins ==
    ASSUME TypeOK, RegInv, ~Overlap, NEW c \in Callers,
           (\E chan \in Channels : CallSub(c, chan)) \/ (\E s \in held : CallUnsub(c, s))
    PROVE  RegInv'
  <1> USE DEF InCall, SendsSub, Own, Ident, IdleCall
  <1>1. ASSUME NEW chan \in Channels, CallSub(c, chan) PROVE RegInv'
    <2>1. /\ call'[c].at = "parked" /\ call'[c].op = "sub"
          /\ call'[c].chan = chan
          /\ \A d \in Callers \ {c} : call'[d] = call[d]
          /\ UNCHANGED <<active, held, counter>>
      BY <1>1 DEF CallSub, TypeOK
    <2>2. ~Busy(IdentOf[chan]) BY <1>1 DEF CallSub
    <2>3. Exclusive' BY <2>1, <2>2 DEF RegInv, Exclusive, Busy
    <2>4. Placed' /\ UniqueIds' /\ HeldPlaced'
      BY <2>1 DEF RegInv, Placed, UniqueIds, HeldPlaced
    <2>5. IdsIssued' /\ FreshSubs' /\ OwnedUnsubs'
      BY <2>1 DEF RegInv, IdsIssued, FreshSubs, OwnedUnsubs
    <2> QED BY <2>3, <2>4, <2>5 DEF RegInv
  <1>2. ASSUME NEW s \in held, CallUnsub(c, s) PROVE RegInv'
    <2>1. /\ call'[c].at = "parked" /\ call'[c].op = "unsub"
          /\ call'[c].chan = s.chan /\ call'[c].id = s.id
          /\ \A d \in Callers \ {c} : call'[d] = call[d]
          /\ held' = held \ {s}
          /\ UNCHANGED <<active, counter>>
      BY <1>2 DEF CallUnsub, TypeOK
    <2>2. ~Busy(IdentOf[s.chan]) BY <1>2 DEF CallUnsub
    <2>3. s \in active[IdentOf[s.chan]] BY DEF RegInv, HeldPlaced
    <2>4. s = [id |-> s.id, chan |-> s.chan] BY DEF TypeOK, Sub
    <2>5. Exclusive' BY <2>1, <2>2 DEF RegInv, Exclusive, Busy
    <2>6. Placed' /\ UniqueIds' /\ HeldPlaced'
      BY <2>1 DEF RegInv, Placed, UniqueIds, HeldPlaced
    <2>7. IdsIssued' /\ FreshSubs' BY <2>1 DEF RegInv, IdsIssued, FreshSubs
    <2>8. OwnedUnsubs' BY <2>1, <2>3, <2>4 DEF RegInv, OwnedUnsubs
    <2> QED BY <2>5, <2>6, <2>7, <2>8 DEF RegInv
  <1> QED BY <1>1, <1>2

LEMMA StartSendCalls ==
    ASSUME TypeOK, NEW c \in Callers, NEW id \in Nat, InCall(c), StartSend(c, id)
    PROVE  /\ call'[c].at = "sending" /\ call'[c].op = call[c].op
           /\ call'[c].chan = call[c].chan /\ call'[c].id = id
           /\ \A d \in Callers \ {c} : call'[d] = call[d]
  <1> DEFINE now == conn[ws] = "open" /\ Sending(ws) = {}
             sent == [call[c] EXCEPT !.at = "sending", !.id = id, !.conn = ws,
                                     !.ahead = Sending(ws), !.written = now]
  <1>1. call[c] \in BusyCall BY CallIdent
  <1>2. call' = [call EXCEPT ![c] = sent] BY DEF StartSend
  <1>3. call'[c] = sent /\ \A d \in Callers \ {c} : call'[d] = call[d]
    <2> HIDE DEF sent
    <2> QED BY <1>2 DEF TypeOK
  <1>4. sent.at = "sending" /\ sent.op = call[c].op /\ sent.chan = call[c].chan
        /\ sent.id = id
    BY <1>1 DEF BusyCall
  <1> QED BY <1>3, <1>4

LEMMA SubSendInv ==
    ASSUME TypeOK, RegInv, NEW c \in Callers, SubSend(c) PROVE RegInv'
  <1> USE DEF InCall, SendsSub, Own, Ident
  <1>1. InCall(c) /\ counter \in Nat /\ counter' = counter + 1
    BY DEF SubSend, NextId, TypeOK
  <1>2. UNCHANGED <<active, held>> BY DEF SubSend
  <1>3. CASE GuardRaises(IdentOf[call[c].chan])
    <2>1. call'[c] = IdleCall /\ \A d \in Callers \ {c} : Keeps(d)
      BY <1>3 DEF SubSend, TypeOK, Keeps
    <2> QED BY <1>1, <1>2, <2>1, CallEnds
  <1>4. CASE ~GuardRaises(IdentOf[call[c].chan])
    <2>1. /\ call'[c].at = "sending" /\ call'[c].op = "sub"
          /\ call'[c].chan = call[c].chan /\ call'[c].id = counter + 1
          /\ \A d \in Callers \ {c} : call'[d] = call[d]
      BY <1>1, <1>4, StartSendCalls DEF SubSend, NextId
    <2>2. \A i \in Identifiers : \A s \in active[i] : s.id \in Nat
      BY DEF TypeOK, Sub
    <2>3. \A d \in Callers : SendsSub(d) => call[d].id \in Nat
      BY CallIdent DEF BusyCall
    <2>4. Exclusive' BY <1>1, <2>1 DEF RegInv, Exclusive
    <2>5. Placed' /\ UniqueIds' /\ HeldPlaced'
      BY <1>2 DEF RegInv, Placed, UniqueIds, HeldPlaced
    <2>6. IdsIssued' BY <1>1, <1>2, <2>1, <2>2, <2>3 DEF RegInv, IdsIssued
    <2>7. FreshSubs'
      BY <1>1, <1>2, <2>1, <2>2, <2>3 DEF RegInv, IdsIssued, FreshSubs
    <2>8. OwnedUnsubs' BY <1>2, <2>1 DEF RegInv, OwnedUnsubs
    <2> QED BY <2>4, <2>5, <2>6, <2>7, <2>8 DEF RegInv
  <1> QED BY <1>3, <1>4

(* The step that registers. *)
LEMMA SubDoneInv ==
    ASSUME TypeOK, RegInv, NEW c \in Callers, SubDone(c) PROVE RegInv'
  <1> USE DEF InCall, SendsSub, Own, Ident, Keeps
  <1>1. InCall(c) /\ SendsSub(c) /\ UNCHANGED counter /\ call' = Release(c)
    BY DEF SubDone
  <1>2. call'[c] = IdleCall /\ \A d \in Callers \ {c} : Keeps(d)
    BY <1>1, ReleaseKeeps
  <1>3. counter' \in Nat /\ counter' >= counter BY <1>1 DEF TypeOK
  <1>4. CASE GuardRaises(Ident(c))
    <2>1. UNCHANGED <<active, held>> BY <1>4 DEF SubDone
    <2> QED BY <1>1, <1>2, <1>3, <2>1, CallEnds
  <1>5. CASE ~GuardRaises(Ident(c))
    <2>1. /\ active' = [active EXCEPT ![Ident(c)] = @ \cup {Own(c)}]
          /\ held' = held \cup {Own(c)}
      BY <1>5 DEF SubDone
    <2>2. Ident(c) \in Identifiers /\ active \in [Identifiers -> SUBSET Sub]
      BY <1>1, CallIdent DEF TypeOK
    <2>3. \A i \in Identifiers : \A s \in active'[i] :
              s \in active[i] \/ (i = Ident(c) /\ s = Own(c))
      BY <2>1, <2>2
    <2>4. \A i \in Identifiers : active[i] \subseteq active'[i]
      BY <2>1, <2>2
    <2>5. Own(c) \in active'[Ident(c)] BY <2>1, <2>2
    <2>6. ~InCall(c)' BY <1>2 DEF IdleCall
    <2>7. Placed' BY <2>3 DEF RegInv, Placed
    <2>8. UniqueIds' BY <1>1, <2>3 DEF RegInv, UniqueIds, FreshSubs
    <2>9. IdsIssued' BY <1>1, <1>2, <2>3, <2>6 DEF RegInv, IdsIssued
    <2>10. HeldPlaced'
      <3> SUFFICES ASSUME NEW s \in held' PROVE s \in active'[IdentOf[s.chan]]
        BY DEF HeldPlaced
      <3>1. CASE s = Own(c) BY <2>5, <3>1
      <3>2. CASE s \in held
        <4>1. s.chan \in Channels BY <3>2 DEF TypeOK, Sub
        <4> QED BY <2>4, <3>2, <4>1, RoutingAssumption DEF RegInv, HeldPlaced
      <3> QED BY <2>1, <3>1, <3>2
    <2>11. Exclusive' BY <1>2, <2>6 DEF RegInv, Exclusive
    <2>12. FreshSubs' BY <1>1, <1>2, <2>3, <2>6 DEF RegInv, FreshSubs
    <2>13. OwnedUnsubs'
      <3> SUFFICES ASSUME NEW d \in Callers, InCall(d)', call'[d].op = "unsub"
                   PROVE  /\ Own(d)' \in active'[Ident(d)']
                          /\ Own(d)' \notin held'
                          /\ call'[d].at = "sending" => active'[Ident(d)'] = {Own(d)'}
        BY DEF OwnedUnsubs
      <3>1. d # c /\ Keeps(d) BY <1>2, <2>6
      <3>2. InCall(d) /\ call[d].op = "unsub" /\ Own(d)' = Own(d)
            /\ Ident(d)' = Ident(d)
        BY <3>1
      <3>3. Ident(d) # Ident(c) BY <1>1, <3>1, <3>2 DEF RegInv, Exclusive
      <3>4. active'[Ident(d)] = active[Ident(d)] BY <2>1, <2>2, <3>3
      <3>5. Own(d) # Own(c) BY <3>3
      <3> QED BY <2>1, <3>1, <3>2, <3>4, <3>5 DEF RegInv, OwnedUnsubs
    <2> QED BY <2>7, <2>8, <2>9, <2>10, <2>11, <2>12, <2>13 DEF RegInv
  <1> QED BY <1>4, <1>5

(* The step that computes the new list, and removes at once unless the      *)
(* subscription is the last of its identifier.                              *)
LEMMA UnsubSendInv ==
    ASSUME TypeOK, RegInv, NEW c \in Callers, UnsubSend(c) PROVE RegInv'
  <1> USE DEF InCall, SendsSub, Own, Ident
  <1>1. InCall(c) /\ call[c].op = "unsub" /\ UNCHANGED <<counter, held>>
    BY DEF UnsubSend
  <1>2. Own(c) \in active[Ident(c)] /\ Own(c) \notin held
    BY <1>1 DEF RegInv, OwnedUnsubs
  <1>3. Ident(c) \in Identifiers /\ call[c] \in BusyCall BY <1>1, CallIdent
  <1>4. active[Ident(c)] \ Without(Ident(c), call[c].id) = {Own(c)}
    BY <1>2, <1>3 DEF Without, RegInv, UniqueIds
  <1>5. CASE Without(Ident(c), call[c].id) = {} /\ active[Ident(c)] # {}
    <2>1. StartSend(c, call[c].id) /\ UNCHANGED active BY <1>5 DEF UnsubSend
    <2>2. call[c].id \in Nat BY <1>3 DEF BusyCall
    <2>3. /\ call'[c].at = "sending" /\ call'[c].op = "unsub"
          /\ call'[c].chan = call[c].chan /\ call'[c].id = call[c].id
          /\ \A d \in Callers \ {c} : call'[d] = call[d]
      BY <1>1, <2>1, <2>2, StartSendCalls
    <2>4. active[Ident(c)] = {Own(c)} BY <1>4, <1>5
    <2>5. Placed' /\ UniqueIds' /\ HeldPlaced'
      BY <1>1, <2>1 DEF RegInv, Placed, UniqueIds, HeldPlaced
    <2>6. IdsIssued' /\ FreshSubs'
      BY <1>1, <2>1, <2>3 DEF RegInv, IdsIssued, FreshSubs
    <2>7. Exclusive' BY <1>1, <2>3 DEF RegInv, Exclusive
    <2>8. OwnedUnsubs' BY <1>1, <1>2, <2>1, <2>3, <2>4 DEF RegInv, OwnedUnsubs
    <2> QED BY <2>5, <2>6, <2>7, <2>8 DEF RegInv
  <1>6. CASE ~(Without(Ident(c), call[c].id) = {} /\ active[Ident(c)] # {})
    <2>1. /\ active' = [active EXCEPT ![Ident(c)] = Without(Ident(c), call[c].id)]
          /\ call' = [call EXCEPT ![c] = IdleCall]
      BY <1>6 DEF UnsubSend
    <2>2. call'[c] = IdleCall /\ \A d \in Callers \ {c} : Keeps(d)
      BY <2>1 DEF TypeOK, Keeps
    <2>3. Without(Ident(c), call[c].id) \subseteq active[Ident(c)] BY DEF Without
    <2> HIDE DEF InCall, Own, Ident
    <2> QED BY <1>1, <1>4, <2>1, <2>2, <2>3, RemoveOwn
  <1> QED BY <1>5, <1>6

LEMMA UnsubDoneInv ==
    ASSUME TypeOK, RegInv, NEW c \in Callers, UnsubDone(c) PROVE RegInv'
  <1>1. InCall(c) /\ call[c].op = "unsub" /\ UNCHANGED <<counter, held>>
        /\ call' = Release(c)
    BY DEF UnsubDone, InCall
  <1>2. call'[c] = IdleCall /\ \A d \in Callers \ {c} : Keeps(d)
    BY <1>1, ReleaseKeeps
  <1>3. active[Ident(c)] = {Own(c)} BY <1>1 DEF UnsubDone, RegInv, OwnedUnsubs, Ident
  <1> DEFINE rest == {}
  <1>4. active' = [active EXCEPT ![Ident(c)] = rest] BY DEF UnsubDone, Ident
  <1>5. active[Ident(c)] \ rest = {Own(c)} /\ rest \subseteq active[Ident(c)]
    BY <1>3
  <1> HIDE DEF rest
  <1> QED BY <1>1, <1>2, <1>4, <1>5, RemoveOwn

LEMMA SendWriteInv ==
    ASSUME TypeOK, RegInv, NEW c \in Callers, SendWrite(c) PROVE RegInv'
  <1>1. UNCHANGED <<active, held, counter>> BY DEF SendWrite
  <1>2. \A d \in Callers : Keeps(d)
    <2>1. call[c] \in BusyCall BY CallIdent DEF SendWrite, InCall
    <2> QED BY <2>1 DEF SendWrite, Keeps, TypeOK, BusyCall
  <1> QED
    BY <1>1, <1>2 DEF RegInv, Placed, UniqueIds, IdsIssued, HeldPlaced, Exclusive,
       FreshSubs, OwnedUnsubs, InCall, SendsSub, Own, Ident, Keeps

LEMMA CallStepInv ==
    ASSUME TypeOK, RegInv, ~Overlap, NEW c \in Callers, CallStep(c)
    PROVE  RegInv'
  <1>1. CASE ParkedTimeout(c) \/ SendFail(c)
    <2>1. InCall(c) /\ UNCHANGED <<active, counter>> /\ held' = held \cup GiveBack(c)
      BY <1>1 DEF ParkedTimeout, SendFail, InCall
    <2>2. call'[c] = IdleCall /\ \A d \in Callers \ {c} : Keeps(d)
      <3>1. CASE ParkedTimeout(c) BY <3>1 DEF ParkedTimeout, TypeOK, Keeps
      <3>2. CASE SendFail(c) BY <3>2, ReleaseKeeps DEF SendFail
      <3> QED BY <1>1, <3>1, <3>2
    <2>3. counter' \in Nat /\ counter' >= counter BY <2>1 DEF TypeOK
    <2> QED BY <2>1, <2>2, <2>3, CallEnds
  <1> QED BY <1>1, CallBegins, SubSendInv, UnsubSendInv, SendWriteInv, SubDoneInv,
             UnsubDoneInv DEF CallStep

(* Only callers touch the registry and the calls. *)
LEMMA OthersKeepRegistry ==
    ASSUME [Next]_vars, \A c \in Callers : ~CallStep(c)
    PROVE  UNCHANGED regVars
  <1>1. ASSUME NEW r \in Runs, RunStep(r) PROVE UNCHANGED regVars
    BY <1>1 DEF RunStep, RunStart, RunDisconnected, RunBreak, RunConnectFail,
       RestoreFail, RestoreDone, RunShut, BackoffStopped, BackoffTimeout, PingEnd,
       RunConnectOk, RestoreSend, Deliver, regVars
  <1>2. NetStep => UNCHANGED regVars
    BY DEF NetStep, NetDrop, CloseDone, regVars
  <1>3. AppStep => UNCHANGED regVars
    BY DEF AppStep, ConnectBegin, ConnectFail, ConnectOk, StopBegin, StopClose,
       StopEnd, regVars
  <1>4. ASSUME NEW id \in cbTasks, CallbackDone(id) PROVE UNCHANGED regVars
    BY <1>4 DEF CallbackDone, regVars
  <1>5. UNCHANGED vars => UNCHANGED regVars BY DEF vars, regVars
  <1> QED BY <1>1, <1>2, <1>3, <1>4, <1>5 DEF Next

(* Every subscription is filed under its own key, also when calls overlap.  *)
LEMMA PlacedStep == TypeOK /\ Placed /\ [Next]_vars => Placed'
  <1> SUFFICES ASSUME TypeOK, Placed, [Next]_vars PROVE Placed'
    OBVIOUS
  <1>1. CASE UNCHANGED active BY <1>1 DEF Placed
  <1>2. ASSUME NEW c \in Callers, CallStep(c) PROVE Placed'
    <2>1. ASSUME SubDone(c) PROVE Placed'
      <3>1. Ident(c) \in Identifiers BY <2>1, CallIdent DEF SubDone, InCall
      <3>2. IdentOf[Own(c).chan] = Ident(c) BY DEF Own, Ident
      <3>3. \/ UNCHANGED active
            \/ active' = [active EXCEPT ![Ident(c)] = @ \cup {Own(c)}]
        BY <2>1 DEF SubDone, Ident, Own
      <3> QED BY <1>1, <3>1, <3>2, <3>3 DEF Placed, TypeOK
    <2>2. CASE UnsubDone(c) BY <2>2 DEF UnsubDone, Placed, TypeOK
    <2>3. CASE UnsubSend(c) BY <2>3 DEF UnsubSend, Without, Placed, TypeOK
    <2> QED BY <1>1, <1>2, <2>1, <2>2, <2>3
          DEF CallStep, CallSub, CallUnsub, ParkedTimeout, SubSend, SendWrite, SendFail
  <1>3. CASE \A c \in Callers : ~CallStep(c)
    BY <1>1, <1>3, OthersKeepRegistry DEF regVars
  <1> QED BY <1>2, <1>3

LEMMA PlacedInvariant == Spec => []Placed
  <1>1. Init => Placed BY DEF Init, Placed
  <1> QED BY <1>1, PlacedStep, TypeCorrect, PTL DEF Spec

LEMMA RegInvStep ==
    TypeOK /\ RegInv /\ ~Overlap /\ [Next]_vars => RegInv'
  <1> SUFFICES ASSUME TypeOK, RegInv, ~Overlap, [Next]_vars PROVE RegInv'
    OBVIOUS
  <1>1. ASSUME NEW c \in Callers, CallStep(c) PROVE RegInv' BY <1>1, CallStepInv
  <1>2. CASE \A c \in Callers : ~CallStep(c)
    BY <1>2, OthersKeepRegistry, RegInvFrame
  <1> QED BY <1>1, <1>2

LEMMA RegInvariant ==
    ASSUME ~Overlap PROVE Spec => []RegInv
  <1>1. TypeOK /\ RegInv /\ [Next]_vars => RegInv' BY RegInvStep
  <1> QED BY <1>1, RegInvInit, TypeCorrect, PTL DEF Spec

-----------------------------------------------------------------------------
(* What subscribe() returned and the application has not given up stays     *)
(* registered, across drops, restores, failed calls, stops and restarts     *)
(* (async_ws.py:563-567, 595-616).                                          *)
THEOREM HeldStaysRegistered ==
    ASSUME ~Overlap PROVE Spec => []HeldIsRegistered
  <1>1. TypeOK /\ RegInv => HeldIsRegistered
    <2> SUFFICES ASSUME TypeOK, RegInv, NEW s \in held PROVE s \in Registered
      BY DEF HeldIsRegistered
    <2>1. s.chan \in Channels BY DEF TypeOK, Sub
    <2>2. IdentOf[s.chan] \in Identifiers BY <2>1, RoutingAssumption
    <2>3. s \in active[IdentOf[s.chan]] BY DEF RegInv, HeldPlaced
    <2> QED BY <2>2, <2>3 DEF Registered
  <1> QED BY <1>1, RegInvariant, TypeCorrect, PTL

-----------------------------------------------------------------------------
(* The refinement: every step of the manager adds one subscription, removes *)
(* one, or leaves the registry alone.                                       *)

LEMMA AddStep ==
    ASSUME TypeOK, RegInv, NEW c \in Callers, SubDone(c)
    PROVE  Registry!Next \/ UNCHANGED Registered
  <1>1. InCall(c) /\ SendsSub(c) BY DEF SubDone, InCall, SendsSub
  <1>2. Ident(c) \in Identifiers /\ active \in [Identifiers -> SUBSET Sub]
    BY <1>1, CallIdent DEF TypeOK
  <1>3. CASE GuardRaises(Ident(c)) BY <1>3 DEF SubDone, Registered, Ident
  <1>4. CASE ~GuardRaises(Ident(c))
    <2>1. active' = [active EXCEPT ![Ident(c)] = @ \cup {Own(c)}]
      BY <1>4 DEF SubDone, Ident, Own
    <2>2. Registered' = Registered \cup {Own(c)}
      BY <1>2, <2>1 DEF Registered
    <2>3. ASSUME NEW t \in Registered
          PROVE  /\ t.id # Own(c).id
                 /\ Ident(c) \in UserEvents => IdentOf[t.chan] # Ident(c)
      <3>1. PICK i \in Identifiers : t \in active[i] BY DEF Registered
      <3>2. t.id # call[c].id BY <1>1, <3>1 DEF RegInv, FreshSubs
      <3>3. IdentOf[t.chan] = i BY <3>1 DEF RegInv, Placed
      <3>4. Ident(c) \in UserEvents => i # Ident(c)
        BY <1>4, <3>1 DEF GuardRaises
      <3> QED BY <3>2, <3>3, <3>4 DEF Own
    <2>4. IdentOf[Own(c).chan] = Ident(c) BY DEF Own, Ident
    <2>5. Registry!Add(Own(c)) BY <2>2, <2>3, <2>4 DEF Registry!Add
    <2>6. Own(c) \in Registered' BY <2>2
    <2> QED BY <2>5, <2>6 DEF Registry!Next
  <1> QED BY <1>3, <1>4

LEMMA RemoveStep ==
    ASSUME TypeOK, RegInv, NEW c \in Callers, UnsubSend(c) \/ UnsubDone(c)
    PROVE  Registry!Next \/ UNCHANGED Registered
  <1>1. InCall(c) /\ call[c].op = "unsub" BY DEF UnsubSend, UnsubDone, InCall
  <1>2. Ident(c) \in Identifiers /\ active \in [Identifiers -> SUBSET Sub]
    BY <1>1, CallIdent DEF TypeOK
  <1>3. Own(c) \in active[Ident(c)] BY <1>1 DEF RegInv, OwnedUnsubs
  <1>4. CASE UNCHANGED active BY <1>4 DEF Registered
  <1>5. ASSUME NEW rest, rest \subseteq active[Ident(c)],
               active[Ident(c)] \ rest = {Own(c)},
               active' = [active EXCEPT ![Ident(c)] = rest]
        PROVE  Registry!Next
    <2>1. \A i \in Identifiers : i # Ident(c) => Own(c) \notin active[i]
      BY DEF RegInv, Placed, Own, Ident
    <2>2. Registered' = Registered \ {Own(c)}
      <3>1. ASSUME NEW t PROVE t \in Registered' <=> t \in Registered \ {Own(c)}
        <4>1. t \in Registered' <=> \E i \in Identifiers : t \in active'[i]
          BY DEF Registered
        <4>2. t \in Registered <=> \E i \in Identifiers : t \in active[i]
          BY DEF Registered
        <4>3. \A i \in Identifiers : t \in active'[i] <=>
                  t \in active[i] /\ t # Own(c)
          BY <1>2, <1>5, <2>1
        <4> QED BY <4>1, <4>2, <4>3
      <3> QED BY <3>1
    <2>3. Own(c) \in Registered BY <1>2, <1>3 DEF Registered
    <2>4. Registry!Remove(Own(c)) BY <2>2, <2>3 DEF Registry!Remove
    <2> QED BY <2>3, <2>4 DEF Registry!Next
  <1>6. CASE UnsubSend(c) /\ ~UNCHANGED active
    <2>1. active' = [active EXCEPT ![Ident(c)] = Without(Ident(c), call[c].id)]
      BY <1>6 DEF UnsubSend, Ident
    <2>2. Without(Ident(c), call[c].id) \subseteq active[Ident(c)] BY DEF Without
    <2>3. active[Ident(c)] \ Without(Ident(c), call[c].id) = {Own(c)}
      BY <1>2, <1>3 DEF Without, Own, RegInv, UniqueIds
    <2> QED BY <1>5, <2>1, <2>2, <2>3
  <1>7. CASE UnsubDone(c)
    <2> DEFINE none == {}
    <2>1. active' = [active EXCEPT ![Ident(c)] = none]
      BY <1>7 DEF UnsubDone, Ident
    <2>2. active[Ident(c)] = {Own(c)}
      BY <1>1, <1>7 DEF UnsubDone, RegInv, OwnedUnsubs
    <2>3. none \subseteq active[Ident(c)] /\ active[Ident(c)] \ none = {Own(c)}
      BY <2>2
    <2> HIDE DEF none
    <2> QED BY <1>5, <2>1, <2>3
  <1> QED BY <1>4, <1>6, <1>7

LEMMA RegistryStep ==
    TypeOK /\ RegInv /\ [Next]_vars => [Registry!Next]_Registered
  <1> SUFFICES ASSUME TypeOK, RegInv, [Next]_vars
               PROVE  Registry!Next \/ UNCHANGED Registered
    OBVIOUS
  <1>1. CASE UNCHANGED active BY <1>1 DEF Registered
  <1>2. ASSUME NEW c \in Callers, CallStep(c)
        PROVE  Registry!Next \/ UNCHANGED Registered
    <2>1. CASE SubDone(c) BY <2>1, AddStep
    <2>2. CASE UnsubSend(c) \/ UnsubDone(c) BY <2>2, RemoveStep
    <2>3. CASE ~SubDone(c) /\ ~UnsubSend(c) /\ ~UnsubDone(c)
      BY <1>1, <1>2, <2>3 DEF CallStep, CallSub, CallUnsub, ParkedTimeout, SubSend,
         SendWrite, SendFail
    <2> QED BY <2>1, <2>2, <2>3
  <1>3. CASE \A c \in Callers : ~CallStep(c)
    BY <1>1, <1>3, OthersKeepRegistry DEF regVars
  <1> QED BY <1>2, <1>3

(* With one call at a time in flight on an identifier, the manager          *)
(* implements SubscriptionRegistry (async_ws.py:491-616).                   *)
THEOREM ManagerImplementsRegistry ==
    ASSUME ~Overlap PROVE Spec => RegistrySpec
  <1>1. Init => Registry!Init BY DEF Init, Registry!Init, Registered
  <1>2. TypeOK /\ RegInv /\ [Next]_vars => [Registry!Next]_Registered
    BY RegistryStep
  <1> QED BY <1>1, <1>2, TypeCorrect, RegInvariant, PTL
          DEF Spec, RegistrySpec, Registry!Spec

=============================================================================
