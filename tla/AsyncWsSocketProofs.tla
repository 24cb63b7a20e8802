------------------------ MODULE AsyncWsSocketProofs ------------------------
(***************************************************************************)
(* Theorems about the sockets of AsyncWs: what restores, pings and stop()  *)
(* may count on.  They are about a manager whose run() tasks never         *)
(* overlap.                                                                *)
(***************************************************************************)
EXTENDS AsyncWsProofs

(* stop() of AsyncAgent waits for the run() task to end; the manager alone  *)
(* does not, so there only one connect() keeps two loops apart.             *)
OneLoop == Lifecycle = "agent" \/ MaxGen <= 1

-----------------------------------------------------------------------------
(* The inductive invariant.                                                *)

Lost     == ws = NoConn \/ conn[ws] = "closed"
Sends(c) == call[c].at = "sending"

(* At most one loop, and no connect() beside it. *)
LoneLoop ==
    /\ \A q, r \in Alive : q = r
    /\ Alive # {} => ~connecting /\ (up \/ event >= MaxGen)
Session ==
    /\ connecting => ~up /\ stopper.at = "idle"
    /\ (connecting \/ up \/ Alive # {}) => event >= 1
    /\ stopper.at # "idle" => Stopped

(* Only _ws may be open or closing, the latter for a stop() only, and it is *)
(* lost where a new one is about to take its place.                         *)
OneSocket ==
    /\ \A k \in Conns : conn[k] # "closed" => k = ws
    /\ \A k \in Conns : conn[k] = "closing" => Stopped
    /\ (~up /\ (connecting \/ event < MaxGen)) => Lost
    /\ wsReady => ws # NoConn

(* Where a loop is, and what that says of the socket and of ws_ready. *)
LoopAt(r) ==
    /\ run[r].born = event
    /\ ws # NoConn
    /\ run[r].at = "recv" => run[r].conn = ws
    /\ run[r].at = "connecting" => Lost /\ ~wsReady
    /\ run[r].at = "restoring" => ~wsReady /\ \A c \in Callers : ~Sends(c)
    /\ run[r].at = "backoff" => (Stopped \/ Lost) /\ ~wsReady
    /\ run[r].at = "shutting" => Stopped /\ run[r].conn = ws /\ ~wsReady

Loops == \A r \in Alive : LoopAt(r)

SendsOnWs == \A c \in Callers : Sends(c) => call[c].conn = ws /\ ws # NoConn

(* A stop() that closes a socket closes the last one; after it only a       *)
(* restore under way can hold an open one.                                  *)
StopCloses ==
    /\ stopper.at = "closing" =>
          /\ stopper.conn = ws /\ ws # NoConn /\ conn[ws] # "open"
          /\ \A r \in Runs : run[r].at # "connecting"
    /\ (Stopped /\ stopper.at # "cancelling" /\ \E k \in Conns : conn[k] = "open")
          => \E r \in Runs : run[r].at = "restoring"

Links     == LoneLoop /\ Session /\ OneSocket /\ Loops /\ SendsOnWs /\ StopCloses
SocketInv == StopInv /\ Links

linkState == <<event, eventSet, connecting, up, stopper, wsReady, ws, run, conn, call>>

LEMMA LinksInit == Init => Links
  BY DEF Init, Links, LoneLoop, Session, OneSocket, Loops, SendsOnWs, StopCloses,
     Alive, Ended, NoneRun, Sends, IdleCall, Lost, Stopped

LEMMA LinksFrame ==
    ASSUME Links, UNCHANGED linkState PROVE Links'
  BY DEF linkState, Links, LoneLoop, Session, OneSocket, Loops, LoopAt, SendsOnWs,
     StopCloses, Alive, Ended, Sends, Lost, Stopped

LEMMA LostClosed ==
    ASSUME Links, Lost PROVE \A k \in Conns : conn[k] = "closed"
  BY NoneAssumption DEF Links, OneSocket, Lost

-----------------------------------------------------------------------------
(* The network.                                                            *)

LEMMA NetLinks ==
    ASSUME TypeOK, Links, NEW k \in Conns, NetDrop(k) \/ CloseDone(k)
    PROVE  Links'
  <1>1. /\ conn' = [conn EXCEPT ![k] = "closed"]
        /\ UNCHANGED <<event, eventSet, connecting, up, stopper, wsReady, ws, run, call>>
    BY DEF NetDrop, CloseDone, stopVars, linkVars, regVars
  <1>2. /\ \A j \in Conns : conn'[j] = conn[j] \/ conn'[j] = "closed"
        /\ Lost => Lost'
    BY <1>1 DEF Lost, TypeOK
  <1>3. LoneLoop' /\ Session' /\ SendsOnWs'
    BY <1>1 DEF Links, LoneLoop, Session, SendsOnWs, Alive, Ended, Sends, Stopped
  <1>4. OneSocket' BY <1>1, <1>2 DEF Links, OneSocket, Stopped
  <1>5. Loops' BY <1>1, <1>2 DEF Links, Loops, LoopAt, Alive, Ended, Sends, Stopped
  <1>6. StopCloses' BY <1>1, <1>2 DEF Links, StopCloses, Stopped, TypeOK
  <1> QED BY <1>3, <1>4, <1>5, <1>6 DEF Links

-----------------------------------------------------------------------------
(* The calls: a send starts on _ws of a ready manager and stays there.     *)

LEMMA CallSends ==
    ASSUME TypeOK, NEW c \in Callers, CallStep(c), NEW d \in Callers, Sends(d)'
    PROVE  \/ Sends(d) /\ call'[d].conn = call[d].conn
           \/ wsReady /\ call'[d].conn = ws
  <1> USE DEF Sends
  <1>1. ASSUME NEW chan \in Channels, CallSub(c, chan)
        PROVE  Sends(d) /\ call'[d] = call[d]
    BY <1>1 DEF CallSub, TypeOK, IdleCall
  <1>2. ASSUME NEW s \in held, CallUnsub(c, s)
        PROVE  Sends(d) /\ call'[d] = call[d]
    BY <1>2 DEF CallUnsub, TypeOK, IdleCall
  <1>3. CASE ParkedTimeout(c) BY <1>3 DEF ParkedTimeout, TypeOK, IdleCall
  <1>4. ASSUME NEW id, StartSend(c, id), call[c].at # "idle", wsReady
        PROVE  call'[d] = call[d] \/ (wsReady /\ call'[d].conn = ws)
    <2>1. call[c] \in BusyCall BY <1>4, BusyCallType
    <2> QED BY <1>4, <2>1 DEF StartSend, BusyCall, TypeOK
  <1>5. CASE SubSend(c) BY <1>4, <1>5 DEF SubSend, Gate, TypeOK, IdleCall
  <1>6. CASE UnsubSend(c) BY <1>4, <1>6 DEF UnsubSend, Gate, TypeOK, IdleCall
  <1>7. CASE SendWrite(c)
    <2>1. call[c] \in BusyCall BY <1>7, BusyCallType DEF SendWrite
    <2> QED BY <1>7, <2>1 DEF SendWrite, TypeOK, BusyCall
  <1>8. CASE call' = Release(c)
    <2>1. CASE d # c /\ c \in call[d].ahead
      <3>1. call[d] \in BusyCall BY <2>1 DEF TypeOK, Call, IdleCall
      <3> QED BY <1>8, <2>1, <3>1 DEF Release, BusyCall
    <2>2. CASE d # c /\ c \notin call[d].ahead BY <1>8, <2>2 DEF Release
    <2>3. CASE d = c BY <1>8, <2>3 DEF Release, IdleCall
    <2> QED BY <2>1, <2>2, <2>3
  <1> QED BY <1>1, <1>2, <1>3, <1>5, <1>6, <1>7, <1>8
          DEF CallStep, SubDone, UnsubDone, SendFail

LEMMA CallsKeepLinks ==
    ASSUME NEW c \in Callers, CallStep(c)
    PROVE  UNCHANGED <<event, eventSet, connecting, up, stopper, wsReady, ws, run, conn>>
  BY DEF CallStep, CallSub, CallUnsub, ParkedTimeout, SubSend, UnsubSend, SendWrite,
     SubDone, UnsubDone, SendFail, stopVars, linkVars, netVars

LEMMA CallLinks ==
    ASSUME TypeOK, Links, NEW c \in Callers, CallStep(c) PROVE Links'
  <1>1. UNCHANGED <<event, eventSet, connecting, up, stopper, wsReady, ws, run, conn>>
    BY CallsKeepLinks
  <1>2. \A d \in Callers : Sends(d)' =>
            (Sends(d) /\ call'[d].conn = call[d].conn) \/ (wsReady /\ call'[d].conn = ws)
    BY CallSends
  <1>3. LoneLoop' /\ Session' /\ OneSocket' /\ StopCloses'
    BY <1>1 DEF Links, LoneLoop, Session, OneSocket, StopCloses, Alive, Ended, Stopped,
       Lost
  <1>4. Loops' BY <1>1, <1>2 DEF Links, Loops, LoopAt, Alive, Ended, Lost, Stopped
  <1>5. SendsOnWs' BY <1>1, <1>2 DEF Links, SendsOnWs, OneSocket
  <1> QED BY <1>3, <1>4, <1>5 DEF Links

-----------------------------------------------------------------------------
(* The loop.                                                               *)

LEMMA RunToFields ==
    ASSUME TypeOK, NEW r \in Runs, NEW at, NEW k, run' = RunTo(r, at, k)
    PROVE  /\ run'[r].at = at /\ run'[r].conn = k /\ run'[r].born = run[r].born
           /\ run'[r].sent = {}
           /\ \A q \in Runs \ {r} : run'[q] = run[q]
  <1>1. run[r] \in RunTask BY DEF TypeOK
  <1>2. run'[r] = Moved(run[r], at, k) BY DEF RunTo, TypeOK
  <1>3. \A q \in Runs \ {r} : run'[q] = run[q] BY DEF RunTo, TypeOK
  <1> QED BY <1>1, <1>2, <1>3 DEF Moved, RunTask

(* A loop that goes on or ends is the only one. *)
LEMMA LoopGoesOn ==
    ASSUME Links, NEW r \in Runs, ~Ended(r),
           \A q \in Runs \ {r} : run'[q] = run[q],
           UNCHANGED stopVars
    PROVE  /\ LoneLoop' /\ Session'
           /\ \A q \in Runs \ {r} : Ended(q) /\ Ended(q)'
           /\ ~connecting /\ (up \/ event >= MaxGen) /\ event >= 1
           /\ LoopAt(r)
  <1>1. r \in Alive /\ Alive # {} BY DEF Alive
  <1>2. \A q \in Runs \ {r} : Ended(q) /\ Ended(q)'
    BY <1>1 DEF Alive, Links, LoneLoop, Ended
  <1>3. \A q \in Alive' : q = r BY <1>2 DEF Alive
  <1>4. ~connecting /\ (up \/ event >= MaxGen) /\ event >= 1
    BY <1>1 DEF Links, LoneLoop, Session
  <1>5. LoneLoop' BY <1>3, <1>4 DEF LoneLoop, stopVars
  <1>6. Session' BY <1>4 DEF Links, Session, stopVars, Stopped
  <1>7. LoopAt(r) BY <1>1 DEF Links, Loops
  <1> QED BY <1>2, <1>4, <1>5, <1>6, <1>7

(* A step of the loop that leaves the sockets alone. *)
LEMMA LoopMoves ==
    ASSUME TypeOK, Links, NEW r \in Runs, ~Ended(r), NEW at, NEW k,
           run' = RunTo(r, at, k), UNCHANGED <<stopVars, ws, conn, call>>,
           at \in {"recv", "connecting", "backoff", "done"},
           at = "recv" => k = ws,
           at = "connecting" => Lost /\ ~Stopped,
           at = "backoff" => (Stopped \/ Lost) /\ \A j \in Conns : conn[j] # "open",
           at \in {"connecting", "backoff"} => ~wsReady',
           at \in {"recv", "connecting"} => ~Stopped,
           at = "done" => wsReady' = wsReady /\ run[r].at # "restoring"
    PROVE  Links'
  <1> USE DEF stopVars
  <1>1. /\ run'[r].at = at /\ run'[r].conn = k /\ run'[r].born = run[r].born
        /\ \A q \in Runs \ {r} : run'[q] = run[q]
    BY RunToFields
  <1>2. /\ LoneLoop' /\ Session' /\ LoopAt(r)
        /\ \A q \in Runs \ {r} : Ended(q) /\ Ended(q)'
    BY <1>1, LoopGoesOn
  <1>3. OneSocket' BY <1>2 DEF Links, OneSocket, Lost, Stopped, LoopAt
  <1>4. Loops'
    <2>1. \A q \in Alive' : q = r BY <1>2 DEF Alive
    <2>2. LoopAt(r)' BY <1>1, <1>2 DEF LoopAt, Lost, Stopped
    <2> QED BY <2>1, <2>2 DEF Loops
  <1>5. SendsOnWs' BY DEF Links, SendsOnWs, Sends
  <1>6. StopCloses'
    <2>1. ~Stopped => stopper.at = "idle" BY DEF Links, Session
    <2>2. \A q \in Runs \ {r} : run[q].at \notin {"restoring", "connecting"}
      BY <1>2 DEF Ended
    <2>3. CASE at # "done" BY <1>1, <2>1, <2>2, <2>3 DEF Links, StopCloses, Stopped
    <2>4. CASE at = "done" BY <1>1, <2>1, <2>2, <2>4 DEF Links, StopCloses, Stopped
    <2> QED BY <2>3, <2>4
  <1> QED BY <1>2, <1>3, <1>4, <1>5, <1>6 DEF Links

LEMMA RunLinksMoves ==
    ASSUME TypeOK, Links, NEW r \in Runs,
           \/ RunStart(r) \/ RunDisconnected(r) \/ RunBreak(r) \/ RunConnectFail(r)
           \/ RestoreFail(r) \/ RunShut(r) \/ BackoffStopped(r) \/ BackoffTimeout(r)
    PROVE  Links'
  <1> USE DEF linkVars, netVars, regVars
  <1>1. ~Ended(r)
    BY DEF Ended, RunStart, RunDisconnected, RunBreak, RunConnectFail, RestoreFail,
       RunShut, BackoffStopped, BackoffTimeout
  <1>2. LoopAt(r) BY <1>1 DEF Links, Loops, Alive
  <1>3. ws \in Conns BY <1>2 DEF LoopAt, TypeOK
  <1>4. Lost => \A j \in Conns : conn[j] # "open"
    BY LostClosed
  <1>5. CASE RunStart(r)
    <2>1. CASE Stopped BY <1>1, <1>5, <2>1, LoopMoves DEF RunStart
    <2>2. CASE ~Stopped BY <1>1, <1>5, <2>2, LoopMoves DEF RunStart, Receive
    <2> QED BY <2>1, <2>2
  <1>6. CASE RunDisconnected(r)
    <2>1. CASE Stopped BY <1>1, <1>6, <2>1, LoopMoves DEF RunDisconnected
    <2>2. CASE ~Stopped
      <3>1. Lost BY <1>2, <1>6 DEF RunDisconnected, LoopAt, Lost
      <3> QED BY <1>1, <1>6, <2>2, <3>1, LoopMoves DEF RunDisconnected
    <2> QED BY <2>1, <2>2
  <1>7. CASE RunBreak(r) BY <1>1, <1>7, LoopMoves DEF RunBreak
  <1>8. CASE RunConnectFail(r)
    <2>1. Lost /\ ~wsReady BY <1>2, <1>8 DEF RunConnectFail, LoopAt
    <2> QED BY <1>1, <1>4, <1>8, <2>1, LoopMoves DEF RunConnectFail
  <1>9. CASE RestoreFail(r)
    <2>1. conn[ws] # "open" /\ ~wsReady BY <1>2, <1>9 DEF RestoreFail, LoopAt
    <2>2. Stopped \/ Lost BY <1>3, <2>1 DEF Links, OneSocket, Lost, TypeOK
    <2>3. \A j \in Conns : conn[j] # "open" BY <2>1 DEF Links, OneSocket
    <2> QED BY <1>1, <1>9, <2>1, <2>2, <2>3, LoopMoves DEF RestoreFail
  <1>10. CASE RunShut(r) BY <1>1, <1>10, LoopMoves DEF RunShut
  <1>11. CASE BackoffStopped(r) BY <1>1, <1>11, LoopMoves DEF BackoffStopped
  <1>12. CASE BackoffTimeout(r)
    <2>1. CASE Stopped BY <1>1, <1>12, <2>1, LoopMoves DEF BackoffTimeout
    <2>2. CASE ~Stopped
      <3>1. Lost /\ ~wsReady BY <1>2, <1>12, <2>2 DEF BackoffTimeout, LoopAt
      <3> QED BY <1>1, <1>12, <2>2, <3>1, LoopMoves DEF BackoffTimeout
    <2> QED BY <2>1, <2>2
  <1> QED BY <1>5, <1>6, <1>7, <1>8, <1>9, <1>10, <1>11, <1>12

(* The steps of the loop that open, restore or close a socket. *)
LEMMA OpenReplaces ==
    ASSUME TypeOK, Links, NEW k \in Conns, Open(k), ws' = k, Lost
    PROVE  /\ \A j \in Conns : conn'[j] # "closed" => j = k
           /\ \A j \in Conns : conn'[j] # "closing"
           /\ \A c \in Callers : ~Sends(c)
           /\ ws' # NoConn
  <1>1. conn' = [conn EXCEPT ![k] = "open"] BY DEF Open
  <1>2. \A j \in Conns : conn[j] = "closed" BY LostClosed
  <1>3. \A c \in Callers : ~Sends(c)
    BY DEF Open, LostSendsResolved, Sends, Lost, Links, SendsOnWs
  <1> QED BY <1>1, <1>2, <1>3, NoneAssumption DEF TypeOK

LEMMA RunConnectOkLinks ==
    ASSUME TypeOK, Links, NEW r \in Runs, NEW k \in Conns, RunConnectOk(r, k)
    PROVE  Links'
  <1>1. ~Ended(r) /\ run[r].at = "connecting" /\ run' = RunTo(r, "restoring", NoConn)
        /\ UNCHANGED <<event, eventSet, connecting, up, stopper, wsReady, call>>
    BY DEF RunConnectOk, Ended, stopVars, regVars
  <1>2. /\ run'[r].at = "restoring" /\ run'[r].born = run[r].born
        /\ \A q \in Runs \ {r} : run'[q] = run[q]
    BY <1>1, RunToFields
  <1>3. /\ LoneLoop' /\ Session' /\ LoopAt(r)
        /\ \A q \in Runs \ {r} : Ended(q) /\ Ended(q)'
        /\ ~connecting /\ (up \/ event >= MaxGen)
    BY <1>1, <1>2, LoopGoesOn DEF stopVars
  <1>4. Lost /\ ~wsReady BY <1>1, <1>3 DEF LoopAt
  <1>5. /\ \A j \in Conns : conn'[j] # "closed" => j = ws'
        /\ \A j \in Conns : conn'[j] # "closing"
        /\ \A c \in Callers : ~Sends(c)
        /\ ws' # NoConn
    BY <1>4, OpenReplaces DEF RunConnectOk
  <1>6. OneSocket'
    <2>1. event \in Nat /\ MaxGen \in Nat BY BoundsAssumption DEF TypeOK
    <2> QED BY <1>1, <1>3, <1>4, <1>5, <2>1 DEF OneSocket
  <1>7. Loops'
    <2>1. \A q \in Alive' : q = r BY <1>3 DEF Alive
    <2>2. LoopAt(r)' BY <1>1, <1>2, <1>3, <1>4, <1>5 DEF LoopAt, Sends
    <2> QED BY <2>1, <2>2 DEF Loops
  <1>8. SendsOnWs' BY <1>1, <1>5 DEF SendsOnWs, Sends
  <1>9. StopCloses' BY <1>1, <1>2 DEF Links, StopCloses
  <1> QED BY <1>3, <1>6, <1>7, <1>8, <1>9 DEF Links

LEMMA RestoreSendLinks ==
    ASSUME TypeOK, Links, NEW r \in Runs, NEW s, RestoreSend(r, s)
    PROVE  Links'
  <1>1. /\ \A q \in Runs : /\ run'[q].at = run[q].at /\ run'[q].conn = run[q].conn
                           /\ run'[q].born = run[q].born
    <2>1. run[r] \in RunTask BY DEF TypeOK
    <2> QED BY <2>1 DEF RestoreSend, TypeOK, RunTask
  <1>2. UNCHANGED <<event, eventSet, connecting, up, stopper, wsReady, ws, conn, call>>
    BY DEF RestoreSend, stopVars, linkVars, regVars
  <1> QED BY <1>1, <1>2 DEF Links, LoneLoop, Session, OneSocket, Loops, LoopAt,
        SendsOnWs, StopCloses, Alive, Ended, Sends, Lost, Stopped

LEMMA RestoreDoneLinks ==
    ASSUME TypeOK, Links, NEW r \in Runs, RestoreDone(r)
    PROVE  Links'
  <1>1. ~Ended(r) /\ run[r].at = "restoring"
        /\ UNCHANGED <<event, eventSet, connecting, up, stopper, ws, call>>
    BY DEF RestoreDone, Ended, stopVars, regVars
  <1>2. run' = RunTo(r, "shutting", ws) \/ run' = RunTo(r, "recv", ws)
    BY DEF RestoreDone, Receive
  <1>3. /\ run'[r].conn = ws /\ run'[r].born = run[r].born
        /\ \A q \in Runs \ {r} : run'[q] = run[q]
    BY <1>2, RunToFields
  <1>4. /\ LoneLoop' /\ Session' /\ LoopAt(r)
        /\ \A q \in Runs \ {r} : Ended(q) /\ Ended(q)'
        /\ ~connecting /\ (up \/ event >= MaxGen)
    BY <1>1, <1>3, LoopGoesOn DEF stopVars
  <1>5. ws \in Conns /\ ws # NoConn /\ ~wsReady BY <1>1, <1>4 DEF LoopAt, TypeOK
  <1>6. \A q \in Alive' : q = r BY <1>4 DEF Alive
  <1>7. SendsOnWs' BY <1>1 DEF Links, SendsOnWs, Sends
  <1>8. event \in Nat /\ MaxGen \in Nat BY BoundsAssumption DEF TypeOK
  <1>9. CASE Stopped
    <2>1. /\ run'[r].at = "shutting" /\ conn' = Closing(ws) /\ UNCHANGED wsReady
      BY <1>9, RunToFields DEF RestoreDone
    <2>2. /\ \A j \in Conns : conn'[j] # "closed" => j = ws
          /\ \A j \in Conns : conn'[j] # "open"
      BY <1>5, <2>1 DEF Closing, Links, OneSocket, TypeOK
    <2>3. OneSocket' BY <1>1, <1>4, <1>5, <1>8, <1>9, <2>1, <2>2 DEF OneSocket, Stopped
    <2>4. LoopAt(r)' BY <1>1, <1>3, <1>4, <1>5, <1>9, <2>1 DEF LoopAt, Stopped
    <2>5. StopCloses'
      BY <1>1, <1>4, <1>5, <2>1, <2>2 DEF Links, StopCloses, Ended
    <2> QED BY <1>4, <1>6, <1>7, <2>3, <2>4, <2>5 DEF Links, Loops
  <1>10. CASE ~Stopped
    <2>1. run'[r].at = "recv" /\ UNCHANGED conn
      BY <1>10, RunToFields DEF RestoreDone, Receive
    <2>2. OneSocket' BY <1>1, <1>4, <1>5, <1>8, <2>1 DEF Links, OneSocket, Stopped
    <2>3. LoopAt(r)' BY <1>1, <1>3, <1>4, <1>5, <2>1 DEF LoopAt
    <2>4. StopCloses' BY <1>1, <1>10 DEF Links, Session, StopCloses, Stopped
    <2> QED BY <1>4, <1>6, <1>7, <2>2, <2>3, <2>4 DEF Links, Loops
  <1> QED BY <1>9, <1>10

LEMMA RunLinks ==
    ASSUME TypeOK, Links, NEW r \in Runs, RunStep(r) PROVE Links'
  <1>1. CASE PingEnd(r) \/ \E m \in Messages : Deliver(r, m)
    <2>1. UNCHANGED linkState
      BY <1>1 DEF PingEnd, Deliver, stopVars, linkVars, netVars, regVars, linkState
    <2> QED BY <2>1, LinksFrame
  <1> QED BY <1>1, RunLinksMoves, RunConnectOkLinks, RestoreSendLinks, RestoreDoneLinks
          DEF RunStep

-----------------------------------------------------------------------------
(* connect() and stop().                                                   *)

LEMMA ConnectLinks ==
    ASSUME TypeOK, StopInv, Links,
           \/ ConnectBegin \/ ConnectFail
           \/ \E r \in Runs, k \in Conns : ConnectOk(r, k)
    PROVE  Links'
  <1> USE BoundsAssumption DEF linkVars, netVars, regVars
  <1>1. CASE ConnectBegin
    <2>1. /\ ~up /\ ~connecting /\ stopper.at = "idle" /\ event < MaxGen
          /\ event' = event + 1 /\ connecting'
          /\ UNCHANGED <<eventSet, up, stopper, wsReady, ws, run, conn, call>>
      BY <1>1 DEF ConnectBegin
    <2>2. event \in Nat BY DEF TypeOK
    <2>3. Alive = {} /\ Lost
      BY <2>1, <2>2 DEF Links, LoneLoop, OneSocket
    <2>4. \A k \in Conns : conn[k] = "closed" BY <2>3, LostClosed
    <2>5. ~Stopped' BY <2>1, <2>2 DEF StopInv, EventsPast, Stopped
    <2>6. Alive' = {} BY <2>1, <2>3 DEF Alive, Ended
    <2>7. LoneLoop' /\ Loops' BY <2>6 DEF LoneLoop, Loops
    <2>8. Session' BY <2>1, <2>2 DEF Session
    <2>9. OneSocket' BY <2>1, <2>3, <2>4 DEF OneSocket, Lost, Links
    <2>10. SendsOnWs' BY <2>1 DEF Links, SendsOnWs, Sends
    <2>11. StopCloses' BY <2>1, <2>5 DEF StopCloses
    <2> QED BY <2>7, <2>8, <2>9, <2>10, <2>11 DEF Links
  <1>2. CASE ConnectFail
    BY <1>2 DEF ConnectFail, Links, LoneLoop, Session, OneSocket, Loops, LoopAt,
       SendsOnWs, StopCloses, Alive, Ended, Sends, Lost, Stopped
  <1>3. ASSUME NEW r \in Runs, NEW k \in Conns, ConnectOk(r, k) PROVE Links'
    <2>1. /\ connecting /\ ~connecting' /\ up' /\ wsReady' /\ ws' = k
          /\ run' = [run EXCEPT ![r] = NewRun] /\ Open(k)
          /\ UNCHANGED <<event, eventSet, stopper, call>>
      BY <1>3 DEF ConnectOk
    <2>2. ~up /\ stopper.at = "idle" /\ event >= 1 /\ Alive = {} /\ Lost /\ ~Stopped
      BY <2>1 DEF Links, Session, LoneLoop, OneSocket, StopInv, HandshakeLive
    <2>3. /\ \A j \in Conns : conn'[j] # "closed" => j = ws'
          /\ \A j \in Conns : conn'[j] # "closing"
          /\ \A c \in Callers : ~Sends(c)
          /\ ws' # NoConn
      BY <2>1, <2>2, OpenReplaces
    <2>4. run'[r] = NewRun /\ \A q \in Alive' : q = r
      BY <2>1, <2>2 DEF Alive, Ended, TypeOK
    <2>5. LoneLoop' BY <2>1, <2>4 DEF LoneLoop
    <2>6. Session' BY <2>1, <2>2 DEF Session
    <2>7. OneSocket' BY <2>1, <2>3 DEF OneSocket
    <2>8. LoopAt(r)' BY <2>1, <2>3, <2>4 DEF LoopAt, NewRun
    <2>9. Loops' BY <2>4, <2>8 DEF Loops
    <2>10. SendsOnWs' BY <2>1, <2>3 DEF SendsOnWs, Sends
    <2>11. StopCloses' BY <2>1, <2>2 DEF StopCloses, Stopped
    <2> QED BY <2>5, <2>6, <2>7, <2>9, <2>10, <2>11 DEF Links
  <1> QED BY <1>1, <1>2, <1>3

LEMMA StopReturnsLinks ==
    ASSUME TypeOK, Links, OneLoop, stopper.at # "idle", Lost, StopReturns,
           UNCHANGED <<event, eventSet, connecting, ws, conn, call>>
    PROVE  Links'
  <1> USE BoundsAssumption
  <1>1. stopper'.at = "idle" /\ ~wsReady' /\ ~up' /\ ~connecting /\ event \in Nat
    BY DEF StopReturns, Links, Session, TypeOK
  <1>2. CASE Lifecycle = "agent"
    <2>1. \A r \in Runs : Ended(r)' BY <1>2 DEF StopReturns, Reaped, Moved, Ended, TypeOK,
          RunTask
    <2>2. Alive' = {} BY <2>1 DEF Alive
    <2>3. LoneLoop' /\ Loops' BY <2>2 DEF LoneLoop, Loops
    <2>4. Session' BY <1>1, <2>2 DEF Session
    <2>5. OneSocket' BY <1>1 DEF Links, OneSocket, Lost, Stopped
    <2>6. SendsOnWs' BY DEF Links, SendsOnWs, Sends
    <2>7. StopCloses' BY <1>1, LostClosed DEF StopCloses
    <2> QED BY <2>3, <2>4, <2>5, <2>6, <2>7 DEF Links
  <1>3. CASE Lifecycle # "agent"
    <2>1. UNCHANGED run /\ MaxGen <= 1 BY <1>3 DEF StopReturns, Reaped, OneLoop
    <2>2. Alive' = Alive BY <2>1 DEF Alive, Ended
    <2>3. Alive # {} => event >= MaxGen BY <1>1, <2>1 DEF Links, Session
    <2>4. LoneLoop' BY <1>1, <2>2, <2>3 DEF Links, LoneLoop
    <2>5. Session' BY <1>1, <2>2 DEF Links, Session
    <2>6. OneSocket' BY <1>1 DEF Links, OneSocket, Lost, Stopped
    <2>7. Loops' BY <1>1, <2>1, <2>2 DEF Links, Loops, LoopAt, Lost, Stopped, Sends
    <2>8. SendsOnWs' BY DEF Links, SendsOnWs, Sends
    <2>9. StopCloses' BY <1>1, LostClosed DEF StopCloses
    <2> QED BY <2>4, <2>5, <2>6, <2>7, <2>8, <2>9 DEF Links
  <1> QED BY <1>2, <1>3

LEMMA StopLinks ==
    ASSUME TypeOK, Links, OneLoop, ~StopWhileConnecting,
           StopBegin \/ StopClose \/ StopEnd
    PROVE  Links'
  <1> USE DEF linkVars, netVars, regVars
  <1>1. CASE StopBegin
    <2>1. /\ ~connecting /\ Stopped' /\ stopper'.at = "cancelling"
          /\ UNCHANGED <<event, connecting, up, wsReady, ws, run, conn, call>>
      BY <1>1 DEF StopBegin, Stopped
    <2>2. LoneLoop' BY <2>1 DEF Links, LoneLoop, Alive, Ended
    <2>3. Session' BY <2>1 DEF Links, Session, Alive, Ended
    <2>4. OneSocket' BY <2>1 DEF Links, OneSocket, Lost
    <2>5. Loops' BY <2>1 DEF Links, Loops, LoopAt, Alive, Ended, Lost, Sends
    <2>6. SendsOnWs' BY <2>1 DEF Links, SendsOnWs, Sends
    <2>7. StopCloses' BY <2>1 DEF StopCloses
    <2> QED BY <2>2, <2>3, <2>4, <2>5, <2>6, <2>7 DEF Links
  <1>2. CASE StopClose /\ Lost
    <2>1. StopReturns /\ UNCHANGED <<event, eventSet, connecting, ws, conn, call>>
      BY <1>2 DEF StopClose, Lost
    <2> QED BY <1>2, <2>1, StopReturnsLinks DEF StopClose
  <1>3. CASE StopClose /\ ~Lost
    <2>1. /\ ws \in Conns /\ ws # NoConn /\ conn' = Closing(ws)
          /\ stopper.at = "cancelling" /\ stopper' = [at |-> "closing", conn |-> ws]
          /\ UNCHANGED <<event, eventSet, connecting, ws, wsReady, up, run, call>>
      BY <1>3 DEF StopClose, Lost, TypeOK
    <2>2. Stopped /\ ~connecting BY <2>1 DEF Links, Session
    <2>3. /\ \A j \in Conns : conn'[j] # "closed" => j = ws
          /\ \A j \in Conns : conn'[j] # "open"
          /\ Lost' => Lost
      BY <2>1 DEF Closing, Links, OneSocket, TypeOK, Lost
    <2>4. \A r \in Runs : run[r].at # "connecting"
      BY <1>3 DEF Links, Loops, LoopAt, Alive, Ended
    <2>5. LoneLoop' BY <2>1 DEF Links, LoneLoop, Alive, Ended
    <2>6. Session' BY <2>1, <2>2 DEF Links, Session, Alive, Ended, Stopped
    <2>7. OneSocket' BY <1>3, <2>1, <2>2, <2>3 DEF Links, OneSocket, Stopped
    <2>8. Loops' BY <2>1, <2>2, <2>4 DEF Links, Loops, LoopAt, Alive, Ended, Stopped, Sends
    <2>9. SendsOnWs' BY <2>1 DEF Links, SendsOnWs, Sends
    <2>10. StopCloses' BY <2>1, <2>3, <2>4 DEF StopCloses
    <2> QED BY <2>5, <2>6, <2>7, <2>8, <2>9, <2>10 DEF Links
  <1>4. CASE StopEnd
    <2>1. StopReturns /\ UNCHANGED <<event, eventSet, connecting, ws, conn, call>>
      BY <1>4 DEF StopEnd
    <2>2. Lost BY <1>4 DEF StopEnd, Links, StopCloses, Lost
    <2> QED BY <1>4, <2>1, <2>2, StopReturnsLinks DEF StopEnd
  <1> QED BY <1>1, <1>2, <1>3, <1>4

LEMMA LinksStep ==
    TypeOK /\ SocketInv /\ OneLoop /\ ~StopWhileConnecting /\ [Next]_vars => Links'
  <1> SUFFICES ASSUME TypeOK, StopInv, Links, OneLoop, ~StopWhileConnecting, [Next]_vars
               PROVE  Links'
    BY DEF SocketInv
  <1>1. CASE NetStep BY <1>1, NetLinks DEF NetStep
  <1>2. CASE AppStep BY <1>2, ConnectLinks, StopLinks DEF AppStep
  <1>3. ASSUME NEW r \in Runs, RunStep(r) PROVE Links' BY <1>3, RunLinks
  <1>4. ASSUME NEW c \in Callers, CallStep(c) PROVE Links' BY <1>4, CallLinks
  <1>5. ASSUME NEW id \in cbTasks, CallbackDone(id) PROVE Links'
    <2>1. UNCHANGED linkState
      BY <1>5 DEF CallbackDone, stopVars, linkVars, netVars, regVars, linkState
    <2> QED BY <2>1, LinksFrame
  <1>6. CASE UNCHANGED vars BY <1>6, LinksFrame DEF vars, linkState
  <1> QED BY <1>1, <1>2, <1>3, <1>4, <1>5, <1>6 DEF Next

LEMMA SocketInvariant ==
    ASSUME OneLoop, ~StopWhileConnecting PROVE Spec => []SocketInv
  <1>1. TypeOK /\ SocketInv /\ [Next]_vars => SocketInv'
    BY StopInvStep, LinksStep DEF SocketInv
  <1>2. Init => SocketInv BY StopInvInit, LinksInit DEF SocketInv
  <1> QED BY <1>1, <1>2, TypeCorrect, PTL DEF Spec

(* Once stop() has returned and every message loop has ended no socket is   *)
(* open, even if a handshake completed late (async_ws.py:290-296).          *)
THEOREM StoppedHasNoSocket ==
    ASSUME OneLoop, ~StopWhileConnecting PROVE Spec => []NoSocketAfterStop
  <1>1. SocketInv => NoSocketAfterStop
    BY DEF SocketInv, Links, StopCloses, NoSocketAfterStop, Alive, Ended
  <1> QED BY <1>1, SocketInvariant, PTL

-----------------------------------------------------------------------------
(* While a loop restores, no caller is past the gate.                       *)

LEMMA RestoreStep ==
    TypeOK /\ SocketInv /\ [Next]_vars =>
        ((\E r \in Runs : run[r].at = "restoring") => UNCHANGED active)
  <1> SUFFICES ASSUME TypeOK, SocketInv, [Next]_vars,
                      NEW r \in Runs, run[r].at = "restoring"
               PROVE  UNCHANGED active
    OBVIOUS
  <1>1. ~wsReady /\ \A c \in Callers : ~Sends(c)
    <2>1. r \in Alive BY DEF Alive, Ended
    <2> QED BY <2>1 DEF SocketInv, Links, Loops, LoopAt
  <1>2. ASSUME NEW c \in Callers, CallStep(c) PROVE UNCHANGED active
    BY <1>1, <1>2 DEF CallStep, CallSub, CallUnsub, ParkedTimeout, SubSend, UnsubSend,
       Gate, SendWrite, SubDone, UnsubDone, SendFail, Sends
  <1>3. CASE \A c \in Callers : ~CallStep(c)
    BY <1>3, OthersKeepRegistry DEF regVars
  <1> QED BY <1>2, <1>3

(* No call changes the registry under a restore that iterates over it       *)
(* without a copy (async_ws.py:303-326).                                    *)
THEOREM RestoreIsStable ==
    ASSUME OneLoop, ~StopWhileConnecting PROVE Spec => RestoreStable
  <1>1. TypeOK /\ SocketInv /\ [Next]_vars =>
            [(\E r \in Runs : run[r].at = "restoring") => UNCHANGED active]_vars
    BY RestoreStep
  <1> QED BY <1>1, TypeCorrect, SocketInvariant, PTL DEF Spec, RestoreStable

-----------------------------------------------------------------------------
(* A loop begins to receive only when it has seen its stop event unset.     *)

LEMMA RecvBegins ==
    ASSUME TypeOK, [Next]_vars, NEW r \in Runs, run[r].at # "recv", run'[r].at = "recv"
    PROVE  ~Ended(r) /\ ~Stopped
  <1> USE DEF stopVars, linkVars, netVars, regVars, pingVars
  <1>1. ASSUME NEW q \in Runs, NEW at, NEW k, run' = RunTo(q, at, k)
        PROVE  q = r /\ at = "recv"
    BY <1>1, RunToFields
  <1>2. ASSUME NEW q \in Runs, RunStep(q) PROVE ~Ended(r) /\ ~Stopped
    <2>1. CASE RunStart(q)
      <3>1. CASE Stopped BY <1>1, <2>1, <3>1 DEF RunStart
      <3>2. CASE ~Stopped BY <1>1, <2>1, <3>2 DEF RunStart, Receive, Ended
      <3> QED BY <3>1, <3>2
    <2>2. CASE RestoreDone(q)
      <3>1. CASE Stopped BY <1>1, <2>2, <3>1 DEF RestoreDone
      <3>2. CASE ~Stopped BY <1>1, <2>2, <3>2 DEF RestoreDone, Receive, Ended
      <3> QED BY <3>1, <3>2
    <2>3. CASE RunDisconnected(q)
      <3>1. run' = RunTo(q, "done", NoConn) \/ run' = RunTo(q, "connecting", NoConn)
        BY <2>3 DEF RunDisconnected
      <3> QED BY <1>1, <3>1
    <2>4. ASSUME NEW s \in Registered, RestoreSend(q, s) PROVE FALSE
      <3>1. run[q] \in RunTask BY DEF TypeOK
      <3> QED BY <2>4, <3>1 DEF RestoreSend, TypeOK, RunTask
    <2>5. CASE BackoffTimeout(q)
      <3>1. run' = RunTo(q, "done", NoConn) \/ run' = RunTo(q, "connecting", NoConn)
        BY <2>5 DEF BackoffTimeout
      <3> QED BY <1>1, <3>1
    <2>6. UNCHANGED run => FALSE OBVIOUS
    <2> QED BY <1>1, <1>2, <2>1, <2>2, <2>3, <2>4, <2>5, <2>6
          DEF RunStep, RunBreak, RunConnectFail, RunConnectOk, RestoreFail, RunShut,
              BackoffStopped, PingEnd, Deliver
  <1>3. CASE AppStep
    <2>1. ASSUME NEW q \in Runs, NEW k \in Conns, ConnectOk(q, k) PROVE FALSE
      <3>1. run' = [run EXCEPT ![q] = NewRun] BY <2>1 DEF ConnectOk
      <3> QED BY <3>1 DEF NewRun, TypeOK
    <2>2. StopReturns => FALSE
      <3>1. run[r] \in RunTask BY DEF TypeOK
      <3> QED BY <3>1 DEF StopReturns, Reaped, Moved, RunTask
    <2>3. UNCHANGED run => FALSE OBVIOUS
    <2> QED BY <1>3, <2>1, <2>2, <2>3
          DEF AppStep, ConnectBegin, ConnectFail, StopBegin, StopClose, StopEnd
  <1>4. UNCHANGED run => FALSE OBVIOUS
  <1>5. ASSUME NEW c \in Callers, CallStep(c) PROVE FALSE
    BY <1>4, <1>5, CallsKeepLinks
  <1> QED BY <1>2, <1>3, <1>4, <1>5
        DEF Next, NetStep, NetDrop, CloseDone, CallbackDone, vars

(* A message loop whose own stop event was set does not receive again, also *)
(* when a connect() meanwhile installed a new event                         *)
(* (async_ws.py:233, 267-271, 290-299).                                     *)
THEOREM StoppedLoopEnds ==
    ASSUME OneLoop, ~StopWhileConnecting PROVE Spec => StopEndsReconnect
  <1>1. TypeOK /\ SocketInv /\ [Next]_vars =>
            [\A r \in Runs : (run[r].at # "recv" /\ run'[r].at = "recv") =>
                                 run[r].born \notin eventSet]_vars
    BY RecvBegins DEF SocketInv, Links, Loops, LoopAt, Alive, Stopped
  <1> QED BY <1>1, TypeCorrect, SocketInvariant, PTL DEF Spec, StopEndsReconnect

-----------------------------------------------------------------------------
(* Ping tasks.  Nothing pings once the stop event is set, for stop()        *)
(* cancels the one task there is and no loop starts to receive any more.    *)

PingsStop == Stopped => pingLive = {}
PingInv   == PingOwned /\ PingsStop

(* No ping without a receiving loop, and only one loop. *)
LEMMA QuietLoop ==
    ASSUME TypeOK, SocketInv, PingInv, NEW r \in Runs, ~Ended(r),
           run[r].at # "recv"
    PROVE  pingLive = {} /\ \A q \in Runs : run[q].at # "recv"
  BY DEF SocketInv, Links, LoneLoop, Alive, Ended, PingInv, PingOwned, TypeOK

LEMMA PingRun ==
    ASSUME TypeOK, SocketInv, PingInv, NEW r \in Runs, RunStep(r) PROVE PingInv'
  <1> USE DEF stopVars, linkVars, netVars, regVars, pingVars
  <1>a. pingLive \subseteq Runs BY DEF TypeOK
  <1>1. ASSUME NEW at, NEW k, run' = RunTo(r, at, k)
        PROVE  run'[r].at = at /\ \A q \in Runs \ {r} : run'[q] = run[q]
    BY <1>1, RunToFields
  <1>2. ASSUME ~Ended(r), run[r].at # "recv", NEW at, NEW k, run' = RunTo(r, at, k),
               at # "recv", UNCHANGED pingVars
        PROVE  PingInv'
    BY <1>a, <1>1, <1>2, QuietLoop DEF PingInv, PingOwned, PingsStop
  <1>3. ASSUME ~Ended(r), run[r].at # "recv", Receive(r), ~Stopped'
        PROVE  PingInv'
    <2>1. pingLive' = {r} /\ pingRef' = r /\ run'[r].at = "recv"
      BY <1>1, <1>3, QuietLoop DEF Receive
    <2>2. \A q \in Runs : run'[q].at = "recv" => q = r
      BY <1>1, <1>3, QuietLoop DEF Receive
    <2> QED BY <1>3, <2>1, <2>2 DEF PingInv, PingOwned, PingsStop
  <1>4. ASSUME run[r].at = "recv", NEW at, NEW k, run' = RunTo(r, at, k),
               at # "recv", CleanupPing
        PROVE  PingInv'
    <2>1. \A q \in Runs \ {r} : Ended(q)
      BY <1>4 DEF SocketInv, Links, LoneLoop, Alive, Ended
    <2>2. \A q \in Runs : run'[q].at # "recv" BY <1>1, <1>4, <2>1 DEF Ended
    <2>3. pingLive' = {} BY <1>4 DEF CleanupPing, PingInv, PingOwned
    <2> QED BY <2>2, <2>3 DEF PingInv, PingOwned, PingsStop
  <1>5. CASE RunStart(r)
    <2>1. CASE Stopped BY <1>2, <1>5, <2>1 DEF RunStart, Ended
    <2>2. CASE ~Stopped BY <1>3, <1>5, <2>2 DEF RunStart, Ended, Stopped
    <2> QED BY <2>1, <2>2
  <1>6. CASE RestoreDone(r)
    <2>1. CASE Stopped BY <1>2, <1>6, <2>1 DEF RestoreDone, Ended
    <2>2. CASE ~Stopped BY <1>3, <1>6, <2>2 DEF RestoreDone, Ended, Stopped
    <2> QED BY <2>1, <2>2
  <1>7. CASE RunDisconnected(r)
    <2>1. CASE Stopped BY <1>4, <1>7, <2>1 DEF RunDisconnected
    <2>2. CASE ~Stopped BY <1>4, <1>7, <2>2 DEF RunDisconnected
    <2> QED BY <2>1, <2>2
  <1>8. CASE RunBreak(r) BY <1>4, <1>8 DEF RunBreak
  <1>9. CASE BackoffTimeout(r)
    <2>1. CASE Stopped BY <1>2, <1>9, <2>1 DEF BackoffTimeout, Ended
    <2>2. CASE ~Stopped BY <1>2, <1>9, <2>2 DEF BackoffTimeout, Ended
    <2> QED BY <2>1, <2>2
  <1>10. CASE RunConnectFail(r) \/ RestoreFail(r) \/ RunShut(r) \/ BackoffStopped(r)
    BY <1>2, <1>10 DEF RunConnectFail, RestoreFail, RunShut, BackoffStopped, Ended
  <1>11. ASSUME NEW k \in Conns, RunConnectOk(r, k) PROVE PingInv'
    BY <1>2, <1>11 DEF RunConnectOk, Ended
  <1>12. ASSUME NEW s \in Registered, RestoreSend(r, s) PROVE PingInv'
    <2>1. \A q \in Runs : run'[q].at = run[q].at /\ run'[q].conn = run[q].conn
      <3>1. run[r] \in RunTask BY DEF TypeOK
      <3> QED BY <1>12, <3>1 DEF RestoreSend, TypeOK, RunTask
    <2> QED BY <1>a, <1>12, <2>1 DEF RestoreSend, PingInv, PingOwned, PingsStop, Stopped
  <1>13. CASE PingEnd(r)
    <2>1. \A q \in Runs : run[q].at = "recv" => run[q].conn = ws /\ ws # NoConn
      BY DEF SocketInv, Links, Loops, LoopAt, Alive, Ended
    <2> QED BY <1>13, <2>1 DEF PingEnd, PingInv, PingOwned, PingsStop, Stopped
  <1>14. ASSUME NEW m \in Messages, Deliver(r, m) PROVE PingInv'
    BY <1>14 DEF Deliver, PingInv, PingOwned, PingsStop, Stopped
  <1> QED BY <1>5, <1>6, <1>7, <1>8, <1>9, <1>10, <1>11, <1>12, <1>13, <1>14
        DEF RunStep

LEMMA PingApp ==
    ASSUME TypeOK, SocketInv, PingInv, AppStep PROVE PingInv'
  <1> USE DEF linkVars, netVars, regVars, pingVars
  <1>a. pingLive \subseteq Runs BY DEF TypeOK
  <1>1. ASSUME Alive = {} PROVE pingLive = {} /\ \A q \in Runs : run[q].at # "recv"
    BY <1>a, <1>1 DEF Alive, Ended, PingInv, PingOwned
  <1>2. CASE ConnectBegin
    <2>1. Alive = {}
      BY <1>2, BoundsAssumption DEF ConnectBegin, SocketInv, Links, LoneLoop, TypeOK
    <2> QED BY <1>1, <1>2, <2>1 DEF ConnectBegin, PingInv, PingOwned, PingsStop
  <1>3. ASSUME NEW r \in Runs, NEW k \in Conns, ConnectOk(r, k) PROVE PingInv'
    <2>1. Alive = {} BY <1>3 DEF ConnectOk, SocketInv, Links, LoneLoop
    <2>2. \A q \in Runs : run'[q].at # "recv"
      BY <1>1, <1>3, <2>1 DEF ConnectOk, NewRun, TypeOK
    <2> QED BY <1>1, <1>3, <2>1, <2>2 DEF ConnectOk, PingInv, PingOwned, PingsStop
  <1>4. CASE ConnectFail
    BY <1>4 DEF ConnectFail, PingInv, PingOwned, PingsStop, Stopped
  <1>5. CASE StopBegin
    BY <1>5 DEF StopBegin, CleanupPing, PingInv, PingOwned, PingsStop, Stopped
  <1>6. CASE StopClose \/ StopEnd
    <2>1. Stopped BY <1>6 DEF StopClose, StopEnd, SocketInv, Links, Session
    <2>2. UNCHANGED <<event, eventSet, pingVars>> BY <1>6 DEF StopClose, StopEnd
    <2> QED BY <2>1, <2>2 DEF PingInv, PingOwned, PingsStop, Stopped
  <1> QED BY <1>2, <1>3, <1>4, <1>5, <1>6 DEF AppStep

LEMMA PingStep ==
    TypeOK /\ SocketInv /\ PingInv /\ [Next]_vars => PingInv'
  <1> SUFFICES ASSUME TypeOK, SocketInv, PingInv, [Next]_vars PROVE PingInv'
    OBVIOUS
  <1>a. \A r \in Runs : run[r].at = "recv" => run[r].conn \in Conns
    BY DEF SocketInv, Links, Loops, LoopAt, Alive, Ended, TypeOK
  <1>1. ASSUME UNCHANGED <<event, eventSet, run, pingRef, pingLive>>,
               \A k \in Conns : conn'[k] = "open" => conn[k] = "open"
        PROVE  PingInv'
    BY <1>a, <1>1 DEF PingInv, PingOwned, PingsStop, Stopped
  <1>2. CASE NetStep
    <2>1. PICK k \in Conns : NetDrop(k) \/ CloseDone(k) BY <1>2 DEF NetStep
    <2>2. /\ conn' = [conn EXCEPT ![k] = "closed"]
          /\ UNCHANGED <<event, eventSet, run, pingRef, pingLive>>
      BY <2>1 DEF NetDrop, CloseDone, stopVars, pingVars
    <2> QED BY <1>1, <2>2 DEF TypeOK
  <1>3. ASSUME NEW c \in Callers, CallStep(c) PROVE PingInv'
    <2>1. UNCHANGED <<event, eventSet, run, conn>> BY <1>3, CallsKeepLinks
    <2>2. UNCHANGED <<pingRef, pingLive>>
      BY <1>3 DEF CallStep, CallSub, CallUnsub, ParkedTimeout, SubSend, UnsubSend,
         SendWrite, SubDone, UnsubDone, SendFail, pingVars
    <2> QED BY <1>1, <2>1, <2>2
  <1>4. ASSUME NEW id \in cbTasks, CallbackDone(id) PROVE PingInv'
    BY <1>1, <1>4 DEF CallbackDone, stopVars, netVars, pingVars
  <1>5. CASE UNCHANGED vars BY <1>1, <1>5 DEF vars
  <1> QED BY <1>2, <1>3, <1>4, <1>5, PingRun, PingApp DEF Next

(* Each receiving loop with an open socket has its own ping task, which the *)
(* manager can cancel, and nothing else pings (async_ws.py:238-254).        *)
THEOREM PingsAreOwned ==
    ASSUME OneLoop, ~StopWhileConnecting PROVE Spec => []PingOwned
  <1>1. TypeOK /\ SocketInv /\ PingInv /\ [Next]_vars => PingInv' BY PingStep
  <1>2. Init => PingInv
    BY DEF Init, NoneRun, PingInv, PingOwned, PingsStop, Stopped
  <1>3. PingInv => PingOwned BY DEF PingInv
  <1> QED BY <1>1, <1>2, <1>3, TypeCorrect, SocketInvariant, PTL DEF Spec

-----------------------------------------------------------------------------
(* What the server serves, while the manager connects only once: then       *)
(* nothing is registered when the first socket opens, and every later one   *)
(* is opened by a loop, which restores.                                     *)

InLine ==
    \A c, d \in Callers : (Sends(c) /\ Sends(d) /\ c # d) =>
        c \in call[d].ahead \/ d \in call[c].ahead
WrittenFirst == \A c \in Callers : (Sends(c) /\ call[c].written) => call[c].ahead = {}
Queued       == InLine /\ WrittenFirst

(* Before the first socket. *)
Unconnected ==
    (event = 0 \/ connecting) =>
        ~wsReady /\ Registered = {} /\ \A c \in Callers : ~Sends(c)

WsOpen == ws # NoConn /\ conn[ws] = "open"
Writing(c, op) == Sends(c) /\ call[c].op = op /\ call[c].written
Covered(s) ==
    \/ s.chan \in server[ws]
    \/ \E c \in Callers : Writing(c, "unsub") /\ call[c].chan = s.chan

(* On an open socket: of a ready manager every registration is covered, of  *)
(* a restore under way every one it has sent, and a frame that was written  *)
(* is in force.                                                             *)
Served ==
    WsOpen =>
        /\ wsReady => \A s \in Registered : Covered(s)
        /\ \A r \in Runs : run[r].at = "restoring" =>
               \A s \in run[r].sent : s.chan \in server[ws]
        /\ \A c \in Callers : Writing(c, "sub") => call[c].chan \in server[ws]

ServedInv == Queued /\ Unconnected /\ Served

LEMMA OneWrites ==
    ASSUME Queued, NEW c \in Callers, Sends(c), call[c].ahead = {},
           NEW d \in Callers, d # c
    PROVE  ~(Sends(d) /\ call[d].written)
  BY DEF Queued, InLine, WrittenFirst

(* How the step of a caller changes its record and those of the others. *)
LEMMA ReleaseFields ==
    ASSUME TypeOK, NEW c \in Callers, call' = Release(c)
    PROVE  /\ ~Sends(c)'
           /\ \A d \in Callers \ {c} :
                 /\ call'[d].at = call[d].at /\ call'[d].op = call[d].op
                 /\ call'[d].chan = call[d].chan /\ call'[d].written = call[d].written
                 /\ call'[d].ahead = call[d].ahead \ {c}
  <1>1. ~Sends(c)' BY DEF Release, Sends, IdleCall
  <1>2. ASSUME NEW d \in Callers \ {c}
        PROVE  /\ call'[d].at = call[d].at /\ call'[d].op = call[d].op
               /\ call'[d].chan = call[d].chan /\ call'[d].written = call[d].written
               /\ call'[d].ahead = call[d].ahead \ {c}
    <2>1. CASE c \in call[d].ahead
      <3>1. call[d] \in BusyCall BY <2>1 DEF TypeOK, Call, IdleCall
      <3> QED BY <2>1, <3>1 DEF Release, BusyCall
    <2>2. CASE c \notin call[d].ahead BY <2>2 DEF Release
    <2> QED BY <2>1, <2>2
  <1> QED BY <1>1, <1>2

LEMMA StartSendFields ==
    ASSUME TypeOK, SendsOnWs, NEW c \in Callers, NEW id \in Nat,
           call[c].at = "parked", StartSend(c, id)
    PROVE  /\ Sends(c)' /\ call'[c].op = call[c].op /\ call'[c].chan = call[c].chan
           /\ call'[c].ahead = {d \in Callers : Sends(d)}
           /\ call'[c].written <=> conn[ws] = "open" /\ \A d \in Callers : ~Sends(d)
           /\ \A d \in Callers \ {c} : call'[d] = call[d]
           /\ server' = IF conn[ws] = "open" /\ \A d \in Callers : ~Sends(d)
                        THEN [server EXCEPT ![ws] = Frame(@, call[c].op, call[c].chan)]
                        ELSE server
  <1> DEFINE now == conn[ws] = "open" /\ Sending(ws) = {}
             sent == [call[c] EXCEPT !.at = "sending", !.id = id, !.conn = ws,
                                     !.ahead = Sending(ws), !.written = now]
  <1>1. call[c] \in BusyCall BY BusyCallType
  <1>2. Sending(ws) = {d \in Callers : Sends(d)} BY DEF Sending, Sends, SendsOnWs
  <1>3. now <=> conn[ws] = "open" /\ \A d \in Callers : ~Sends(d) BY <1>2
  <1>4. call' = [call EXCEPT ![c] = sent] BY DEF StartSend
  <1>5. call'[c] = sent /\ \A d \in Callers \ {c} : call'[d] = call[d]
    <2> HIDE DEF sent
    <2> QED BY <1>4 DEF TypeOK
  <1>6. /\ sent.at = "sending" /\ sent.op = call[c].op /\ sent.chan = call[c].chan
        /\ sent.ahead = Sending(ws)
    BY <1>1 DEF BusyCall
  <1>7. sent.written = now BY <1>1 DEF BusyCall
  <1>8. server' = IF now
                  THEN [server EXCEPT ![ws] = Frame(@, call[c].op, call[c].chan)]
                  ELSE server
    BY DEF StartSend
  <1> HIDE DEF sent, now
  <1> QED BY <1>2, <1>3, <1>5, <1>6, <1>7, <1>8 DEF Sends

LEMMA SendWriteFields ==
    ASSUME TypeOK, NEW c \in Callers, SendWrite(c)
    PROVE  /\ call'[c].at = call[c].at /\ call'[c].op = call[c].op
           /\ call'[c].chan = call[c].chan /\ call'[c].ahead = call[c].ahead
           /\ call'[c].written
           /\ \A d \in Callers \ {c} : call'[d] = call[d]
  <1>1. call[c] \in BusyCall BY BusyCallType DEF SendWrite
  <1> QED BY <1>1 DEF SendWrite, TypeOK, BusyCall

(* Calls that begin, time out or are refused send nothing. *)
LEMMA SilentFields ==
    ASSUME TypeOK, NEW c \in Callers,
           \/ \E chan \in Channels : CallSub(c, chan)
           \/ \E s \in held : CallUnsub(c, s)
           \/ ParkedTimeout(c)
           \/ call[c].at = "parked" /\ call' = [call EXCEPT ![c] = IdleCall]
    PROVE  ~Sends(c) /\ ~Sends(c)' /\ \A d \in Callers \ {c} : call'[d] = call[d]
  <1>0. call \in [Callers -> Call] BY DEF TypeOK
  <1>1. ASSUME NEW chan \in Channels, CallSub(c, chan)
        PROVE  call[c].at = "idle" /\ call'[c].at = "parked"
               /\ \A d \in Callers \ {c} : call'[d] = call[d]
    BY <1>0, <1>1 DEF CallSub, IdleCall
  <1>2. ASSUME NEW s \in held, CallUnsub(c, s)
        PROVE  call[c].at = "idle" /\ call'[c].at = "parked"
               /\ \A d \in Callers \ {c} : call'[d] = call[d]
    BY <1>0, <1>2 DEF CallUnsub, IdleCall
  <1>3. CASE call[c].at = "parked" /\ call' = [call EXCEPT ![c] = IdleCall]
    BY <1>0, <1>3 DEF Sends, IdleCall
  <1>4. CASE ParkedTimeout(c)
    BY <1>3, <1>4 DEF ParkedTimeout
  <1> QED BY <1>1, <1>2, <1>3, <1>4 DEF Sends

(* The ways a caller's step can go. *)
LEMMA CallWays ==
    ASSUME TypeOK, SendsOnWs, NEW c \in Callers, CallStep(c)
    PROVE  \/ /\ ~Sends(c) /\ ~Sends(c)' /\ \A d \in Callers \ {c} : call'[d] = call[d]
              /\ UNCHANGED server
              /\ UNCHANGED active \/ (UnsubSend(c) /\ wsReady)
           \/ \E id \in Nat : /\ StartSend(c, id) /\ call[c].at = "parked" /\ wsReady
                              /\ UNCHANGED active
           \/ SendWrite(c) \/ SubDone(c) \/ UnsubDone(c) \/ SendFail(c)
  <1> USE DEF netVars
  <1>1. CASE (\E chan \in Channels : CallSub(c, chan)) \/ (\E s \in held : CallUnsub(c, s))
             \/ ParkedTimeout(c)
    BY <1>1, SilentFields DEF CallSub, CallUnsub, ParkedTimeout
  <1>2. CASE SubSend(c)
    <2>1. NextId \in Nat BY DEF NextId, TypeOK
    <2> QED BY <1>2, <2>1, SilentFields DEF SubSend, Gate
  <1>3. CASE UnsubSend(c)
    <2>1. call[c].id \in Nat BY <1>3, BusyCallType DEF UnsubSend, BusyCall
    <2> QED BY <1>3, <2>1, SilentFields DEF UnsubSend, Gate
  <1> QED BY <1>1, <1>2, <1>3 DEF CallStep

LEMMA QueuedStep ==
    TypeOK /\ SocketInv /\ Queued /\ [Next]_vars => Queued'
  <1> SUFFICES ASSUME TypeOK, SocketInv, Queued, [Next]_vars PROVE Queued'
    OBVIOUS
  <1>a. SendsOnWs BY DEF SocketInv, Links
  <1>b. ASSUME UNCHANGED call PROVE Queued'
    BY <1>b DEF Queued, InLine, WrittenFirst, Sends
  <1>1. ASSUME NEW c \in Callers, CallStep(c) PROVE Queued'
    <2> USE DEF Queued, InLine, WrittenFirst
    <2>1. CASE ~Sends(c) /\ ~Sends(c)' /\ \A d \in Callers \ {c} : call'[d] = call[d]
      BY <2>1 DEF Sends
    <2>2. ASSUME NEW id \in Nat, StartSend(c, id), call[c].at = "parked"
          PROVE  Queued'
      <3>1. /\ Sends(c)'
            /\ call'[c].ahead = {d \in Callers : Sends(d)}
            /\ call'[c].written <=> conn[ws] = "open" /\ \A d \in Callers : ~Sends(d)
            /\ \A d \in Callers \ {c} : call'[d] = call[d]
        BY <1>a, <2>2, StartSendFields
      <3>2. \A d \in Callers \ {c} : Sends(d)' = Sends(d) BY <3>1 DEF Sends
      <3> QED BY <3>1, <3>2
    <2>3. CASE SendWrite(c)
      BY <2>3, SendWriteFields DEF SendWrite, Sends
    <2>4. CASE call' = Release(c)
      BY <2>4, ReleaseFields DEF Sends
    <2> QED BY <1>1, <1>a, <2>1, <2>2, <2>3, <2>4, CallWays
          DEF SubDone, UnsubDone, SendFail
  <1>2. CASE \A c \in Callers : ~CallStep(c)
    BY <1>2, <1>b, OthersKeepRegistry DEF regVars
  <1> QED BY <1>1, <1>2

(* Only connect() and a restore that is over make the manager ready. *)
LEMMA ReadyBegins ==
    ASSUME [Next]_vars, ~wsReady, wsReady'
    PROVE  \/ \E r \in Runs, k \in Conns : ConnectOk(r, k)
           \/ \E r \in Runs : RestoreDone(r)
  <1>1. ASSUME NEW r \in Runs, RunStep(r) PROVE RestoreDone(r)
    BY <1>1 DEF RunStep, RunStart, RunDisconnected, RunBreak, RunConnectFail,
       RestoreFail, RunShut, BackoffStopped, BackoffTimeout, PingEnd,
       RunConnectOk, RestoreSend, Deliver, linkVars
  <1>2. AppStep => \E r \in Runs, k \in Conns : ConnectOk(r, k)
    BY DEF AppStep, ConnectBegin, ConnectFail, StopBegin, StopClose, StopEnd,
       StopReturns, linkVars
  <1>3. ASSUME NEW c \in Callers, CallStep(c) PROVE FALSE
    BY <1>3, CallsKeepLinks
  <1> QED BY <1>1, <1>2, <1>3
        DEF Next, NetStep, NetDrop, CloseDone, CallbackDone, vars, linkVars

LEMMA UnconnectedStep ==
    ASSUME MaxGen <= 1
    PROVE  TypeOK /\ SocketInv /\ Unconnected /\ [Next]_vars => Unconnected'
  <1> SUFFICES ASSUME TypeOK, SocketInv, Unconnected, [Next]_vars,
                      event' = 0 \/ connecting'
               PROVE  ~wsReady' /\ Registered' = {} /\ \A c \in Callers : ~Sends(c)'
    BY DEF Unconnected
  <1> USE DEF stopVars, linkVars, netVars, regVars
  <1>a. event \in Nat /\ MaxGen \in Nat BY BoundsAssumption DEF TypeOK
  <1>1. event = 0 \/ connecting
    <2>1. ASSUME NEW r \in Runs, RunStep(r) PROVE UNCHANGED <<event, connecting>>
      BY <2>1 DEF RunStep, RunStart, RunDisconnected, RunBreak, RunConnectFail,
         RestoreFail, RestoreDone, RunShut, BackoffStopped, BackoffTimeout, PingEnd,
         RunConnectOk, RestoreSend, Deliver
    <2>2. ASSUME NEW c \in Callers, CallStep(c) PROVE UNCHANGED <<event, connecting>>
      BY <2>2, CallsKeepLinks
    <2>3. AppStep => (event = 0 \/ connecting)
      BY <1>a DEF AppStep, ConnectBegin, ConnectFail, ConnectOk, StopBegin, StopClose,
         StopEnd
    <2> QED BY <2>1, <2>2, <2>3 DEF Next, NetStep, NetDrop, CloseDone, CallbackDone, vars
  <1>2. ~wsReady /\ Registered = {} /\ \A c \in Callers : ~Sends(c)
    BY <1>1 DEF Unconnected
  <1>3. ~wsReady'
    <2>1. ASSUME NEW r \in Runs, NEW k \in Conns, ConnectOk(r, k) PROVE FALSE
      <3>1. connecting /\ ~connecting' /\ UNCHANGED event BY <2>1 DEF ConnectOk
      <3> QED BY <1>a, <3>1 DEF SocketInv, Links, Session
    <2>2. ASSUME NEW r \in Runs, RestoreDone(r) PROVE FALSE
      <3>1. r \in Alive BY <2>2 DEF RestoreDone, Alive, Ended
      <3> QED BY <1>1, <1>a, <3>1 DEF SocketInv, Links, Session, LoneLoop
    <2> QED BY <1>2, <2>1, <2>2, ReadyBegins
  <1>4. ASSUME NEW c \in Callers, CallStep(c)
        PROVE  UNCHANGED active /\ \A d \in Callers : ~Sends(d)'
    <2>1. SendsOnWs BY DEF SocketInv, Links
    <2>2. \/ /\ ~Sends(c)' /\ \A d \in Callers \ {c} : call'[d] = call[d]
             /\ UNCHANGED active
      BY <1>2, <1>4, <2>1, CallWays DEF SendWrite, SubDone, UnsubDone, SendFail, Sends
    <2> QED BY <1>2, <2>2 DEF Sends
  <1>5. CASE \A c \in Callers : ~CallStep(c)
    <2>1. UNCHANGED <<active, call>> BY <1>5, OthersKeepRegistry
    <2> QED BY <1>2, <1>3, <2>1 DEF Registered, Sends
  <1> QED BY <1>2, <1>3, <1>4, <1>5 DEF Registered

(* Steps that neither open a socket nor write a frame. *)
LEMMA ServedKept ==
    ASSUME Served, UNCHANGED <<active, call, ws>>,
           WsOpen' => WsOpen /\ server'[ws] = server[ws],
           wsReady' => wsReady,
           \A r \in Runs : run'[r].at = "restoring" =>
               run[r].at = "restoring" /\ run'[r].sent = run[r].sent
    PROVE  Served'
  BY DEF Served, Covered, Writing, Sends, Registered

LEMMA ServedNet ==
    ASSUME TypeOK, Served, NetStep PROVE Served'
  <1>1. PICK k \in Conns : NetDrop(k) \/ CloseDone(k) BY DEF NetStep
  <1>2. /\ conn' = [conn EXCEPT ![k] = "closed"]
        /\ server' = [server EXCEPT ![k] = {}]
        /\ UNCHANGED <<wsReady, ws, run, active, call>>
    BY <1>1 DEF NetDrop, CloseDone, linkVars, regVars
  <1>3. WsOpen' => WsOpen /\ server'[ws] = server[ws]
    BY <1>2 DEF WsOpen, TypeOK
  <1> QED BY <1>2, <1>3, ServedKept

LEMMA ServedApp ==
    ASSUME TypeOK, SocketInv, Unconnected, Served, AppStep PROVE Served'
  <1> USE DEF linkVars, netVars, regVars
  <1>1. ASSUME NEW r \in Runs, NEW k \in Conns, ConnectOk(r, k) PROVE Served'
    <2>1. Registered = {} /\ \A c \in Callers : ~Sends(c)
      BY <1>1 DEF ConnectOk, Unconnected
    <2>2. UNCHANGED <<active, call>> BY <1>1 DEF ConnectOk
    <2>3. \A q \in Runs : run'[q].at # "restoring"
      <3>1. Alive = {} BY <1>1 DEF ConnectOk, SocketInv, Links, LoneLoop
      <3> QED BY <1>1, <3>1 DEF ConnectOk, NewRun, Alive, Ended, TypeOK
    <2> QED BY <2>1, <2>2, <2>3 DEF Served, Registered, Writing, Sends
  <1>2. CASE ConnectBegin \/ ConnectFail \/ StopBegin
    BY <1>2, ServedKept DEF ConnectBegin, ConnectFail, StopBegin, WsOpen
  <1>3. CASE StopClose \/ StopEnd
    <2>1. UNCHANGED <<active, call, ws, server>> BY <1>3 DEF StopClose, StopEnd
    <2>2. wsReady' => wsReady BY <1>3 DEF StopClose, StopEnd, StopReturns
    <2>3. WsOpen' => WsOpen
      BY <1>3 DEF StopClose, StopEnd, Closing, WsOpen, TypeOK
    <2>4. \A r \in Runs : run'[r] = run[r] \/ run'[r].at = "done"
      <3>1. run' = run \/ run' = Reaped BY <1>3 DEF StopClose, StopEnd, StopReturns
      <3>2. ASSUME NEW r \in Runs PROVE Reaped[r] = run[r] \/ Reaped[r].at = "done"
        <4>1. run[r] \in RunTask BY DEF TypeOK
        <4>2. Moved(run[r], "done", NoConn).at = "done" BY <4>1 DEF Moved, RunTask
        <4> QED BY <4>2 DEF Reaped
      <3> QED BY <3>1, <3>2
    <2> QED BY <2>1, <2>2, <2>3, <2>4, ServedKept
  <1> QED BY <1>1, <1>2, <1>3 DEF AppStep

LEMMA ServedRun ==
    ASSUME TypeOK, SocketInv, Served, NEW r \in Runs, RunStep(r) PROVE Served'
  <1> USE DEF linkVars, netVars, regVars
  <1>1. ASSUME NEW at, NEW k, run' = RunTo(r, at, k)
        PROVE  /\ run'[r].at = at /\ run'[r].sent = {}
               /\ \A q \in Runs \ {r} : run'[q] = run[q]
    BY <1>1, RunToFields
  <1>2. ASSUME NEW at, NEW k, run' = RunTo(r, at, k), at # "restoring",
               UNCHANGED <<active, call, ws, conn, server>>, wsReady' => wsReady
        PROVE  Served'
    BY <1>1, <1>2, ServedKept DEF WsOpen
  <1>3. ASSUME run[r].at = "restoring"
        PROVE  /\ ~wsReady /\ ws \in Conns /\ ws # NoConn
               /\ \A c \in Callers : ~Sends(c)
               /\ \A q \in Runs \ {r} : run[q].at # "restoring"
    BY <1>3 DEF SocketInv, Links, LoneLoop, Loops, LoopAt, Alive, Ended, TypeOK
  <1>4. CASE RunStart(r)
    <2>1. CASE Stopped BY <1>2, <1>4, <2>1 DEF RunStart
    <2>2. CASE ~Stopped BY <1>2, <1>4, <2>2 DEF RunStart, Receive
    <2> QED BY <2>1, <2>2
  <1>5. CASE RunDisconnected(r)
    <2>1. CASE Stopped BY <1>2, <1>5, <2>1 DEF RunDisconnected
    <2>2. CASE ~Stopped BY <1>2, <1>5, <2>2 DEF RunDisconnected
    <2> QED BY <2>1, <2>2
  <1>6. CASE BackoffTimeout(r)
    <2>1. CASE Stopped BY <1>2, <1>6, <2>1 DEF BackoffTimeout
    <2>2. CASE ~Stopped BY <1>2, <1>6, <2>2 DEF BackoffTimeout
    <2> QED BY <2>1, <2>2
  <1>7. CASE RunBreak(r) \/ RunConnectFail(r) \/ RestoreFail(r) \/ RunShut(r)
             \/ BackoffStopped(r)
    BY <1>2, <1>7 DEF RunBreak, RunConnectFail, RestoreFail, RunShut, BackoffStopped
  <1>8. CASE PingEnd(r) \/ \E m \in Messages : Deliver(r, m)
    BY <1>8, ServedKept DEF PingEnd, Deliver, WsOpen
  <1>9. ASSUME NEW k \in Conns, RunConnectOk(r, k) PROVE Served'
    <2>1. r \in Alive BY <1>9 DEF RunConnectOk, Alive, Ended
    <2>2. Lost /\ ~wsReady /\ \A q \in Runs \ {r} : Ended(q)
      BY <1>9, <2>1 DEF RunConnectOk, SocketInv, Links, Loops, LoopAt, LoneLoop, Alive
    <2>3. \A c \in Callers : ~Sends(c)
      BY <1>9, <2>2, OpenReplaces DEF RunConnectOk, SocketInv
    <2>4. ~wsReady' /\ UNCHANGED call BY <1>9, <2>2 DEF RunConnectOk
    <2>5. \A q \in Runs : run'[q].at = "restoring" => run'[q].sent = {}
      BY <1>1, <1>9, <2>2 DEF RunConnectOk, Ended
    <2> QED BY <2>3, <2>4, <2>5 DEF Served, Writing, Sends
  <1>10. ASSUME NEW s \in Registered, RestoreSend(r, s) PROVE Served'
    <2>1. run[r].at = "restoring" /\ UNCHANGED <<call, ws, conn, wsReady>>
      BY <1>10 DEF RestoreSend
    <2>2. server'[ws] = server[ws] \cup {s.chan}
      BY <1>3, <1>10, <2>1 DEF RestoreSend, TypeOK
    <2>3. /\ run'[r].sent = run[r].sent \cup {s}
          /\ \A q \in Runs \ {r} : run'[q] = run[q]
      <3>1. run[r] \in RunTask BY DEF TypeOK
      <3> QED BY <1>10, <3>1 DEF RestoreSend, TypeOK, RunTask
    <2> QED BY <1>3, <2>1, <2>2, <2>3 DEF Served, Writing, Sends, WsOpen
  <1>11. CASE RestoreDone(r)
    <2>1. run[r].at = "restoring" /\ Registered \subseteq run[r].sent
          /\ UNCHANGED <<active, call, ws, server>>
      BY <1>11 DEF RestoreDone, Restored
    <2>2. CASE Stopped
      <3>1. ~WsOpen' BY <1>3, <1>11, <2>1, <2>2 DEF RestoreDone, Closing, WsOpen, TypeOK
      <3> QED BY <3>1 DEF Served
    <2>3. CASE ~Stopped
      <3>1. run' = RunTo(r, "recv", ws) /\ UNCHANGED conn
        BY <1>11, <2>3 DEF RestoreDone, Receive
      <3>2. \A q \in Runs : run'[q].at # "restoring" BY <1>1, <1>3, <2>1, <3>1
      <3>3. WsOpen' => \A s \in Registered' : s.chan \in server'[ws']
        BY <2>1, <3>1 DEF Served, WsOpen, Registered
      <3> QED BY <1>3, <2>1, <3>2, <3>3 DEF Served, Covered, Writing, Sends
    <2> QED BY <2>2, <2>3
  <1> QED BY <1>4, <1>5, <1>6, <1>7, <1>8, <1>9, <1>10, <1>11 DEF RunStep

LEMMA ServedCall ==
    ASSUME TypeOK, SocketInv, Placed, Queued, Served, NEW c \in Callers, CallStep(c)
    PROVE  Served'
  <1>a. UNCHANGED <<ws, wsReady, run, conn>> BY CallsKeepLinks
  <1>b. SendsOnWs BY DEF SocketInv, Links
  <1> SUFFICES ASSUME WsOpen
               PROVE  /\ wsReady => \A s \in Registered' : Covered(s)'
                      /\ \A r \in Runs : run[r].at = "restoring" =>
                             \A s \in run[r].sent : s.chan \in server'[ws]
                      /\ \A d \in Callers : Writing(d, "sub")' =>
                             call'[d].chan \in server'[ws]
    BY <1>a DEF Served, WsOpen
  <1>c. ws \in Conns /\ conn[ws] = "open" BY DEF WsOpen, TypeOK
  <1>d. (wsReady \/ \E d \in Callers : Sends(d)) =>
            \A r \in Runs : run[r].at # "restoring"
    BY DEF SocketInv, Links, Loops, LoopAt, Alive, Ended
  <1>e. wsReady => \A s \in Registered : Covered(s) BY DEF Served
  <1>f. \A d \in Callers : Writing(d, "sub") => call[d].chan \in server[ws]
    BY DEF Served
  <1>g. \A r \in Runs : run[r].at = "restoring" =>
            \A s \in run[r].sent : s.chan \in server[ws]
    BY DEF Served
  <1>1. CASE /\ ~Sends(c) /\ ~Sends(c)' /\ \A d \in Callers \ {c} : call'[d] = call[d]
             /\ UNCHANGED server
             /\ UNCHANGED active \/ (UnsubSend(c) /\ wsReady)
    <2>1. Registered' \subseteq Registered
      <3>1. CASE UNCHANGED active BY <3>1 DEF Registered
      <3>2. CASE UnsubSend(c)
        BY <3>2 DEF UnsubSend, Without, Registered, TypeOK
      <3> QED BY <1>1, <3>1, <3>2
    <2>2. \A d \in Callers, op \in {"sub", "unsub"} :
              Writing(d, op)' <=> Writing(d, op) /\ d # c
      BY <1>1 DEF Writing, Sends
    <2>3. \A d \in Callers : Writing(d, "unsub") => d # c BY <1>1 DEF Writing
    <2> QED BY <1>1, <1>a, <1>e, <1>f, <1>g, <2>1, <2>2, <2>3 DEF Covered
  <1>2. ASSUME NEW id \in Nat, StartSend(c, id), call[c].at = "parked", wsReady,
               UNCHANGED active
        PROVE  /\ wsReady => \A s \in Registered' : Covered(s)'
               /\ \A r \in Runs : run[r].at = "restoring" =>
                      \A s \in run[r].sent : s.chan \in server'[ws]
               /\ \A d \in Callers : Writing(d, "sub")' =>
                      call'[d].chan \in server'[ws]
    <2>1. /\ Sends(c)' /\ call'[c].op = call[c].op /\ call'[c].chan = call[c].chan
          /\ call'[c].written <=> \A d \in Callers : ~Sends(d)
          /\ \A d \in Callers \ {c} : call'[d] = call[d]
          /\ server' = IF \A d \in Callers : ~Sends(d)
                       THEN [server EXCEPT ![ws] = Frame(@, call[c].op, call[c].chan)]
                       ELSE server
      BY <1>2, <1>b, <1>c, StartSendFields
    <2>2. ~Sends(c) BY <1>2 DEF Sends
    <2>3. Registered' = Registered BY <1>2 DEF Registered
    <2>4. CASE \A d \in Callers : ~Sends(d)
      <3>1. server'[ws] = Frame(server[ws], call[c].op, call[c].chan)
        BY <1>c, <2>1, <2>4 DEF TypeOK
      <3>2. \A s \in Registered : s.chan \in server[ws]
        BY <1>2, <1>e, <2>4 DEF Covered, Writing
      <3>3. \A d \in Callers, op \in {"sub", "unsub"} : Writing(d, op)' => d = c
        BY <2>1, <2>4 DEF Writing, Sends
      <3>4. call[c].op \in {"sub", "unsub"}
        BY <1>2, BusyCallType DEF BusyCall
      <3>5. CASE call[c].op = "sub"
        BY <1>2, <1>a, <1>d, <2>1, <2>3, <3>1, <3>2, <3>3, <3>5 DEF Frame, Covered
      <3>6. CASE call[c].op = "unsub"
        <4>1. Writing(c, "unsub")' /\ ~Writing(c, "sub")' BY <2>1, <2>4, <3>6 DEF Writing
        <4>2. \A s \in Registered' : Covered(s)'
          BY <1>a, <2>1, <2>3, <3>1, <3>2, <3>6, <4>1 DEF Frame, Covered
        <4> QED BY <1>2, <1>d, <3>3, <4>1, <4>2
      <3> QED BY <3>4, <3>5, <3>6
    <2>5. CASE \E d \in Callers : Sends(d)
      <3>1. UNCHANGED server /\ ~call'[c].written BY <2>1, <2>5
      <3>2. \A d \in Callers, op \in {"sub", "unsub"} :
                Writing(d, op)' <=> Writing(d, op) /\ d # c
        BY <2>1, <2>2, <3>1 DEF Writing, Sends
      <3>3. \A d \in Callers, op \in {"sub", "unsub"} : Writing(d, op) => d # c
        BY <2>2 DEF Writing
      <3> QED BY <1>a, <1>e, <1>f, <1>g, <2>1, <2>3, <3>1, <3>2, <3>3 DEF Covered
    <2> QED BY <2>4, <2>5
  <1>3. ASSUME SendWrite(c)
        PROVE  /\ wsReady => \A s \in Registered' : Covered(s)'
               /\ \A r \in Runs : run[r].at = "restoring" =>
                      \A s \in run[r].sent : s.chan \in server'[ws]
               /\ \A d \in Callers : Writing(d, "sub")' =>
                      call'[d].chan \in server'[ws]
    <2>1. /\ Sends(c) /\ call[c].ahead = {} /\ ~call[c].written /\ UNCHANGED active
      BY <1>3 DEF SendWrite, Sends
    <2>2. server'[ws] = Frame(server[ws], call[c].op, call[c].chan)
      BY <1>3, <1>b, <1>c, <2>1 DEF SendWrite, SendsOnWs, TypeOK
    <2>3. \A d \in Callers \ {c} : ~(Sends(d) /\ call[d].written)
      BY <2>1, OneWrites
    <2>4. wsReady => \A s \in Registered : s.chan \in server[ws]
      BY <1>e, <2>1, <2>3 DEF Covered, Writing
    <2>5. /\ call'[c].op = call[c].op /\ call'[c].chan = call[c].chan
          /\ call'[c].written /\ Sends(c)'
          /\ \A d \in Callers \ {c} : call'[d] = call[d]
      BY <1>3, <2>1, SendWriteFields DEF Sends
    <2>6. \A d \in Callers, op \in {"sub", "unsub"} : Writing(d, op)' => d = c
      BY <2>3, <2>5 DEF Writing, Sends
    <2>7. Registered' = Registered BY <2>1 DEF Registered
    <2>8. call[c].op \in {"sub", "unsub"}
      BY <2>1, BusyCallType DEF BusyCall, Sends
    <2>9. CASE call[c].op = "sub"
      BY <1>a, <1>d, <2>1, <2>2, <2>4, <2>5, <2>6, <2>7, <2>9 DEF Frame, Covered
    <2>10. CASE call[c].op = "unsub"
      <3>1. Writing(c, "unsub")' /\ ~Writing(c, "sub")' BY <2>5, <2>10 DEF Writing
      <3>2. wsReady => \A s \in Registered' : Covered(s)'
        BY <1>a, <2>2, <2>4, <2>5, <2>7, <2>10, <3>1 DEF Frame, Covered
      <3> QED BY <1>d, <2>1, <2>6, <3>1, <3>2
    <2> QED BY <2>8, <2>9, <2>10
  <1>4. ASSUME SubDone(c) \/ UnsubDone(c)
        PROVE  /\ wsReady => \A s \in Registered' : Covered(s)'
               /\ \A r \in Runs : run[r].at = "restoring" =>
                      \A s \in run[r].sent : s.chan \in server'[ws]
               /\ \A d \in Callers : Writing(d, "sub")' =>
                      call'[d].chan \in server'[ws]
    <2>1. Sends(c) /\ call[c].written /\ UNCHANGED server /\ call' = Release(c)
      BY <1>4 DEF SubDone, UnsubDone, Sends, netVars
    <2>2. call[c].ahead = {} BY <2>1 DEF Queued, WrittenFirst
    <2>3. \A d \in Callers \ {c} : ~(Sends(d) /\ call[d].written)
      BY <2>1, <2>2, OneWrites
    <2>4. \A d \in Callers, op \in {"sub", "unsub"} : ~Writing(d, op)'
      BY <2>1, <2>3, ReleaseFields DEF Writing, Sends
    <2>5. call[c] \in BusyCall /\ Ident(c) \in Identifiers
      BY <2>1, CallIdent DEF Sends, InCall
    <2>6. CASE SubDone(c)
      <3>1. Registered' \subseteq Registered \cup {Own(c)}
        BY <2>5, <2>6 DEF SubDone, Registered, Own, Ident, TypeOK
      <3>2. Writing(c, "sub") BY <2>1, <2>6 DEF Writing, SubDone
      <3>3. Own(c).chan \in server[ws] BY <1>f, <3>2 DEF Own
      <3>4. \A d \in Callers : ~Writing(d, "unsub") BY <2>3, <2>6 DEF Writing, SubDone
      <3>5. wsReady => \A s \in Registered' : s.chan \in server[ws]
        BY <1>e, <3>1, <3>3, <3>4 DEF Covered
      <3> QED BY <1>a, <1>g, <2>1, <2>4, <3>5 DEF Covered
    <2>7. CASE UnsubDone(c)
      <3>1. ASSUME wsReady, NEW s \in Registered' PROVE s.chan \in server[ws]
        <4>1. PICK i \in Identifiers : s \in active'[i] BY DEF Registered
        <4>2. i # Ident(c) /\ s \in active[i]
          BY <2>5, <2>7, <4>1 DEF UnsubDone, Ident, TypeOK
        <4>3. IdentOf[s.chan] = i /\ s \in Registered
          BY <4>2 DEF Placed, Registered
        <4>4. s.chan # call[c].chan BY <4>2, <4>3 DEF Ident
        <4>5. \A d \in Callers : Writing(d, "unsub") => d = c BY <2>3 DEF Writing
        <4> QED BY <1>e, <3>1, <4>3, <4>4, <4>5 DEF Covered
      <3> QED BY <1>a, <1>g, <2>1, <2>4, <3>1 DEF Covered
    <2> QED BY <1>4, <2>6, <2>7
  <1>5. ASSUME SendFail(c) PROVE FALSE
    BY <1>5, <1>b, <1>c DEF SendFail, SendsOnWs, Sends
  <1> QED BY <1>1, <1>2, <1>3, <1>4, <1>5, <1>b, CallWays

LEMMA ServedStep ==
    ASSUME MaxGen <= 1
    PROVE  TypeOK /\ SocketInv /\ Placed /\ ServedInv /\ [Next]_vars => ServedInv'
  <1> SUFFICES ASSUME TypeOK, SocketInv, Placed, ServedInv, [Next]_vars
               PROVE  ServedInv'
    OBVIOUS
  <1>1. Queued' BY QueuedStep DEF ServedInv
  <1>2. Unconnected' BY UnconnectedStep DEF ServedInv
  <1>3. Served'
    <2> USE DEF ServedInv
    <2>1. ASSUME NEW c \in Callers, CallStep(c) PROVE Served' BY <2>1, ServedCall
    <2>2. ASSUME NEW r \in Runs, RunStep(r) PROVE Served' BY <2>2, ServedRun
    <2>3. CASE NetStep BY <2>3, ServedNet
    <2>4. CASE AppStep BY <2>4, ServedApp
    <2>5. CASE UNCHANGED <<wsReady, ws, run, conn, server, active, call>>
      BY <2>5, ServedKept DEF WsOpen
    <2> QED BY <2>1, <2>2, <2>3, <2>4, <2>5
          DEF Next, CallbackDone, linkVars, netVars, regVars, vars
  <1> QED BY <1>1, <1>2, <1>3 DEF ServedInv

(* Of a manager that connects once: while it is ready and its socket is     *)
(* open, the server serves every registration, after any number of drops,   *)
(* restores, failed sends and calls that overtake each other                *)
(* (async_ws.py:303-326, 545-565, 602-615).                                 *)
THEOREM ReadyServesRegistered ==
    ASSUME MaxGen <= 1, ~StopWhileConnecting PROVE Spec => []RegisteredIsServed
  <1>1. OneLoop BY DEF OneLoop
  <1>2. Spec => []SocketInv BY <1>1, SocketInvariant
  <1>3. TypeOK /\ SocketInv /\ Placed /\ ServedInv /\ [Next]_vars => ServedInv'
    BY ServedStep
  <1>4. Init => ServedInv
    BY DEF Init, ServedInv, Queued, InLine, WrittenFirst, Unconnected, Served, WsOpen,
       Sends, IdleCall, Registered
  <1>5. SocketInv /\ ServedInv => RegisteredIsServed
    BY DEF SocketInv, Links, SendsOnWs, ServedInv, Served, WsOpen, Covered, Writing,
       RegisteredIsServed, Sending, Sends
  <1> QED BY <1>2, <1>3, <1>4, <1>5, TypeCorrect, PlacedInvariant, PTL DEF Spec
=============================================================================
