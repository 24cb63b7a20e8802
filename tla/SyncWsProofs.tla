---------------------------- MODULE SyncWsProofs ----------------------------
(***************************************************************************)
(* The threaded manager.  As long as the application has one call at a     *)
(* time in flight on an identifier, its registry is the one                *)
(* SubscriptionRegistry promises, what the application holds is registered *)
(* and an open connection that has been restored serves what is registered.*)
(***************************************************************************)
EXTENDS SyncWs, TLAPS

Ident(c)   == IdentOf[call[c].chan]
InCall(c)  == call[c].at # "idle"
Unsubs(c)  == InCall(c) /\ call[c].op = "unsub"
Appends(c) == call[c].at = "appending"
SendsSub(c) == call[c].at = "sending" /\ call[c].op = "sub"

-----------------------------------------------------------------------------
(* The inductive invariant.  Two steps lie between the check of subscribe() *)
(* and its registration, and two between the list unsubscribe() computes    *)
(* and the one it stores: what was read at the first is still true at the   *)
(* second, since the identifier is the caller's own until it returns.       *)

Placed ==
    \A i \in Identifiers : \A s \in active[i] : IdentOf[s.chan] = i
UniqueIds ==
    \A i, j \in Identifiers : \A s \in active[i], t \in active[j] :
        s.id = t.id => s = t
IdsIssued ==
    /\ \A i \in Identifiers : \A s \in active[i] : s.id <= counter
    /\ \A c \in Callers : Appends(c) => call[c].id <= counter
HeldPlaced == \A s \in held : s \in active[IdentOf[s.chan]]
Exclusive ==
    \A c, d \in Callers : (InCall(c) /\ InCall(d) /\ c # d) => Ident(c) # Ident(d)

FreshAppends ==
    \A c \in Callers : Appends(c) =>
        /\ call[c].op = "sub"
        /\ \A i \in Identifiers : \A s \in active[i] : s.id # call[c].id
        /\ \A d \in Callers : (Appends(d) /\ d # c) => call[d].id # call[c].id
        /\ Ident(c) \in UserEvents => active[Ident(c)] = {}
SentIsPlaced ==
    \A c \in Callers : SendsSub(c) => SubOf(c) \in active[Ident(c)]
Owned(c) ==
    /\ SubOf(c) \in active[Ident(c)]
    /\ SubOf(c) \notin held
    /\ call[c].at \in {"sending", "storing"} =>
           call[c].keep = Without(Ident(c), call[c].id)
    /\ call[c].at = "sending" => call[c].keep = {}
OwnedUnsubs == \A c \in Callers : Unsubs(c) => Owned(c)
StoresUnsub ==
    \A c \in Callers : call[c].at = "storing" => call[c].op = "unsub"

RegInv == /\ Placed /\ UniqueIds /\ IdsIssued /\ HeldPlaced /\ Exclusive
          /\ FreshAppends /\ SentIsPlaced /\ OwnedUnsubs /\ StoresUnsub
          /\ OneUserEvent

Covered(s) ==
    \/ s.chan \in server
    \/ \E c \in Callers : SendsSub(c) /\ call[c].chan = s.chan
    \/ \E c \in Callers : call[c].at = "storing" /\ SubOf(c) = s
Served ==
    /\ link = "open" => thread \in {"opened", "restoring", "reading"}
    /\ link # "open" => server = {}
    /\ (link = "open" /\ thread = "restoring") =>
           \A s \in Registered : s \in todo \/ Covered(s)
    /\ (link = "open" /\ thread = "reading") => \A s \in Registered : Covered(s)

-----------------------------------------------------------------------------
(* Type correctness.                                                        *)

LEMMA BusyCallType ==
    ASSUME TypeOK, NEW c \in Callers, InCall(c)
    PROVE  /\ call[c] \in BusyCall
           /\ Ident(c) \in Identifiers
           /\ SubOf(c) \in Sub
  <1>1. call[c] \in BusyCall BY DEF TypeOK, IdleCall, InCall
  <1> QED BY <1>1, RoutingAssumption DEF BusyCall, Ident, SubOf, Sub

(* What a caller's step makes of its call, and of no other one. *)
LEMMA CallSubFields ==
    ASSUME TypeOK, NEW c \in Callers, NEW chan \in Channels, CallSub(c, chan)
    PROVE  /\ call'[c] \in BusyCall
           /\ call'[c].at = "parked" /\ call'[c].op = "sub" /\ call'[c].chan = chan
           /\ \A d \in Callers \ {c} : call'[d] = call[d]
  BY DEF CallSub, TypeOK, IdleCall, BusyCall

LEMMA CallUnsubFields ==
    ASSUME TypeOK, NEW c \in Callers, NEW s \in held, CallUnsub(c, s)
    PROVE  /\ call'[c] \in BusyCall
           /\ call'[c].at = "parked" /\ call'[c].op = "unsub"
           /\ call'[c].chan = s.chan /\ call'[c].id = s.id
           /\ \A d \in Callers \ {c} : call'[d] = call[d]
  BY DEF CallUnsub, TypeOK, IdleCall, BusyCall, Sub

LEMMA CallToFields ==
    ASSUME TypeOK, NEW c \in Callers, InCall(c),
           NEW at \in {"parked", "appending", "sending", "storing"}, CallTo(c, at)
    PROVE  /\ call'[c] \in BusyCall
           /\ call'[c].at = at /\ call'[c].op = call[c].op
           /\ call'[c].chan = call[c].chan /\ call'[c].id = call[c].id
           /\ call'[c].keep = call[c].keep
           /\ \A d \in Callers \ {c} : call'[d] = call[d]
  BY BusyCallType DEF CallTo, TypeOK, BusyCall

LEMMA ReturnFields ==
    ASSUME TypeOK, NEW c \in Callers, Return(c)
    PROVE  /\ call'[c] = IdleCall /\ ~InCall(c)'
           /\ \A d \in Callers \ {c} : call'[d] = call[d]
  BY DEF Return, TypeOK, IdleCall, InCall

LEMMA SubEnterFields ==
    ASSUME TypeOK, NEW c \in Callers, SubEnter(c), ~Return(c)
    PROVE  /\ call'[c] \in BusyCall
           /\ call'[c].at = "appending" /\ call'[c].op = "sub"
           /\ call'[c].chan = call[c].chan /\ call'[c].id = counter + 1
           /\ \A d \in Callers \ {c} : call'[d] = call[d]
  <1>1. call[c] \in BusyCall BY BusyCallType DEF SubEnter, InCall
  <1> DEFINE next == [call[c] EXCEPT !.at = "appending", !.id = counter + 1]
  <1>2. call' = [call EXCEPT ![c] = next] BY DEF SubEnter, NextId
  <1>3. /\ next \in BusyCall /\ next.at = "appending" /\ next.op = "sub"
        /\ next.chan = call[c].chan /\ next.id = counter + 1
    <2>1. counter + 1 \in Nat BY DEF TypeOK
    <2>2. call[c].op = "sub" BY DEF SubEnter
    <2> QED BY <1>1, <2>1, <2>2 DEF BusyCall
  <1> HIDE DEF next
  <1> QED BY <1>2, <1>3 DEF TypeOK

LEMMA UnsubEnterFields ==
    ASSUME TypeOK, NEW c \in Callers, UnsubEnter(c)
    PROVE  LET keep == Without(Ident(c), call[c].id)
           IN  /\ call'[c] \in BusyCall
               /\ call'[c].at = IF keep = {} THEN "sending" ELSE "storing"
               /\ call'[c].op = "unsub"
               /\ call'[c].chan = call[c].chan /\ call'[c].id = call[c].id
               /\ call'[c].keep = keep
               /\ \A d \in Callers \ {c} : call'[d] = call[d]
  <1> DEFINE keep == Without(Ident(c), call[c].id)
  <1>1. call[c] \in BusyCall /\ Ident(c) \in Identifiers
    BY BusyCallType DEF UnsubEnter, InCall
  <1>2. keep \in SUBSET Sub BY <1>1 DEF Without, TypeOK
  <1>3. call' = [call EXCEPT ![c] =
                   [@ EXCEPT !.at = IF keep = {} THEN "sending" ELSE "storing",
                             !.keep = keep]]
    BY DEF UnsubEnter, Ident
  <1>4. call[c].op = "unsub" BY DEF UnsubEnter
  <1> HIDE DEF keep
  <1>5. /\ call'[c] \in BusyCall
        /\ call'[c].at = IF keep = {} THEN "sending" ELSE "storing"
        /\ call'[c].op = "unsub"
        /\ call'[c].chan = call[c].chan /\ call'[c].id = call[c].id
        /\ call'[c].keep = keep
        /\ \A d \in Callers \ {c} : call'[d] = call[d]
    BY <1>1, <1>2, <1>3, <1>4 DEF TypeOK, BusyCall
  <1> QED BY <1>5 DEF keep

LEMMA CallTypeKept ==
    ASSUME TypeOK, NEW c \in Callers, CallStep(c)
    PROVE  call' \in [Callers -> {IdleCall} \cup BusyCall]
  <1>1. ASSUME call'[c] \in {IdleCall} \cup BusyCall,
               \A d \in Callers \ {c} : call'[d] = call[d]
        PROVE  \A d \in Callers : call'[d] \in {IdleCall} \cup BusyCall
    BY <1>1 DEF TypeOK
  <1>2. call' = [d \in Callers |-> call'[d]]
    BY DEF TypeOK, CallStep, CallSub, CallUnsub, ParkedRaise, SubEnter, SubAppend,
       SubSend, SubRaise, UnsubEnter, UnsubSend, UnsubRaise, UnsubStore, Raise,
       Return, CallTo
  <1>3. /\ call'[c] \in {IdleCall} \cup BusyCall
        /\ \A d \in Callers \ {c} : call'[d] = call[d]
    <2>1. CASE Return(c) BY <2>1, ReturnFields
    <2>2. CASE SubAppend(c) \/ UnsubSend(c)
      <3>1. InCall(c) /\ (CallTo(c, "sending") \/ CallTo(c, "storing"))
        BY <2>2 DEF SubAppend, UnsubSend, InCall
      <3> QED BY <3>1, CallToFields
    <2> QED BY <2>1, <2>2, CallSubFields, CallUnsubFields, SubEnterFields,
               UnsubEnterFields
          DEF CallStep, ParkedRaise, Raise, SubSend, SubRaise, UnsubRaise, UnsubStore
  <1> QED BY <1>1, <1>2, <1>3

LEMMA CallStepType ==
    ASSUME TypeOK, NEW c \in Callers, CallStep(c) PROVE TypeOK'
  <1> USE DEF stopVars, linkVars, loopVars
  <1>0. call' \in [Callers -> {IdleCall} \cup BusyCall] BY CallTypeKept
  <1>1. ASSUME NEW chan \in Channels, CallSub(c, chan) PROVE TypeOK'
    BY <1>0, <1>1 DEF TypeOK, CallSub
  <1>2. ASSUME NEW s \in held, CallUnsub(c, s) PROVE TypeOK'
    BY <1>0, <1>2 DEF TypeOK, CallUnsub
  <1>3. ASSUME InCall(c) PROVE GiveBack(c) \subseteq Sub
    BY <1>3, BusyCallType DEF GiveBack
  <1>4. CASE ParkedRaise(c)
    BY <1>0, <1>3, <1>4 DEF TypeOK, ParkedRaise, Raise, InCall
  <1>5. CASE SubEnter(c) BY <1>0, <1>5 DEF TypeOK, SubEnter, NextId
  <1>6. CASE SubAppend(c)
    <2>1. SubOf(c) \in Sub /\ Ident(c) \in Identifiers
      BY <1>6, BusyCallType DEF SubAppend, InCall
    <2>2. active' \in [Identifiers -> SUBSET Sub]
      BY <1>6, <2>1 DEF TypeOK, SubAppend, Ident
    <2>3. todo' \subseteq Sub BY <1>6, <2>1 DEF TypeOK, SubAppend
    <2> QED BY <1>0, <1>6, <2>2, <2>3 DEF TypeOK, SubAppend
  <1>7. CASE SubSend(c)
    <2>1. SubOf(c) \in Sub /\ call[c].chan \in Channels
      BY <1>7, BusyCallType DEF SubSend, InCall, BusyCall
    <2> QED BY <1>0, <1>7, <2>1 DEF TypeOK, SubSend
  <1>8. CASE SubRaise(c) BY <1>0, <1>8 DEF TypeOK, SubRaise
  <1>9. CASE UnsubEnter(c) BY <1>0, <1>9 DEF TypeOK, UnsubEnter
  <1>10. CASE UnsubSend(c) BY <1>0, <1>10 DEF TypeOK, UnsubSend
  <1>11. CASE UnsubRaise(c)
    BY <1>0, <1>3, <1>11 DEF TypeOK, UnsubRaise, Raise, InCall
  <1>12. CASE UnsubStore(c)
    <2>1. Ident(c) \in Identifiers /\ call[c].keep \in SUBSET Sub
      BY <1>12, BusyCallType DEF UnsubStore, InCall, BusyCall
    <2> QED BY <1>0, <1>12, <2>1 DEF TypeOK, UnsubStore, Ident
  <1> QED BY <1>1, <1>2, <1>4, <1>5, <1>6, <1>7, <1>8, <1>9, <1>10, <1>11, <1>12
        DEF CallStep

LEMMA ThreadStepType ==
    ASSUME TypeOK, ThreadStep PROVE TypeOK'
  <1> USE DEF stopVars, linkVars, loopVars, regVars, ThreadTo, Teardown
  <1>1. CASE Start \/ PingerStart \/ Check \/ RunForever \/ DialOk \/ DialFail
    BY <1>1 DEF TypeOK, Start, PingerStart, Check, RunForever, DialOk, DialFail
  <1>2. CASE RestoreBegin
    <2>1. Registered \subseteq Sub BY DEF TypeOK, Registered
    <2> QED BY <1>2, <2>1 DEF TypeOK, RestoreBegin, ToRestore
  <1>3. ASSUME NEW s \in todo, RestoreSend(s) PROVE TypeOK'
    <2>1. s.chan \in Channels BY DEF TypeOK, Sub
    <2> QED BY <1>3, <2>1 DEF TypeOK, RestoreSend
  <1>4. CASE RestoreRaise \/ RestoreEnd \/ CallbackRaised
    BY <1>4 DEF TypeOK, RestoreRaise, RestoreEnd, CallbackRaised
  <1>5. CASE ReadEnd \/ Ended \/ Backoff
    BY <1>5 DEF TypeOK, ReadEnd, Ended, Backoff
  <1> QED BY <1>1, <1>2, <1>3, <1>4, <1>5 DEF ThreadStep

LEMMA TypeStep == TypeOK /\ [Next]_vars => TypeOK'
  <1> SUFFICES ASSUME TypeOK, [Next]_vars PROVE TypeOK'
    OBVIOUS
  <1>1. CASE StopStep
    BY <1>1 DEF TypeOK, StopStep, StopSet, StopClose, StopJoined, stopVars, linkVars,
       loopVars, regVars
  <1>2. CASE PingerEnd \/ NetDrop
    BY <1>2 DEF TypeOK, PingerEnd, NetDrop, stopVars, linkVars, loopVars, regVars
  <1>3. CASE UNCHANGED vars BY <1>3 DEF TypeOK, vars
  <1> QED BY <1>1, <1>2, <1>3, ThreadStepType, CallStepType DEF Next

(* Every variable keeps its type, whatever the threads do (ws.py:66-261).   *)
THEOREM TypeCorrect == Spec => []TypeOK
  <1>1. ASSUME Init PROVE TypeOK
    <2>1. active \in [Identifiers -> SUBSET Sub] /\ held \subseteq Sub BY <1>1 DEF Init
    <2>2. call \in [Callers -> {IdleCall} \cup BusyCall] BY <1>1 DEF Init
    <2>3. todo \subseteq Sub /\ server \subseteq Channels BY <1>1 DEF Init
    <2> QED BY <1>1, <2>1, <2>2, <2>3 DEF Init, TypeOK
  <1> QED BY <1>1, TypeStep, PTL DEF Spec

-----------------------------------------------------------------------------
(* The registry.                                                            *)

LEMMA RegInvInit == Init => RegInv
  <1> SUFFICES ASSUME Init PROVE RegInv
    OBVIOUS
  <1>1. held = {} /\ \A i \in Identifiers : active[i] = {} BY DEF Init
  <1>2. \A c \in Callers : call[c].at = "idle" BY DEF Init, IdleCall
  <1>3. Placed /\ UniqueIds /\ OneUserEvent /\ HeldPlaced
    BY <1>1, RoutingAssumption DEF Placed, UniqueIds, OneUserEvent, HeldPlaced
  <1> QED
    BY <1>1, <1>2, <1>3 DEF RegInv, IdsIssued, Exclusive, FreshAppends, SentIsPlaced,
       OwnedUnsubs, StoresUnsub, InCall, Unsubs, Appends, SendsSub

LEMMA RegInvFrame ==
    ASSUME RegInv, UNCHANGED regVars PROVE RegInv'
  BY DEF regVars, RegInv, Placed, UniqueIds, IdsIssued, HeldPlaced, Exclusive,
     FreshAppends, SentIsPlaced, OwnedUnsubs, StoresUnsub, OneUserEvent, InCall,
     Unsubs, Owned, Appends, SendsSub, SubOf, Ident, Without

(* The parts that speak of the lists alone. *)
Lists == Placed /\ UniqueIds /\ OneUserEvent

LEMMA ListsKept == ASSUME Lists, UNCHANGED active PROVE Lists'
  BY DEF Lists, Placed, UniqueIds, OneUserEvent

(* A step of one caller leaves the others what they own. *)
LEMMA OthersOwned ==
    ASSUME TypeOK, RegInv, NEW c \in Callers, InCall(c),
           \A d \in Callers \ {c} : call'[d] = call[d],
           \A i \in Identifiers \ {Ident(c)} : active'[i] = active[i],
           held' \subseteq held \cup {SubOf(c)},
           NEW d \in Callers \ {c}
    PROVE  /\ Unsubs(d)' => Owned(d)'
           /\ SendsSub(d)' => SubOf(d)' \in active'[Ident(d)']
  <1> USE DEF InCall, Unsubs, SendsSub, SubOf, Ident
  <1>1. call'[d] = call[d] OBVIOUS
  <1>2. ASSUME InCall(d)
        PROVE  Ident(d) # Ident(c) /\ active'[Ident(d)] = active[Ident(d)]
    <2>1. Ident(d) # Ident(c) BY <1>2 DEF RegInv, Exclusive
    <2>2. Ident(d) \in Identifiers BY <1>2, BusyCallType
    <2> QED BY <2>1, <2>2
  <1>3. ASSUME Unsubs(d)' PROVE Owned(d)'
    <2>1. InCall(d) /\ Owned(d) BY <1>1, <1>3 DEF RegInv, OwnedUnsubs
    <2>2. SubOf(d) # SubOf(c) BY <1>2, <2>1
    <2> QED BY <1>1, <1>2, <2>1, <2>2 DEF Owned, Without
  <1> QED BY <1>1, <1>2, <1>3 DEF RegInv, SentIsPlaced

(* A call that ends, an unsubscribe() that raises having given its          *)
(* subscription back.                                                       *)
LEMMA CallEnds ==
    ASSUME TypeOK, RegInv, NEW c \in Callers, InCall(c), Return(c),
           \/ held' = held
           \/ Unsubs(c) /\ held' = held \cup {SubOf(c)}
           \/ SendsSub(c) /\ held' = held \cup {SubOf(c)},
           UNCHANGED active, counter' \in Nat, counter' >= counter
    PROVE  RegInv'
  <1> USE DEF InCall, Unsubs, Appends, SendsSub, SubOf, Ident
  <1>a. ~InCall(c)' /\ call'[c] = IdleCall
        /\ \A d \in Callers \ {c} : call'[d] = call[d]
    BY ReturnFields
  <1>1. Lists' BY ListsKept DEF RegInv, Lists
  <1>2. IdsIssued'
    <2>1. \A i \in Identifiers : \A s \in active[i] : s.id \in Nat
      BY DEF TypeOK, Sub
    <2>2. \A d \in Callers : Appends(d) => call[d].id \in Nat
      BY BusyCallType DEF BusyCall
    <2>3. counter \in Nat BY DEF TypeOK
    <2> QED BY <1>a, <2>1, <2>2, <2>3 DEF RegInv, IdsIssued, IdleCall
  <1>3. HeldPlaced' BY DEF RegInv, HeldPlaced, OwnedUnsubs, Owned, SentIsPlaced
  <1>4. Exclusive' BY <1>a DEF RegInv, Exclusive
  <1>5. FreshAppends' BY <1>a DEF RegInv, FreshAppends, IdleCall
  <1>6. SentIsPlaced' /\ StoresUnsub'
    BY <1>a DEF RegInv, SentIsPlaced, StoresUnsub, IdleCall
  <1>7. OwnedUnsubs'
    <2>1. held' \subseteq held \cup {SubOf(c)} OBVIOUS
    <2> QED BY <1>a, <2>1, OthersOwned DEF OwnedUnsubs
  <1> QED BY <1>1, <1>2, <1>3, <1>4, <1>5, <1>6, <1>7 DEF RegInv, Lists

LEMMA CallBegins ==
    ASSUME TypeOK, RegInv, ~Overlap, NEW c \in Callers,
           (\E chan \in Channels : CallSub(c, chan)) \/ (\E s \in held : CallUnsub(c, s))
    PROVE  RegInv'
  <1> USE DEF InCall, Unsubs, Appends, SendsSub, SubOf, Ident
  <1>0. UNCHANGED <<active, counter>> BY DEF CallSub, CallUnsub
  <1>a. Lists' BY <1>0, ListsKept DEF RegInv, Lists
  <1>1. ASSUME NEW chan \in Channels, CallSub(c, chan) PROVE RegInv'
    <2>1. /\ call'[c].at = "parked" /\ call'[c].op = "sub" /\ call'[c].chan = chan
          /\ \A d \in Callers \ {c} : call'[d] = call[d]
      BY <1>1, CallSubFields
    <2>2. ~Busy(IdentOf[chan]) /\ UNCHANGED held BY <1>1 DEF CallSub
    <2>3. Exclusive' BY <2>1, <2>2 DEF RegInv, Exclusive, Busy
    <2>4. HeldPlaced' BY <1>0, <2>2 DEF RegInv, HeldPlaced
    <2>5. IdsIssued' /\ FreshAppends' /\ SentIsPlaced' /\ StoresUnsub'
      BY <1>0, <2>1 DEF RegInv, IdsIssued, FreshAppends, SentIsPlaced, StoresUnsub
    <2>6. OwnedUnsubs'
      BY <1>0, <2>1, <2>2 DEF RegInv, OwnedUnsubs, Owned, Without
    <2> QED BY <1>a, <2>3, <2>4, <2>5, <2>6 DEF RegInv, Lists
  <1>2. ASSUME NEW s \in held, CallUnsub(c, s) PROVE RegInv'
    <2>1. /\ call'[c].at = "parked" /\ call'[c].op = "unsub"
          /\ call'[c].chan = s.chan /\ call'[c].id = s.id
          /\ \A d \in Callers \ {c} : call'[d] = call[d]
      BY <1>2, CallUnsubFields
    <2>2. ~Busy(IdentOf[s.chan]) /\ held' = held \ {s} BY <1>2 DEF CallUnsub
    <2>3. s \in active[IdentOf[s.chan]] BY DEF RegInv, HeldPlaced
    <2>4. s = [id |-> s.id, chan |-> s.chan] BY DEF TypeOK, Sub
    <2>5. Exclusive' BY <2>1, <2>2 DEF RegInv, Exclusive, Busy
    <2>6. HeldPlaced' BY <1>0, <2>2 DEF RegInv, HeldPlaced
    <2>7. IdsIssued' /\ FreshAppends' /\ SentIsPlaced' /\ StoresUnsub'
      BY <1>0, <2>1 DEF RegInv, IdsIssued, FreshAppends, SentIsPlaced, StoresUnsub
    <2>8. OwnedUnsubs'
      BY <1>0, <2>1, <2>2, <2>3, <2>4 DEF RegInv, OwnedUnsubs, Owned, Without
    <2> QED BY <1>a, <2>5, <2>6, <2>7, <2>8 DEF RegInv, Lists
  <1> QED BY <1>1, <1>2

(* The next id is larger than every id that was given out, and the guard    *)
(* has just looked at the list of the caller's identifier.                  *)
LEMMA SubEnterInv ==
    ASSUME TypeOK, RegInv, NEW c \in Callers, SubEnter(c) PROVE RegInv'
  <1> USE DEF InCall, Unsubs, Appends, SendsSub, SubOf, Ident
  <1>1. /\ InCall(c) /\ counter' = counter + 1 /\ UNCHANGED <<active, held>>
        /\ counter \in Nat
    BY DEF SubEnter, NextId, TypeOK
  <1>2. CASE Return(c) BY <1>1, <1>2, CallEnds
  <1>3. CASE ~Return(c)
    <2>1. /\ call'[c].at = "appending" /\ call'[c].op = "sub"
          /\ call'[c].chan = call[c].chan /\ call'[c].id = counter + 1
          /\ \A d \in Callers \ {c} : call'[d] = call[d]
      BY <1>3, SubEnterFields
    <2>2. ~GuardRaises(Ident(c)) BY <1>3 DEF SubEnter
    <2>3. \A i \in Identifiers : \A s \in active[i] : s.id \in Nat /\ s.id <= counter
      BY DEF TypeOK, Sub, RegInv, IdsIssued
    <2>4. \A d \in Callers : Appends(d) => call[d].id \in Nat /\ call[d].id <= counter
      BY BusyCallType DEF BusyCall, RegInv, IdsIssued
    <2>5. Lists' BY <1>1, ListsKept DEF RegInv, Lists
    <2>6. IdsIssued' BY <1>1, <2>1, <2>3, <2>4 DEF IdsIssued
    <2>7. HeldPlaced' BY <1>1 DEF RegInv, HeldPlaced
    <2>8. Exclusive' BY <1>1, <2>1 DEF RegInv, Exclusive
    <2>9. FreshAppends'
      <3> SUFFICES ASSUME NEW d \in Callers, Appends(d)'
                   PROVE  /\ call'[d].op = "sub"
                          /\ \A i \in Identifiers : \A s \in active[i] :
                                 s.id # call'[d].id
                          /\ \A e \in Callers : (Appends(e)' /\ e # d) =>
                                 call'[e].id # call'[d].id
                          /\ Ident(d)' \in UserEvents => active[Ident(d)'] = {}
        BY <1>1 DEF FreshAppends
      <3>1. CASE d = c
        <4>1. Ident(c)' = Ident(c) BY <2>1
        <4> QED BY <1>1, <2>1, <2>2, <2>3, <2>4, <3>1, <4>1 DEF GuardRaises
      <3>2. CASE d # c
        BY <1>1, <2>1, <2>4, <3>2 DEF RegInv, FreshAppends
      <3> QED BY <3>1, <3>2
    <2>10. SentIsPlaced' /\ StoresUnsub'
      BY <1>1, <2>1 DEF RegInv, SentIsPlaced, StoresUnsub
    <2>11. OwnedUnsubs'
      BY <1>1, <2>1 DEF RegInv, OwnedUnsubs, Owned, Without
    <2> QED BY <2>5, <2>6, <2>7, <2>8, <2>9, <2>10, <2>11 DEF RegInv, Lists
  <1> QED BY <1>2, <1>3

(* The registration itself. *)
LEMMA SubAppendInv ==
    ASSUME TypeOK, RegInv, NEW c \in Callers, SubAppend(c)
    PROVE  /\ RegInv'
           /\ Registered' = Registered \cup {SubOf(c)}
           /\ Registry!Add(SubOf(c))
  <1> USE DEF InCall, Unsubs, Appends, SendsSub
  <1>1. /\ InCall(c) /\ Appends(c) /\ CallTo(c, "sending") /\ UNCHANGED <<counter, held>>
        /\ active' = [active EXCEPT ![Ident(c)] = @ \cup {SubOf(c)}]
    BY DEF SubAppend, Ident
  <1>2. /\ call'[c].at = "sending" /\ call'[c].op = call[c].op
        /\ call'[c].chan = call[c].chan /\ call'[c].id = call[c].id
        /\ \A d \in Callers \ {c} : call'[d] = call[d]
    BY <1>1, CallToFields
  <1>3. Ident(c) \in Identifiers /\ active \in [Identifiers -> SUBSET Sub]
    BY <1>1, BusyCallType DEF TypeOK
  <1>4. /\ SubOf(c).id = call[c].id /\ IdentOf[SubOf(c).chan] = Ident(c)
        /\ SubOf(c)' = SubOf(c) /\ Ident(c)' = Ident(c)
    BY <1>2 DEF SubOf, Ident
  <1>5. \A i \in Identifiers : \A s \in active'[i] :
            s \in active[i] \/ (i = Ident(c) /\ s = SubOf(c))
    BY <1>1, <1>3
  <1>6. \A i \in Identifiers \ {Ident(c)} : active'[i] = active[i]
    BY <1>1, <1>3
  <1>7. active'[Ident(c)] = active[Ident(c)] \cup {SubOf(c)}
    BY <1>1, <1>3
  <1>8. /\ call[c].op = "sub"
        /\ \A i \in Identifiers : \A s \in active[i] : s.id # call[c].id
        /\ \A d \in Callers : (Appends(d) /\ d # c) => call[d].id # call[c].id
        /\ Ident(c) \in UserEvents => active[Ident(c)] = {}
    BY <1>1 DEF RegInv, FreshAppends
  <1>9. Placed' BY <1>4, <1>5 DEF RegInv, Placed
  <1>10. UniqueIds' BY <1>4, <1>5, <1>8 DEF RegInv, UniqueIds
  <1>11. OneUserEvent'
    <2> SUFFICES ASSUME NEW i \in UserEvents, NEW s \in active'[i], NEW t \in active'[i]
                 PROVE  s = t
      BY DEF OneUserEvent
    <2>1. i \in Identifiers BY RoutingAssumption
    <2>2. CASE i = Ident(c) BY <1>7, <1>8, <2>2
    <2>3. CASE i # Ident(c) BY <1>6, <2>1, <2>3 DEF RegInv, OneUserEvent
    <2> QED BY <2>2, <2>3
  <1>12. IdsIssued' BY <1>1, <1>2, <1>4, <1>5 DEF RegInv, IdsIssued
  <1>13. HeldPlaced'
    <2> SUFFICES ASSUME NEW s \in held PROVE s \in active'[IdentOf[s.chan]]
      BY <1>1 DEF HeldPlaced
    <2>1. IdentOf[s.chan] \in Identifiers BY RoutingAssumption DEF TypeOK, Sub
    <2> QED BY <1>6, <1>7, <2>1 DEF RegInv, HeldPlaced
  <1>14. Exclusive' BY <1>1, <1>2 DEF RegInv, Exclusive, Ident
  <1>15. FreshAppends'
    <2> SUFFICES ASSUME NEW d \in Callers, Appends(d)'
                 PROVE  /\ call'[d].op = "sub"
                        /\ \A i \in Identifiers : \A s \in active'[i] :
                               s.id # call'[d].id
                        /\ \A e \in Callers : (Appends(e)' /\ e # d) =>
                               call'[e].id # call'[d].id
                        /\ Ident(d)' \in UserEvents => active'[Ident(d)'] = {}
      BY DEF FreshAppends
    <2>1. d # c /\ call'[d] = call[d] BY <1>2
    <2>2. Appends(d) /\ Ident(d)' = Ident(d) BY <2>1 DEF Ident
    <2>3. Ident(d) # Ident(c) /\ Ident(d) \in Identifiers
      BY <1>1, <2>1, <2>2, BusyCallType DEF RegInv, Exclusive
    <2>4. active'[Ident(d)] = active[Ident(d)] BY <1>6, <2>3
    <2>5. \A i \in Identifiers : \A s \in active'[i] : s.id # call[d].id
      BY <1>4, <1>5, <1>8, <2>1, <2>2 DEF RegInv, FreshAppends
    <2> QED BY <1>2, <2>1, <2>2, <2>4, <2>5 DEF RegInv, FreshAppends
  <1>16. held' \subseteq held \cup {SubOf(c)} BY <1>1
  <1>17. SentIsPlaced' BY <1>1, <1>2, <1>4, <1>6, <1>7, <1>16, OthersOwned DEF SentIsPlaced
  <1>18. OwnedUnsubs' BY <1>1, <1>2, <1>6, <1>8, <1>16, OthersOwned DEF OwnedUnsubs
  <1>19. StoresUnsub' BY <1>2 DEF RegInv, StoresUnsub
  <1>20. Registered' = Registered \cup {SubOf(c)} BY <1>1, <1>3 DEF Registered
  <1>21. Registry!Add(SubOf(c))
    <2>1. ASSUME NEW t \in Registered
          PROVE  /\ t.id # SubOf(c).id
                 /\ Ident(c) \in UserEvents => IdentOf[t.chan] # Ident(c)
      <3>1. PICK i \in Identifiers : t \in active[i] BY DEF Registered
      <3>2. IdentOf[t.chan] = i BY <3>1 DEF RegInv, Placed
      <3> QED BY <1>4, <1>8, <3>1, <3>2
    <2> QED BY <1>4, <1>20, <2>1 DEF Registry!Add
  <1> QED BY <1>9, <1>10, <1>11, <1>12, <1>13, <1>14, <1>15, <1>17, <1>18, <1>19,
             <1>20, <1>21 DEF RegInv

(* The list an unsubscribe() computes, and the frame it may send first. *)
LEMMA UnsubMovesInv ==
    ASSUME TypeOK, RegInv, NEW c \in Callers, UnsubEnter(c) \/ UnsubSend(c)
    PROVE  RegInv'
  <1> USE DEF InCall, Unsubs, Appends, SendsSub
  <1>1. Unsubs(c) /\ UNCHANGED <<active, held, counter>> BY DEF UnsubEnter, UnsubSend
  <1>2. Owned(c) BY <1>1 DEF RegInv, OwnedUnsubs
  <1>3. /\ call'[c].at \in {"sending", "storing"} /\ call'[c].op = "unsub"
        /\ call'[c].chan = call[c].chan /\ call'[c].id = call[c].id
        /\ call'[c].keep = Without(Ident(c), call[c].id)
        /\ call'[c].at = "sending" => call'[c].keep = {}
        /\ \A d \in Callers \ {c} : call'[d] = call[d]
    <2>1. CASE UnsubEnter(c) BY <2>1, UnsubEnterFields
    <2>2. CASE UnsubSend(c)
      <3>1. CallTo(c, "storing") /\ call[c].at = "sending" BY <2>2 DEF UnsubSend
      <3> QED BY <1>1, <1>2, <3>1, CallToFields DEF Owned
    <2> QED BY <2>1, <2>2
  <1>4. SubOf(c)' = SubOf(c) /\ Ident(c)' = Ident(c) BY <1>3 DEF SubOf, Ident
  <1>5. Lists' BY <1>1, ListsKept DEF RegInv, Lists
  <1>6. HeldPlaced' BY <1>1 DEF RegInv, HeldPlaced
  <1>7. IdsIssued' BY <1>1, <1>3 DEF RegInv, IdsIssued
  <1>8. Exclusive' BY <1>1, <1>3 DEF RegInv, Exclusive, Ident
  <1>9. FreshAppends' BY <1>1, <1>3 DEF RegInv, FreshAppends, Ident
  <1>10. SentIsPlaced' BY <1>1, <1>3 DEF RegInv, SentIsPlaced, SubOf, Ident
  <1>11. StoresUnsub' BY <1>1, <1>3 DEF RegInv, StoresUnsub
  <1>12. Owned(c)' BY <1>1, <1>2, <1>3, <1>4 DEF Owned, Without
  <1>13. OwnedUnsubs' BY <1>1, <1>3, <1>12, OthersOwned DEF OwnedUnsubs
  <1> QED BY <1>5, <1>6, <1>7, <1>8, <1>9, <1>10, <1>11, <1>13 DEF RegInv, Lists

(* The list stored is still the one without the caller's own subscription. *)
LEMMA UnsubStoreInv ==
    ASSUME TypeOK, RegInv, NEW c \in Callers, UnsubStore(c)
    PROVE  /\ RegInv'
           /\ Registered' = Registered \ {SubOf(c)}
           /\ SubOf(c) \in Registered
  <1> USE DEF InCall, Unsubs, Appends, SendsSub
  <1>1. Unsubs(c) /\ Return(c) /\ UNCHANGED <<held, counter>>
    BY DEF UnsubStore, RegInv, StoresUnsub
  <1>2. Owned(c) BY <1>1 DEF RegInv, OwnedUnsubs
  <1>3. Ident(c) \in Identifiers /\ active \in [Identifiers -> SUBSET Sub]
    BY <1>1, BusyCallType DEF TypeOK
  <1>4. active' = [active EXCEPT ![Ident(c)] = Without(Ident(c), call[c].id)]
    BY <1>2 DEF UnsubStore, Owned, Ident
  <1>5. ASSUME NEW i \in Identifiers, NEW s
        PROVE  s \in active'[i] <=> s \in active[i] /\ s # SubOf(c)
    <2>1. CASE i = Ident(c)
      <3>1. active'[i] = {t \in active[i] : t.id # call[c].id}
        BY <1>3, <1>4, <2>1 DEF Without
      <3>2. ASSUME s \in active[i] PROVE s.id # call[c].id <=> s # SubOf(c)
        BY <1>2, <1>3, <3>2, <2>1 DEF RegInv, UniqueIds, Owned, SubOf
      <3> QED BY <3>1, <3>2
    <2>2. CASE i # Ident(c)
      <3>1. active'[i] = active[i] BY <1>3, <1>4, <2>2
      <3>2. SubOf(c) \notin active[i] BY <2>2 DEF RegInv, Placed, SubOf, Ident
      <3> QED BY <3>1, <3>2
    <2> QED BY <2>1, <2>2
  <1>6. ~InCall(c)' /\ call'[c] = IdleCall /\ \A d \in Callers \ {c} : call'[d] = call[d]
    BY <1>1, ReturnFields
  <1>7. Placed' /\ UniqueIds' BY <1>5 DEF RegInv, Placed, UniqueIds
  <1>8. OneUserEvent' BY <1>5, RoutingAssumption DEF RegInv, OneUserEvent
  <1>9. IdsIssued' BY <1>1, <1>5, <1>6 DEF RegInv, IdsIssued
  <1>10. HeldPlaced'
    <2> SUFFICES ASSUME NEW s \in held PROVE s \in active'[IdentOf[s.chan]]
      BY <1>1 DEF HeldPlaced
    <2>1. IdentOf[s.chan] \in Identifiers BY RoutingAssumption DEF TypeOK, Sub
    <2> QED BY <1>2, <1>5, <2>1 DEF RegInv, HeldPlaced, Owned
  <1>11. Exclusive' BY <1>6 DEF RegInv, Exclusive, Ident
  <1>12. FreshAppends'
    <2> SUFFICES ASSUME NEW d \in Callers, Appends(d)'
                 PROVE  /\ call'[d].op = "sub"
                        /\ \A i \in Identifiers : \A s \in active'[i] :
                               s.id # call'[d].id
                        /\ \A e \in Callers : (Appends(e)' /\ e # d) =>
                               call'[e].id # call'[d].id
                        /\ Ident(d)' \in UserEvents => active'[Ident(d)'] = {}
      BY DEF FreshAppends
    <2>1. d # c /\ call'[d] = call[d] /\ Appends(d) /\ Ident(d)' = Ident(d)
      BY <1>6 DEF Ident
    <2>2. Ident(d) \in Identifiers BY <2>1, BusyCallType
    <2>3. active[Ident(d)] = {} => active'[Ident(d)] = {} BY <1>5, <2>2
    <2> QED BY <1>5, <1>6, <2>1, <2>3 DEF RegInv, FreshAppends
  <1>13. \A i \in Identifiers \ {Ident(c)} : active'[i] = active[i]
    BY <1>3, <1>4
  <1>14. held' \subseteq held \cup {SubOf(c)} BY <1>1
  <1>15. SentIsPlaced' /\ OwnedUnsubs'
    BY <1>1, <1>6, <1>13, <1>14, OthersOwned DEF SentIsPlaced, OwnedUnsubs
  <1>16. StoresUnsub' BY <1>6 DEF RegInv, StoresUnsub
  <1>17. Registered' = Registered \ {SubOf(c)}
    <2>1. ASSUME NEW s PROVE s \in Registered' <=> s \in Registered \ {SubOf(c)}
      <3>1. s \in Registered' <=> \E i \in Identifiers : s \in active'[i]
        BY DEF Registered
      <3>2. s \in Registered <=> \E i \in Identifiers : s \in active[i]
        BY DEF Registered
      <3> QED BY <1>5, <3>1, <3>2
    <2> QED BY <2>1
  <1>18. SubOf(c) \in Registered BY <1>2, <1>3 DEF Registered, Owned
  <1> QED BY <1>7, <1>8, <1>9, <1>10, <1>11, <1>12, <1>15, <1>16, <1>17, <1>18
        DEF RegInv

LEMMA CallStepInv ==
    ASSUME TypeOK, RegInv, ~Overlap, NEW c \in Callers, CallStep(c)
    PROVE  RegInv'
  <1>1. CASE ParkedRaise(c) \/ UnsubRaise(c)
    <2>1. InCall(c) /\ Return(c) /\ UNCHANGED <<active, counter>>
          /\ held' = held \cup GiveBack(c)
      BY <1>1 DEF ParkedRaise, UnsubRaise, Raise, InCall
    <2>2. held' = held \/ (Unsubs(c) /\ held' = held \cup {SubOf(c)})
      BY <2>1 DEF GiveBack, Unsubs
    <2>3. counter' \in Nat /\ counter' >= counter BY <2>1 DEF TypeOK
    <2> QED BY <2>1, <2>2, <2>3, CallEnds
  <1>2. CASE SubSend(c) \/ SubRaise(c)
    <2>1. InCall(c) /\ SendsSub(c) /\ Return(c) /\ UNCHANGED <<active, counter>>
          /\ (held' = held \/ held' = held \cup {SubOf(c)})
      BY <1>2 DEF SubSend, SubRaise, InCall, SendsSub
    <2>2. counter' \in Nat /\ counter' >= counter BY <2>1 DEF TypeOK
    <2> QED BY <2>1, <2>2, CallEnds
  <1> QED BY <1>1, <1>2, CallBegins, SubEnterInv, SubAppendInv, UnsubMovesInv,
             UnsubStoreInv DEF CallStep

(* Only callers touch the registry and the calls. *)
LEMMA OthersKeepRegistry ==
    ASSUME [Next]_vars, \A c \in Callers : ~CallStep(c)
    PROVE  UNCHANGED regVars
  <1>1. ThreadStep => UNCHANGED regVars
    BY DEF ThreadStep, Start, PingerStart, Check, RunForever, DialOk, DialFail,
       RestoreBegin, RestoreRaise, RestoreEnd, CallbackRaised, ReadEnd, Ended,
       Backoff, RestoreSend, Teardown, regVars
  <1> QED BY <1>1 DEF Next, StopStep, StopSet, StopClose, StopJoined, PingerEnd,
             NetDrop, regVars, vars

LEMMA RegInvStep ==
    TypeOK /\ RegInv /\ ~Overlap /\ [Next]_vars => RegInv'
  <1> SUFFICES ASSUME TypeOK, RegInv, ~Overlap, [Next]_vars PROVE RegInv'
    OBVIOUS
  <1>1. ASSUME NEW c \in Callers, CallStep(c) PROVE RegInv' BY <1>1, CallStepInv
  <1>2. CASE \A c \in Callers : ~CallStep(c)
    BY <1>2, OthersKeepRegistry, RegInvFrame
  <1> QED BY <1>1, <1>2

LEMMA RegInvariant ==
    ASSUME ~Overlap PROVE Spec => []RegInv
  <1>1. TypeOK /\ RegInv /\ [Next]_vars => RegInv' BY RegInvStep
  <1> QED BY <1>1, RegInvInit, TypeCorrect, PTL DEF Spec

(* What subscribe() returned and the application has not given up stays     *)
(* registered, across drops, restores, calls that raise and a stop()        *)
(* (ws.py:236-241, 256-261).                                                *)
THEOREM HeldStaysRegistered ==
    ASSUME ~Overlap PROVE Spec => []HeldIsRegistered
  <1>1. TypeOK /\ RegInv => HeldIsRegistered
    <2> SUFFICES ASSUME TypeOK, RegInv, NEW s \in held PROVE s \in Registered
      BY DEF HeldIsRegistered
    <2>1. IdentOf[s.chan] \in Identifiers BY RoutingAssumption DEF TypeOK, Sub
    <2> QED BY <2>1 DEF Registered, RegInv, HeldPlaced
  <1> QED BY <1>1, RegInvariant, TypeCorrect, PTL

(* The check of the userEvent guard and the registration are apart by a     *)
(* step, and still an address has one userEvent subscription unless two     *)
(* calls overlap on it (ws.py:236-241).                                     *)
THEOREM UserEventsAlone ==
    ASSUME ~Overlap PROVE Spec => []OneUserEvent
  <1>1. RegInv => OneUserEvent BY DEF RegInv
  <1> QED BY <1>1, RegInvariant, PTL

LEMMA RegistryStep ==
    TypeOK /\ RegInv /\ [Next]_vars => [Registry!Next]_Registered
  <1> SUFFICES ASSUME TypeOK, RegInv, [Next]_vars
               PROVE  Registry!Next \/ UNCHANGED Registered
    OBVIOUS
  <1>1. CASE UNCHANGED active BY <1>1 DEF Registered
  <1>2. ASSUME NEW c \in Callers, CallStep(c)
        PROVE  Registry!Next \/ UNCHANGED Registered
    <2>1. CASE SubAppend(c)
      <3>1. Registry!Add(SubOf(c)) /\ SubOf(c) \in Registered' BY <2>1, SubAppendInv
      <3> QED BY <3>1 DEF Registry!Next
    <2>2. CASE UnsubStore(c)
      <3>1. Registry!Remove(SubOf(c)) /\ SubOf(c) \in Registered
        BY <2>2, UnsubStoreInv DEF Registry!Remove
      <3> QED BY <3>1 DEF Registry!Next
    <2>3. CASE ~SubAppend(c) /\ ~UnsubStore(c)
      BY <1>1, <1>2, <2>3 DEF CallStep, CallSub, CallUnsub, ParkedRaise, SubEnter,
         SubSend, SubRaise, UnsubEnter, UnsubSend, UnsubRaise
    <2> QED BY <2>1, <2>2, <2>3
  <1>3. CASE \A c \in Callers : ~CallStep(c)
    BY <1>1, <1>3, OthersKeepRegistry DEF regVars
  <1> QED BY <1>2, <1>3

(* The threaded manager implements SubscriptionRegistry as well: the list   *)
(* computed by one step and stored by a later one, and the guard checked    *)
(* before the registration, make one Add and one Remove (ws.py:230-261).    *)
THEOREM ManagerImplementsRegistry ==
    ASSUME ~Overlap PROVE Spec => RegistrySpec
  <1>1. Init => Registry!Init BY DEF Init, Registry!Init, Registered
  <1>2. TypeOK /\ RegInv /\ [Next]_vars => [Registry!Next]_Registered
    BY RegistryStep
  <1> QED BY <1>1, <1>2, TypeCorrect, RegInvariant, PTL
          DEF Spec, RegistrySpec, Registry!Spec

-----------------------------------------------------------------------------
(* What an open connection serves.                                          *)

LEMMA ServedInit == Init => Served
  BY DEF Init, Served, Registered

LEMMA ServedFrame ==
    ASSUME Served, UNCHANGED <<thread, link, server, todo, active, call>> PROVE Served'
  BY DEF Served, Covered, SendsSub, SubOf, Registered

(* A step that leaves no open connection, and none that serves.             *)
LEMMA ServedClosed ==
    ASSUME link' # "open", server' = {} PROVE Served'
  BY DEF Served

LEMMA ServedThread ==
    ASSUME TypeOK, Served, ThreadStep PROVE Served'
  <1> USE DEF stopVars, linkVars, regVars, loopVars, ThreadTo
  <1>0. UNCHANGED <<active, call>>
    BY DEF ThreadStep, Start, PingerStart, Check, RunForever, DialOk, DialFail,
       RestoreBegin, RestoreRaise, RestoreEnd, CallbackRaised, ReadEnd, Ended,
       Backoff, RestoreSend, Teardown
  <1>1. CASE Start \/ PingerStart \/ Check \/ RunForever \/ Ended \/ Backoff
    BY <1>1 DEF Start, PingerStart, Check, RunForever, Ended, Backoff, Served
  <1>2. CASE DialOk BY <1>2 DEF DialOk, Served
  <1>3. CASE DialFail \/ ReadEnd
    BY <1>3, ServedClosed DEF DialFail, ReadEnd, Teardown
  <1>4. CASE RestoreBegin
    BY <1>0, <1>4 DEF RestoreBegin, ToRestore, Served, Registered
  <1>5. ASSUME NEW s \in todo, RestoreSend(s) PROVE Served'
    <2>1. /\ thread = "restoring" /\ todo' = todo \ {s}
          /\ server' = IF link = "open" THEN server \cup {s.chan} ELSE server
          /\ UNCHANGED <<thread, link>>
      BY <1>5 DEF RestoreSend
    <2>2. \A u \in Registered : Covered(u) => Covered(u)'
      BY <1>0, <2>1 DEF Covered, SendsSub, SubOf
    <2>3. link = "open" => Covered(s)' BY <2>1 DEF Covered
    <2>4. Registered' = Registered BY <1>0 DEF Registered
    <2> QED BY <2>1, <2>2, <2>3, <2>4 DEF Served
  <1>6. CASE RestoreRaise BY <1>6 DEF RestoreRaise, Served
  <1>7. CASE RestoreEnd
    BY <1>0, <1>7 DEF RestoreEnd, Served, Covered, SendsSub, SubOf, Registered
  <1>8. CASE CallbackRaised
    BY <1>0, <1>8, ServedFrame DEF CallbackRaised
  <1> QED BY <1>1, <1>2, <1>3, <1>4, <1>5, <1>6, <1>7, <1>8 DEF ThreadStep

(* A caller's step that leaves the registry and what is served alone, and   *)
(* was not itself between registering and sending, or about to unregister.  *)
LEMMA ServedSilent ==
    ASSUME TypeOK, Served, NEW c \in Callers,
           ~SendsSub(c), call[c].at # "storing",
           \A d \in Callers \ {c} : call'[d] = call[d],
           UNCHANGED <<thread, link, server, todo, active>>
    PROVE  Served'
  <1>1. \A s \in Registered : Covered(s) => Covered(s)'
    BY DEF Covered, SendsSub, SubOf
  <1>2. Registered' = Registered BY DEF Registered
  <1> QED BY <1>1, <1>2 DEF Served

LEMMA ServedCall ==
    ASSUME TypeOK, RegInv, Served, NEW c \in Callers, CallStep(c) PROVE Served'
  <1> USE DEF stopVars, linkVars, loopVars, InCall
  <1>1. CASE (\E chan \in Channels : CallSub(c, chan)) \/ (\E s \in held : CallUnsub(c, s))
    <2>1. /\ call[c].at = "idle" /\ UNCHANGED <<thread, link, server, todo, active>>
          /\ \A d \in Callers \ {c} : call'[d] = call[d]
      BY <1>1, CallSubFields, CallUnsubFields DEF CallSub, CallUnsub
    <2> QED BY <2>1, ServedSilent DEF SendsSub
  <1>2. CASE ParkedRaise(c) \/ SubEnter(c) \/ UnsubEnter(c)
    <2>1. call[c].at = "parked" /\ UNCHANGED <<thread, link, server, todo, active>>
      BY <1>2 DEF ParkedRaise, SubEnter, UnsubEnter
    <2>2. \A d \in Callers \ {c} : call'[d] = call[d]
      BY <1>2, ReturnFields, SubEnterFields, UnsubEnterFields DEF ParkedRaise, Raise
    <2> QED BY <2>1, <2>2, ServedSilent DEF SendsSub
  <1>3. CASE SubAppend(c)
    <2>1. InCall(c) /\ CallTo(c, "sending") /\ call[c].at = "appending"
          /\ call[c].op = "sub" /\ todo \subseteq todo'
          /\ UNCHANGED <<thread, link, server>>
      BY <1>3 DEF SubAppend, RegInv, FreshAppends, Appends
    <2>2. /\ SendsSub(c)' /\ call'[c].chan = call[c].chan /\ SubOf(c)' = SubOf(c)
          /\ \A d \in Callers \ {c} : call'[d] = call[d]
      BY <2>1, CallToFields DEF SendsSub, SubOf
    <2>3. Registered' = Registered \cup {SubOf(c)} BY <1>3, SubAppendInv
    <2>4. Covered(SubOf(c))' BY <2>2 DEF Covered, SubOf
    <2>5. \A s \in Registered : Covered(s) => Covered(s)'
      BY <2>1, <2>2 DEF Covered, SendsSub, SubOf
    <2>6. \A s \in Registered' : s \in Registered \/ s = SubOf(c)' BY <2>2, <2>3
    <2> QED BY <2>1, <2>4, <2>5, <2>6 DEF Served
  <1>4. CASE SubSend(c)
    <2>1. /\ SendsSub(c) /\ Return(c) /\ UNCHANGED <<thread, link, todo, active>>
          /\ server' = IF link = "open" THEN server \cup {call[c].chan} ELSE server
      BY <1>4 DEF SubSend, SendsSub
    <2>2. \A d \in Callers \ {c} : call'[d] = call[d] BY <2>1, ReturnFields
    <2>3. link = "open" => \A s \in Registered : Covered(s) => Covered(s)'
      BY <2>1, <2>2 DEF Covered, SendsSub, SubOf
    <2>4. Registered' = Registered BY <2>1 DEF Registered
    <2> QED BY <2>1, <2>3, <2>4 DEF Served
  <1>5. CASE SubRaise(c) \/ UnsubRaise(c)
    <2>1. link # "open" /\ UNCHANGED <<link, server>>
      BY <1>5 DEF SubRaise, UnsubRaise
    <2> QED BY <2>1, ServedClosed DEF Served
  <1>6. CASE UnsubSend(c)
    <2>1. /\ call[c].at = "sending" /\ call[c].op = "unsub" /\ CallTo(c, "storing")
          /\ server' = server \ {call[c].chan}
          /\ UNCHANGED <<thread, link, todo, active>>
      BY <1>6 DEF UnsubSend
    <2>2. /\ call'[c].at = "storing" /\ SubOf(c)' = SubOf(c)
          /\ \A d \in Callers \ {c} : call'[d] = call[d]
      BY <2>1, CallToFields DEF SubOf
    <2>3. Owned(c) BY <2>1 DEF RegInv, OwnedUnsubs, Unsubs
    <2>4. ASSUME NEW s \in Registered, s.chan = call[c].chan PROVE s = SubOf(c)
      <3>1. PICK i \in Identifiers : s \in active[i] BY DEF Registered
      <3>2. i = Ident(c) BY <2>4, <3>1 DEF RegInv, Placed, Ident
      <3>3. Without(Ident(c), call[c].id) = {} BY <2>1, <2>3 DEF Owned
      <3>4. s.id = call[c].id BY <3>1, <3>2, <3>3 DEF Without
      <3> QED BY <2>3, <3>1, <3>2, <3>4 DEF RegInv, UniqueIds, Owned, SubOf
    <2>5. \A s \in Registered : Covered(s) => Covered(s)'
      BY <2>1, <2>2, <2>4 DEF Covered, SendsSub, SubOf
    <2>6. Registered' = Registered BY <2>1 DEF Registered
    <2> QED BY <2>1, <2>5, <2>6 DEF Served
  <1>7. CASE UnsubStore(c)
    <2>1. call[c].at = "storing" /\ Return(c) /\ UNCHANGED <<thread, link, server, todo>>
      BY <1>7 DEF UnsubStore
    <2>2. \A d \in Callers \ {c} : call'[d] = call[d] BY <2>1, ReturnFields
    <2>3. Registered' = Registered \ {SubOf(c)} BY <1>7, UnsubStoreInv
    <2>4. \A s \in Registered \ {SubOf(c)} : Covered(s) => Covered(s)'
      BY <2>1, <2>2 DEF Covered, SendsSub, SubOf
    <2> QED BY <2>1, <2>3, <2>4 DEF Served
  <1> QED BY <1>1, <1>2, <1>3, <1>4, <1>5, <1>6, <1>7 DEF CallStep

LEMMA ServedStep ==
    TypeOK /\ RegInv /\ Served /\ [Next]_vars => Served'
  <1> SUFFICES ASSUME TypeOK, RegInv, Served, [Next]_vars PROVE Served'
    OBVIOUS
  <1>1. CASE StopSet \/ StopJoined \/ PingerEnd \/ UNCHANGED vars
    BY <1>1, ServedFrame DEF StopSet, StopJoined, PingerEnd, vars, loopVars, linkVars,
       regVars
  <1>2. CASE StopClose \/ NetDrop
    BY <1>2, ServedClosed DEF StopClose, NetDrop
  <1> QED BY <1>1, <1>2, ServedThread, ServedCall DEF Next, StopStep

(* On a connection that is open and restored, every registration is served, *)
(* also one whose subscribe() raised, one that came while the restore was   *)
(* iterating and one whose neighbour was unsubscribed; only a call halfway  *)
(* between the registry and its frame is an exception                       *)
(* (ws.py:197-216, 236-261).                                                *)
THEOREM RestoredServesRegistered ==
    ASSUME ~Overlap PROVE Spec => []RegisteredIsServed
  <1>1. RegInv /\ Served => RegisteredIsServed
    <2> SUFFICES ASSUME RegInv, Served, thread = "reading", link = "open",
                        NEW s \in Registered
                 PROVE  \/ s.chan \in server
                        \/ \E c \in Callers :
                              /\ call[c].chan = s.chan
                              /\ \/ call[c].op = "sub" /\ call[c].at = "sending"
                                 \/ call[c].op = "unsub" /\ call[c].at = "storing"
      BY DEF RegisteredIsServed
    <2>1. Covered(s) BY DEF Served
    <2> QED BY <2>1 DEF Covered, SendsSub, SubOf, RegInv, StoresUnsub
  <1>2. TypeOK /\ RegInv /\ Served /\ [Next]_vars => Served' BY ServedStep
  <1> QED BY <1>1, <1>2, ServedInit, TypeCorrect, RegInvariant, PTL DEF Spec
=============================================================================
