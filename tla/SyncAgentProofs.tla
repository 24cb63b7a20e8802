-------------------------- MODULE SyncAgentProofs --------------------------
(***************************************************************************)
(* Theorems about SyncAgent, for any number of threads, tokens, markets    *)
(* and orders: it implements Deposit, and the REST side keeps its promises *)
(* about the token maps and the market cache.                              *)
(***************************************************************************)
EXTENDS SyncAgent, DepositProofs, NormalizeProofs

-----------------------------------------------------------------------------
(* The composition implements the deposit flow.                             *)

LEMMA AgentStepDeposits == ASSUME [AgentNext]_agentVars PROVE [Next]_vars
  <1>1. CASE UNCHANGED agentVars BY <1>1 DEF agentVars
  <1>2. ASSUME NEW c \in Callers,
               ClientStep(c) \/ DepositCall(c) \/ HandOver(c) \/ L1Step(c) \/ HandBack(c)
        PROVE  [Next]_vars
    <2>1. CASE ClientStep(c) \/ DepositCall(c) \/ HandBack(c)
      BY <2>1 DEF ClientStep, DepositCall, HandBack
    <2>2. CASE HandOver(c) \/ L1Step(c) BY <2>2 DEF HandOver, L1Step, Next
    <2> QED BY <1>2, <2>1, <2>2
  <1>3. CASE Chain /\ UNCHANGED clientVars BY <1>3 DEF Next
  <1>4. CASE Client!Exchange /\ UNCHANGED vars BY <1>4
  <1> QED BY <1>1, <1>2, <1>3, <1>4 DEF AgentNext

(* The threads of an Agent deposit as Deposit says (agent.py, api.py:446).  *)
THEOREM AgentDeposits == AgentSpec => Spec
  <1>1. AgentInit => Init BY DEF AgentInit
  <1> QED BY <1>1, AgentStepDeposits, PTL DEF AgentSpec, Spec

(* Hence, among all the other calls of an Agent, an answer to a deposit is  *)
(* what the chain did with it (api.py:463-474), ...                         *)
THEOREM AgentDepositReported == AgentSpec => DepositSpec
  BY AgentDeposits, DepositReported, PTL

(* ... it does not get in its own way with a nonce (sign.py:446-466), ...   *)
THEOREM AgentNonceIsFree == AgentSpec => []NonceIsFree
  BY AgentDeposits, OwnNonceIsFree, PTL

(* ... and is sent when it is covered (sign.py:440-453).                    *)
THEOREM AgentDepositIsCovered == AgentSpec => []DepositIsCovered
  BY AgentDeposits, SentWhenCovered, PTL

-----------------------------------------------------------------------------
(* The REST side.                                                           *)

(* The orders that may be sent. *)
Sent == UNION {{[given |-> o, sent |-> w] : w \in Client!Posted(o)} : o \in Orders}

(* A call that is under way. *)
Shape ==
    [at : {"init", "wait", "market", "served", "request", "bridge"},
     op : {"query", "modify", "order", "transfer", "subscribe", "perp", "deposit"},
     sym : Tokens \cup Symbols \cup {NoSym},
     order : Sent \cup {NoOrder},
     next : {"none", "lookup", "market", "send"},
     known : BOOLEAN,
     answer : SUBSET Symbols]

AnyCall == Shape \cup {Client!Idle}

Api == [initialized : BOOLEAN, tokens : SUBSET Tokens]

(* A symbol that was listed all the time of a call is, and is in the answer *)
(* the exchange gave it.                                                    *)
Known(x, lst) ==
    x.known => x.sym \in lst /\ (x.at = "served" => x.sym \in x.answer)

(* What a call's record says of the lock and the cache: a thread that holds *)
(* the lock misses its symbol, one that sends a perp request found it.      *)
Sound(c, x, have, holder, lst) ==
    /\ x \in AnyCall
    /\ x.at = "init" => x.next # "none"
    /\ x.at = "init" /\ x.op = "perp" => x.next # "lookup"
    /\ Client!HoldsLock(x) => holder = c /\ x.sym \notin have
    /\ Resolved(x) => x.sym \in have
    /\ Known(x, lst)

RestInv ==
    /\ api \in Api /\ cache \subseteq Symbols /\ listed \subseteq Symbols
    /\ lock \in Callers \cup {NoCaller}
    /\ call \in [Callers -> AnyCall]
    /\ InitializedHasTokens
    /\ \A c \in Callers : Sound(c, call[c], cache, lock, listed)

LEMMA RestInitInv == AgentInit => RestInv
  <1> SUFFICES ASSUME AgentInit PROVE RestInv
    OBVIOUS
  <1> DEFINE idle == Client!Idle
  <1>1. /\ api = [initialized |-> FALSE, tokens |-> {}]
        /\ cache = {} /\ lock = NoCaller
        /\ call = [c \in Callers |-> idle]
        /\ listed \in Listings
    BY DEF AgentInit, Client!Init
  <1>2. idle \in AnyCall /\ idle.at = "idle" /\ idle.known = FALSE
    BY DEF Client!Idle, AnyCall
  <1> HIDE DEF idle
  <1>3. \A c \in Callers : Sound(c, call[c], cache, lock, listed)
    BY <1>1, <1>2 DEF Sound, AnyCall, Client!HoldsLock, Resolved, Known
  <1> QED BY <1>1, <1>2, <1>3, AnswerAssumption DEF RestInv, Api, InitializedHasTokens

(* One call goes on.                                                        *)
LEMMA GoOnInv ==
    ASSUME RestInv, NEW c \in Callers, NEW x, call' = [call EXCEPT ![c] = x],
           Sound(c, x, cache', lock', listed'),
           api' = api \/ (api' \in Api /\ api'.tokens # {}),
           cache' = cache \/ (lock = c /\ cache \subseteq cache' /\ cache' \subseteq Symbols),
           lock' = lock \/ (lock \in {c, NoCaller} /\ lock' \in {c, NoCaller}),
           listed' = listed
    PROVE  RestInv'
  <1>1. /\ x \in AnyCall /\ call' \in [Callers -> AnyCall] /\ call'[c] = x
        /\ \A o \in Callers \ {c} : call'[o] = call[o]
    BY DEF RestInv, Sound
  <1>2. cache \subseteq cache' /\ cache' \subseteq Symbols BY DEF RestInv
  <1>3. ASSUME NEW o \in Callers PROVE Sound(o, call'[o], cache', lock', listed')
    <2>1. CASE o = c BY <1>1, <2>1
    <2>2. CASE o # c
      <3>1. Sound(o, call[o], cache, lock, listed) /\ call'[o] = call[o]
        BY <1>1, <2>2 DEF RestInv
      <3>2. Client!HoldsLock(call[o]) => lock' = o /\ cache' = cache
        BY <2>2, <3>1, NoCallerAssumption DEF Sound
      <3> QED BY <1>2, <3>1, <3>2 DEF Sound
    <2> QED BY <2>1, <2>2
  <1>4. api' \in Api /\ InitializedHasTokens' BY DEF RestInv, InitializedHasTokens
  <1> QED BY <1>1, <1>2, <1>3, <1>4 DEF RestInv

LEMMA UnderWay ==
    ASSUME RestInv, NEW c \in Callers, call[c].at # "idle"
    PROVE  call[c] \in Shape
  <1>1. call[c] \in AnyCall BY DEF RestInv
  <1> QED BY <1>1 DEF AnyCall, Client!Idle

LEMMA IdleSound ==
    ASSUME NEW c \in Callers, NEW have, NEW holder, NEW lst
    PROVE  Sound(c, Client!Idle, have, holder, lst) /\ ~Client!HoldsLock(Client!Idle)
  BY DEF Sound, AnyCall, Client!Idle, Client!HoldsLock, Resolved, Known

(* A call that goes on to its own request. *)
LEMMA SendSound ==
    ASSUME NEW c \in Callers, NEW x \in Shape, NEW a \in Api, NEW have, NEW holder,
           NEW lst, x.known => x.sym \in lst,
           x.op = "perp" => x.sym \in have
    PROVE  /\ Sound(c, Client!Send(x, a), have, holder, lst)
           /\ Client!Send(x, a).at # "idle"
           /\ ~Client!HoldsLock(Client!Send(x, a))
  <1>1. CASE a.initialized
    <2> DEFINE y == [x EXCEPT !.at = "request", !.next = "none"]
    <2>1. Client!Send(x, a) = y BY <1>1 DEF Client!Send, Client!Ensure, Client!Request
    <2>2. /\ y \in Shape /\ y.known = x.known
          /\ y.at = "request" /\ y.op = x.op /\ y.sym = x.sym
      BY DEF Shape
    <2> HIDE DEF y
    <2> QED BY <2>1, <2>2 DEF Sound, AnyCall, Client!HoldsLock, Resolved, Known
  <1>2. CASE ~a.initialized
    <2> DEFINE y == [x EXCEPT !.at = "init", !.next = "send"]
    <2>1. Client!Send(x, a) = y BY <1>2 DEF Client!Send, Client!Ensure
    <2>2. /\ y \in Shape /\ y.known = x.known /\ y.at = "init" /\ y.next = "send"
          /\ y.op = x.op /\ y.sym = x.sym
      BY DEF Shape
    <2> HIDE DEF y
    <2> QED BY <2>1, <2>2 DEF Sound, AnyCall, Client!HoldsLock, Resolved, Known
  <1> QED BY <1>1, <1>2

(* A call that fetches the markets, under the lock. *)
LEMMA MarketSound ==
    ASSUME NEW c \in Callers, NEW x \in Shape, NEW a \in Api, NEW have, x.sym \notin have,
           NEW lst, x.known => x.sym \in lst
    PROVE  /\ Sound(c, Client!Market(x, a), have, c, lst)
           /\ Client!Market(x, a).at # "idle"
           /\ Client!HoldsLock(Client!Market(x, a))
  <1>1. CASE a.initialized
    <2> DEFINE y == [x EXCEPT !.at = "market", !.next = "none"]
    <2>1. Client!Market(x, a) = y BY <1>1 DEF Client!Market, Client!Ensure, Client!Request
    <2>2. /\ y \in Shape /\ y.known = x.known
          /\ y.at = "market" /\ y.sym = x.sym
      BY DEF Shape
    <2> HIDE DEF y
    <2> QED BY <2>1, <2>2 DEF Sound, AnyCall, Client!HoldsLock, Resolved, Known
  <1>2. CASE ~a.initialized
    <2> DEFINE y == [x EXCEPT !.at = "init", !.next = "market"]
    <2>1. Client!Market(x, a) = y BY <1>2 DEF Client!Market, Client!Ensure
    <2>2. /\ y \in Shape /\ y.known = x.known
          /\ y.at = "init" /\ y.next = "market" /\ y.sym = x.sym
      BY DEF Shape
    <2> HIDE DEF y
    <2> QED BY <2>1, <2>2 DEF Sound, AnyCall, Client!HoldsLock, Resolved, Known
  <1> QED BY <1>1, <1>2

(* A call that looks for its token. *)
LEMMA LookupSound ==
    ASSUME NEW c \in Callers, NEW x \in Shape, NEW a \in Api, NEW have, NEW holder,
           NEW lst, x.known => x.sym \in lst,
           x.op # "perp"
    PROVE  Sound(c, Client!Lookup(x, a), have, holder, lst)
           /\ ~Client!HoldsLock(Client!Lookup(x, a))
  <1>1. CASE Client!Lookup(x, a) = Client!Idle BY <1>1, IdleSound
  <1>2. CASE Client!Lookup(x, a) = Client!Send(x, a) BY <1>2, SendSound
  <1>3. CASE Client!Lookup(x, a) = Client!Request(x, "bridge")
    <2> DEFINE y == [x EXCEPT !.at = "bridge", !.next = "none"]
    <2>1. Client!Lookup(x, a) = y BY <1>3 DEF Client!Request
    <2>2. y \in Shape /\ y.known = x.known /\ y.sym = x.sym /\ y.at = "bridge"
      BY DEF Shape
    <2> HIDE DEF y
    <2> QED BY <2>1, <2>2 DEF Sound, AnyCall, Client!HoldsLock, Resolved, Known
  <1> QED BY <1>1, <1>2, <1>3 DEF Client!Lookup

-----------------------------------------------------------------------------
(* Each action keeps the invariant.                                         *)

AgentOp == {"query", "modify", "order", "transfer", "subscribe", "deposit"}

LEMMA NewCallShape ==
    ASSUME RestInv, NEW op \in AgentOp \cup {"perp"},
           NEW sym \in Tokens \cup Symbols \cup {NoSym}, NEW order \in Sent \cup {NoOrder}
    PROVE  LET x == Client!NewCall(op, sym, order)
           IN  /\ x \in Shape /\ x.at = "init" /\ x.op = op /\ x.sym = sym
               /\ x.known => x.sym \in listed
  <1> DEFINE x == Client!NewCall(op, sym, order)
  <1>1. x \in Shape /\ x.at = "init" /\ x.op = op /\ x.sym = sym
    BY DEF Client!NewCall, Shape, AgentOp
  <1>2. x.known = (sym \in listed) BY DEF Client!NewCall
  <1> HIDE DEF x
  <1>3. x.known => x.sym \in listed BY <1>1, <1>2
  <1> QED BY <1>1, <1>3 DEF x

LEMMA EnterSound ==
    ASSUME NEW c \in Callers, NEW x \in Shape, NEW a \in Api, NEW have, NEW holder,
           NEW lst, x.known => x.sym \in lst,
           x.op # "perp"
    PROVE  Sound(c, Client!Enter(x, a), have, holder, lst)
  <1>1. CASE Client!Enter(x, a) = Client!Send(x, a) BY <1>1, SendSound
  <1>2. CASE Client!Enter(x, a) = Client!Lookup(x, a) BY <1>2, LookupSound
  <1>3. CASE Client!Enter(x, a) = [x EXCEPT !.at = "init", !.next = "lookup"]
    <2> DEFINE y == [x EXCEPT !.at = "init", !.next = "lookup"]
    <2>1. y \in Shape /\ y.known = x.known /\ y.sym = x.sym
          /\ y.at = "init" /\ y.next = "lookup" /\ y.op = x.op
      BY DEF Shape
    <2> HIDE DEF y
    <2> QED BY <1>3, <2>1 DEF Sound, AnyCall, Client!HoldsLock, Resolved, Known, y
  <1> QED BY <1>1, <1>2, <1>3 DEF Client!Enter, Client!Ensure

LEMMA AgentCallInv ==
    ASSUME RestInv, NEW c \in Callers, NEW op \in AgentOp,
           NEW sym \in Tokens \cup {NoSym}, NEW order \in Sent \cup {NoOrder},
           Client!AgentCall(c, op, sym, order)
    PROVE  RestInv'
  <1> DEFINE x == Client!NewCall(op, sym, order)
             y == Client!Enter(x, api)
  <1>1. /\ call' = [call EXCEPT ![c] = y]
        /\ UNCHANGED <<api, cache, lock, listed>>
    BY DEF Client!AgentCall, Client!GoOn
  <1>2. x \in Shape /\ x.op # "perp" /\ (x.known => x.sym \in listed) /\ api \in Api
    BY NewCallShape DEF RestInv, AgentOp
  <1> HIDE DEF x
  <1>3. Sound(c, y, cache', lock', listed') BY <1>1, <1>2, EnterSound
  <1> HIDE DEF y
  <1> QED BY <1>1, <1>3, GoOnInv

LEMMA PerpCallInv ==
    ASSUME RestInv, NEW c \in Callers, NEW sym \in Symbols, Client!PerpCall(c, sym)
    PROVE  RestInv'
  <1> DEFINE x == Client!NewCall("perp", sym, NoOrder)
             y == IF sym \in cache THEN Client!Send(x, api) ELSE Client!Request(x, "wait")
  <1>1. /\ call' = [call EXCEPT ![c] = y]
        /\ UNCHANGED <<api, cache, lock, listed>>
    BY DEF Client!PerpCall, Client!GoOn
  <1>2. /\ x \in Shape /\ x.op = "perp" /\ x.sym = sym /\ api \in Api
        /\ x.known => x.sym \in listed
    BY NewCallShape DEF RestInv
  <1> HIDE DEF x
  <1>3. Sound(c, y, cache', lock', listed')
    <2>1. CASE sym \in cache BY <1>1, <1>2, <2>1, SendSound
    <2>2. CASE sym \notin cache
      <3> DEFINE z == [x EXCEPT !.at = "wait", !.next = "none"]
      <3>1. y = z BY <2>2 DEF Client!Request
      <3>2. z \in Shape /\ z.known = x.known /\ z.sym = x.sym /\ z.at = "wait"
        BY <1>2 DEF Shape
      <3> HIDE DEF z, y
      <3> QED BY <1>1, <1>2, <3>1, <3>2 DEF Sound, AnyCall, Client!HoldsLock, Resolved, Known
    <2> QED BY <2>1, <2>2
  <1> HIDE DEF y
  <1> QED BY <1>1, <1>3, GoOnInv

LEMMA StartInv ==
    ASSUME RestInv, NEW c \in Callers, NEW op, Client!Start(c, op)
    PROVE  RestInv'
  <1>1. ASSUME NEW p \in AgentOp, NEW sym \in Tokens \cup {NoSym}, Client!OrderCall(c, p, sym)
        PROVE  RestInv'
    <2>1. PICK o \in Orders :
             \E w \in Client!Posted(o) :
                Client!AgentCall(c, p, sym, [given |-> o, sent |-> w])
      BY <1>1 DEF Client!OrderCall
    <2>2. PICK w \in Client!Posted(o) :
             Client!AgentCall(c, p, sym, [given |-> o, sent |-> w])
      BY <2>1
    <2>3. [given |-> o, sent |-> w] \in Sent BY <2>1, <2>2 DEF Sent
    <2> QED BY <2>2, <2>3, AgentCallInv
  <1>2. CASE op = "query" /\ Client!AgentCall(c, op, NoSym, NoOrder)
    BY <1>2, AgentCallInv DEF AgentOp
  <1>3. CASE op = "modify" /\ Client!OrderCall(c, op, NoSym) BY <1>1, <1>3 DEF AgentOp
  <1>4. CASE /\ op \in {"order", "transfer", "subscribe"}
             /\ \E t \in Traded : Client!AgentCall(c, op, t, NoOrder)
    BY <1>4, AgentCallInv, TradedAssumption DEF AgentOp
  <1>5. CASE op = "order" /\ \E t \in Traded : Client!OrderCall(c, op, t)
    BY <1>1, <1>5, TradedAssumption DEF AgentOp
  <1>6. CASE op = "perp" /\ \E s \in Symbols : Client!PerpCall(c, s)
    BY <1>6, PerpCallInv
  <1> QED BY <1>2, <1>3, <1>4, <1>5, <1>6 DEF Client!Start

LEMMA GrantedInv ==
    ASSUME RestInv, NEW c \in Callers, Client!Granted(c) PROVE RestInv'
  <1> DEFINE x == call[c]
             y == Client!Recheck(x)
  <1>1. /\ call' = [call EXCEPT ![c] = y]
        /\ lock = NoCaller
        /\ lock' = IF Client!HoldsLock(y) THEN c ELSE NoCaller
        /\ UNCHANGED <<api, cache, listed>>
    BY DEF Client!Granted, Client!GoOn, Client!LockFor
  <1>2. x \in Shape /\ api \in Api /\ (x.known => x.sym \in listed)
    BY UnderWay DEF RestInv, Sound, Known, Client!Granted
  <1> HIDE DEF x
  <1>3. Sound(c, y, cache, lock', listed')
    <2>1. CASE x.sym \in cache
      <3>1. y = Client!Send(x, api) BY <2>1 DEF Client!Recheck
      <3> QED BY <1>1, <1>2, <2>1, <3>1, SendSound
    <2>2. CASE x.sym \notin cache
      <3>1. y = Client!Market(x, api) BY <2>2 DEF Client!Recheck
      <3> HIDE DEF y
      <3>2. Client!HoldsLock(y) BY <1>2, <2>2, <3>1, MarketSound
      <3> QED BY <1>1, <1>2, <2>2, <3>1, <3>2, MarketSound
    <2> QED BY <2>1, <2>2
  <1> HIDE DEF y
  <1> QED BY <1>1, <1>3, GoOnInv

LEMMA TokensArriveInv ==
    ASSUME RestInv, NEW c \in Callers, NEW tokens \in TokenAnswers,
           Client!TokensArrive(c, tokens)
    PROVE  RestInv'
  <1> DEFINE x == call[c]
             a == Client!Loaded(tokens)
             y == Client!Initialised(x, a)
  <1>1. /\ x.at = "init" /\ call' = [call EXCEPT ![c] = y]
        /\ api' = a /\ UNCHANGED <<cache, listed>>
        /\ lock' = IF lock = c THEN IF Client!HoldsLock(y) THEN c ELSE NoCaller ELSE lock
    BY DEF Client!TokensArrive, Client!GoOn, Client!Held, Client!LockFor
  <1>2. a = api \/ (a \in Api /\ a.tokens # {})
    BY AnswerAssumption DEF Client!Loaded, Api
  <1>3. /\ x \in Shape /\ Sound(c, x, cache, lock, listed) /\ a \in Api
        /\ x.known => x.sym \in listed
    BY <1>1, <1>2, UnderWay DEF RestInv, Sound, Known
  <1> HIDE DEF x, a
  <1>4. Sound(c, y, cache, lock', listed')
    <2>1. CASE x.next = "lookup"
      <3>1. y = Client!Lookup(x, a) BY <2>1 DEF Client!Initialised
      <3>2. x.op # "perp" BY <1>1, <1>3, <2>1 DEF Sound
      <3> QED BY <1>1, <1>3, <3>1, <3>2, LookupSound
    <2>2. CASE x.next = "market"
      <3> DEFINE z == [x EXCEPT !.at = "market", !.next = "none"]
      <3>1. y = z BY <2>2 DEF Client!Initialised, Client!Request
      <3>2. /\ z \in Shape /\ z.known = x.known
            /\ z.at = "market" /\ z.sym = x.sym
        BY <1>3 DEF Shape
      <3>3. lock = c /\ x.sym \notin cache
        BY <1>1, <1>3, <2>2 DEF Sound, AnyCall, Client!HoldsLock
      <3> HIDE DEF z, y
      <3>4. Client!HoldsLock(y) BY <3>1, <3>2 DEF Client!HoldsLock
      <3>5. lock' = c BY <1>1, <3>3, <3>4
      <3> QED BY <1>1, <1>3, <3>1, <3>2, <3>3, <3>5 DEF Sound, AnyCall, Resolved, Known
    <2>3. CASE x.next = "send"
      <3> DEFINE z == [x EXCEPT !.at = "request", !.next = "none"]
      <3>1. y = z BY <2>3 DEF Client!Initialised, Client!Request
      <3>2. /\ z \in Shape /\ z.known = x.known
            /\ z.at = "request" /\ z.sym = x.sym /\ z.op = x.op
        BY <1>3 DEF Shape
      <3>3. x.op = "perp" => x.sym \in cache BY <1>1, <1>3, <2>3 DEF Sound, AnyCall, Resolved, Known
      <3> HIDE DEF z, y
      <3> QED BY <1>1, <1>3, <3>1, <3>2, <3>3 DEF Sound, AnyCall, Client!HoldsLock, Resolved, Known
    <2> QED BY <1>1, <1>3, <2>1, <2>2, <2>3 DEF Sound, Shape
  <1> HIDE DEF y
  <1> QED BY <1>1, <1>2, <1>4, GoOnInv

(* A thread that holds the lock misses its symbol, so a fetch that fails    *)
(* has nothing cached to serve: the call ends.                              *)
LEMMA FailedIdle ==
    ASSUME RestInv, NEW c \in Callers
    PROVE  Client!Failed(call[c]) = Client!Idle
  BY DEF RestInv, Sound, Client!Failed

LEMMA EndInv ==
    ASSUME RestInv, NEW c \in Callers, call' = [call EXCEPT ![c] = Client!Idle],
           lock' = lock \/ lock' = Client!Released(c), UNCHANGED <<api, cache, listed>>
    PROVE  RestInv'
  <1> DEFINE idle == Client!Idle
  <1>1. Sound(c, idle, cache', lock', listed') BY IdleSound
  <1>2. call' = [call EXCEPT ![c] = idle] OBVIOUS
  <1> HIDE DEF idle
  <1> QED BY <1>1, <1>2, GoOnInv DEF Client!Released

LEMMA MarketsServedInv ==
    ASSUME RestInv, NEW c \in Callers, Client!MarketsServed(c) PROVE RestInv'
  <1> DEFINE y == [call[c] EXCEPT !.at = "served", !.answer = listed]
  <1>1. call[c] \in Shape /\ call[c].at = "market" /\ Sound(c, call[c], cache, lock, listed)
    BY UnderWay DEF RestInv, Client!MarketsServed
  <1>2. /\ call' = [call EXCEPT ![c] = y]
        /\ UNCHANGED <<api, cache, lock, listed>>
    BY DEF Client!MarketsServed, RestInv
  <1>3. /\ y \in Shape /\ y.at = "served" /\ y.sym = call[c].sym
        /\ y.known = call[c].known /\ y.answer = listed
    BY <1>1 DEF Shape, RestInv
  <1> HIDE DEF y
  <1>4. Sound(c, y, cache, lock, listed) BY <1>1, <1>3 DEF Sound, AnyCall, Client!HoldsLock, Resolved, Known
  <1> QED BY <1>2, <1>4, GoOnInv

LEMMA MarketsArriveInv ==
    ASSUME RestInv, NEW c \in Callers, Client!MarketsArrive(c) PROVE RestInv'
  <1> DEFINE x == [call[c] EXCEPT !.answer = {}]
             y == IF x.sym \in cache' THEN Client!Send(x, api) ELSE Client!Idle
  <1>1. /\ call[c] \in Shape /\ call[c].at = "served" /\ lock = c
        /\ call[c].answer \subseteq Symbols
        /\ call[c].known => call[c].sym \in listed
    <2>1. call[c].at = "served" BY DEF Client!MarketsArrive
    <2>2. call[c] \in Shape BY <2>1, UnderWay
    <2> QED BY <2>1, <2>2 DEF RestInv, Sound, Known, Client!HoldsLock, Shape
  <1>2. x \in Shape /\ x.sym = call[c].sym /\ x.known = call[c].known
    BY <1>1 DEF Shape
  <1>3. /\ call' = [call EXCEPT ![c] = y]
        /\ cache' = cache \cup call[c].answer
        /\ lock' = NoCaller
        /\ UNCHANGED <<api, listed>>
    BY <1>1 DEF Client!MarketsArrive, Client!GoOn, Client!Merged, Client!Released
  <1> HIDE DEF x
  <1>4. Sound(c, y, cache', lock', listed')
    <2>1. CASE x.sym \in cache' BY <1>1, <1>2, <1>3, <2>1, SendSound DEF RestInv
    <2>2. CASE x.sym \notin cache' BY <2>2, IdleSound
    <2> QED BY <2>1, <2>2
  <1> HIDE DEF y
  <1>5. cache \subseteq cache' /\ cache' \subseteq Symbols BY <1>1, <1>3 DEF RestInv
  <1> QED BY <1>1, <1>3, <1>4, <1>5, GoOnInv

LEMMA IdleUnlisted == [Client!Idle EXCEPT !.known = FALSE] = Client!Idle
  <1> DEFINE idle == Client!Idle
             Form == [at : {"idle"}, op : {"none"}, sym : {NoSym}, order : {NoOrder},
                      next : {"none"}, known : BOOLEAN, answer : {{}}]
  <1>1. idle \in Form /\ idle.known = FALSE BY DEF Client!Idle
  <1> HIDE DEF idle
  <1>2. [idle EXCEPT !.known = FALSE] = idle BY <1>1
  <1> QED BY <1>2 DEF idle

LEMMA ExchangeInv == ASSUME RestInv, Client!Exchange PROVE RestInv'
  <1> DEFINE y(c) == [call[c] EXCEPT !.known = @ /\ call[c].sym \in listed']
  <1>1. /\ call' = [c \in Callers |-> y(c)]
        /\ listed' \in Listings
        /\ UNCHANGED <<api, cache, lock>>
    BY DEF Client!Exchange
  <1>2. ASSUME NEW c \in Callers
        PROVE  y(c) \in AnyCall /\ Sound(c, y(c), cache, lock, listed')
    <2>1. call[c] \in AnyCall /\ Sound(c, call[c], cache, lock, listed) BY DEF RestInv
    <2> DEFINE z == y(c)
    <2>2. CASE call[c] \in Shape
      <3>1. /\ z \in Shape
            /\ z.at = call[c].at /\ z.op = call[c].op
            /\ z.sym = call[c].sym /\ z.next = call[c].next
            /\ z.answer = call[c].answer
            /\ z.known => call[c].known /\ call[c].sym \in listed'
        BY <2>2 DEF Shape
      <3> HIDE DEF z
      <3>2. Sound(c, z, cache, lock, listed')
        BY <2>1, <3>1 DEF Sound, AnyCall, Client!HoldsLock, Resolved, Known
      <3> QED BY <3>1, <3>2 DEF z, AnyCall
    <2>3. CASE call[c] = Client!Idle
      <3>1. (call[c].known /\ call[c].sym \in listed') = FALSE BY <2>3 DEF Client!Idle
      <3>2. z = [Client!Idle EXCEPT !.known = FALSE] BY <2>3, <3>1
      <3>3. [Client!Idle EXCEPT !.known = FALSE] = Client!Idle BY IdleUnlisted
      <3> QED BY <3>2, <3>3, IdleSound DEF AnyCall
    <2> QED BY <2>1, <2>2, <2>3 DEF AnyCall
  <1> HIDE DEF y
  <1>3. call' \in [Callers -> AnyCall] /\ \A c \in Callers : call'[c] = y(c)
    BY <1>1, <1>2
  <1>4. \A c \in Callers : Sound(c, call'[c], cache', lock', listed')
    BY <1>1, <1>2, <1>3
  <1>5. listed' \subseteq Symbols BY <1>1, AnswerAssumption
  <1> QED BY <1>1, <1>3, <1>4, <1>5 DEF RestInv, InitializedHasTokens

LEMMA RestNextInv ==
    ASSUME TypeOK, RestInv, [AgentNext]_agentVars PROVE RestInv'
  <1>1. CASE UNCHANGED clientVars
    <2>1. /\ api' = api /\ cache' = cache /\ lock' = lock
          /\ call' = call /\ listed' = listed
      BY <1>1 DEF clientVars
    <2> QED BY <2>1 DEF RestInv, InitializedHasTokens
  <1>2. ASSUME NEW c \in Callers, Client!Proceed(c) PROVE RestInv'
    <2>1. CASE Client!Granted(c) BY <2>1, GrantedInv
    <2>2. CASE Client!MarketsServed(c) BY <2>2, MarketsServedInv
    <2>3. CASE \E tokens \in TokenAnswers : Client!TokensArrive(c, tokens)
      BY <2>3, TokensArriveInv
    <2>4. CASE Client!TokensFail(c)
      BY <2>4, FailedIdle, EndInv DEF Client!TokensFail, Client!GoOn
    <2>5. CASE Client!MarketsArrive(c) BY <2>5, MarketsArriveInv
    <2>6. CASE Client!MarketsFail(c)
      BY <2>6, FailedIdle, EndInv DEF Client!MarketsFail, Client!GoOn
    <2>7. CASE Client!Response(c) BY <2>7, EndInv DEF Client!Response, Client!GoOn
    <2> QED BY <1>2, <2>1, <2>2, <2>3, <2>4, <2>5, <2>6, <2>7
            DEF Client!Proceed, Client!Answered
  <1>3. ASSUME NEW c \in Callers, ClientStep(c) PROVE RestInv'
    BY <1>2, <1>3, StartInv DEF ClientStep
  <1>4. ASSUME NEW c \in Callers, DepositCall(c) PROVE RestInv'
    <2>1. dep[c].token \in Tokens BY DEF TypeOK, Dep
    <2> QED BY <1>4, <2>1, AgentCallInv DEF DepositCall, AgentOp
  <1>5. ASSUME NEW c \in Callers, HandBack(c) PROVE RestInv'
    BY <1>5, EndInv DEF HandBack, Client!Bridged, Client!GoOn
  <1>6. CASE Client!Exchange BY <1>6, ExchangeInv
  <1> QED BY <1>1, <1>3, <1>4, <1>5, <1>6 DEF AgentNext, HandOver, L1Step, agentVars

LEMMA RestInvariant == AgentSpec => []RestInv
  <1>1. TypeOK /\ RestInv /\ [AgentNext]_agentVars => RestInv' BY RestNextInv
  <1>2. AgentSpec => []TypeOK BY AgentDeposits, DepositTypeCorrect, PTL
  <1> QED BY <1>1, <1>2, RestInitInv, PTL DEF AgentSpec

(* An initialised API has tokens and keeps having them, however many        *)
(* threads initialise it at once (api.py:35-44).                            *)
THEOREM AgentHasTokens == AgentSpec => []InitializedHasTokens
  <1>1. RestInv => InitializedHasTokens BY DEF RestInv
  <1> QED BY <1>1, RestInvariant, PTL

(* A miss herd is one fetch: only the thread that holds the lock fetches,   *)
(* and only for a symbol that is not cached (perp/agent.py:76-93); so what  *)
(* a failing fetch might serve from the cache (lines 90-92) is never there. *)
THEOREM HerdIsOneFetch == AgentSpec => []NoNeedlessFetch
  <1>1. RestInv => NoNeedlessFetch BY DEF RestInv, NoNeedlessFetch, Sound
  <1> QED BY <1>1, RestInvariant, PTL

(* A perp request carries an id that all threads find in the cache          *)
(* (perp/agent.py:71-74, 95-107).                                           *)
THEOREM PerpRequestsResolved == AgentSpec => []RequestsResolved
  <1>1. RestInv => RequestsResolved BY DEF RestInv, RequestsResolved, Sound
  <1> QED BY <1>1, RestInvariant, PTL

(* A fetch under the lock does not refuse a listed symbol, nor does the     *)
(* second look (perp/agent.py:76-113).                                      *)
LEMMA ListedStep ==
    ASSUME RestInv, NEW c \in Callers, call[c].known,
           Client!Granted(c) \/ Client!MarketsArrive(c)
    PROVE  call'[c].at # "idle"
  <1>1. call[c] \in Shape /\ api \in Api /\ Sound(c, call[c], cache, lock, listed)
    BY UnderWay DEF RestInv, Client!Granted, Client!MarketsArrive
  <1>2. CASE Client!Granted(c)
    <2>1. call'[c] = Client!Recheck(call[c])
      BY <1>2 DEF RestInv, Client!Granted, Client!GoOn
    <2>2. call[c].known => call[c].sym \in listed BY <1>1 DEF Sound, Known
    <2>3. CASE call[c].sym \in cache
      <3>1. call'[c] = Client!Send(call[c], api) BY <2>1, <2>3 DEF Client!Recheck
      <3> QED BY <1>1, <2>2, <2>3, <3>1, SendSound
    <2>4. CASE call[c].sym \notin cache
      <3>1. call'[c] = Client!Market(call[c], api) BY <2>1, <2>4 DEF Client!Recheck
      <3> QED BY <1>1, <2>2, <2>4, <3>1, MarketSound
    <2> QED BY <2>3, <2>4
  <1>3. CASE Client!MarketsArrive(c)
    <2> DEFINE x == [call[c] EXCEPT !.answer = {}]
    <2>1. /\ x \in Shape /\ x.sym = call[c].sym /\ x.known = call[c].known
      BY <1>1 DEF Shape
    <2>2. call[c].sym \in call[c].answer /\ call[c].sym \in listed
      BY <1>1, <1>3 DEF Sound, Known, Client!MarketsArrive
    <2>3. call[c].sym \in cache' BY <1>3, <2>2 DEF Client!MarketsArrive, Client!Merged
    <2>4. call'[c] = Client!Send(x, api)
      BY <1>3, <2>1, <2>3 DEF RestInv, Client!MarketsArrive, Client!GoOn
    <2> HIDE DEF x
    <2> QED BY <1>1, <2>1, <2>2, <2>3, <2>4, SendSound
  <1> QED BY <1>2, <1>3

(* A symbol that is listed all the time of a call is never refused as       *)
(* unknown, whichever thread fetched the markets and whatever fetch failed  *)
(* meanwhile (perp/agent.py:84-93, 109-113).                                *)
THEOREM ListedIsResolved == AgentSpec => ListedResolves
  <1>1. RestInv =>
          [\A c \in Callers :
              /\ Client!Granted(c) \/ Client!MarketsArrive(c)
              /\ call[c].known
              => call'[c].at # "idle"]_agentVars
    BY ListedStep
  <1> QED BY <1>1, RestInvariant, PTL DEF AgentSpec, ListedResolves

-----------------------------------------------------------------------------
(* Orders.  The grid is that of Normalize, whose theorems apply.            *)

LEMMA SameGrid ==
    /\ Client!Order = Order /\ Client!Decimal = Decimal /\ Client!Wire = Wire
    /\ \A o : Client!Posted(o) = Posted(o)
    /\ \A p, q : Client!PairOnGrid(p, q) = PairOnGrid(p, q)
  <1>1. Client!Decimal = Decimal BY DEF Client!Decimal, Decimal
  <1>2. Client!Tpsl = Tpsl BY <1>1 DEF Client!Tpsl, Tpsl, Client!TpslPrice, TpslPrice
  <1>3. Client!NoTpsl = NoTpsl
    BY DEF Client!NoTpsl, NoTpsl, Client!TpslPrice, TpslPrice, Client!Zero, Zero
  <1>4. \A t : Client!TpslSent(t) = TpslSent(t)
    BY <1>3 DEF Client!TpslSent, TpslSent
  <1>5. Client!Wire = Wire BY <1>1, <1>2 DEF Client!Wire, Wire
  <1>6. Client!Order = Order BY <1>1, <1>2, <1>3 DEF Client!Order, Order
  <1>7. Client!Unit = Unit BY DEF Client!Unit, Unit
  <1>8. Client!Bands = Bands BY DEF Client!Bands, Bands
  <1>9. \A x, n : Client!AtLeast(x, n) = AtLeast(x, n)
    BY <1>7 DEF Client!AtLeast, AtLeast
  <1>10. \A x : Client!Band(x) = Band(x) BY <1>8, <1>9 DEF Client!Band, Band
  <1>11. \A x, d : Client!Rounded(x, d) = Rounded(x, d)
    BY <1>7 DEF Client!Rounded, Rounded
  <1>12. \A p, q : Client!normalize_price_quantity(p, q) = normalize_price_quantity(p, q)
    BY <1>10, <1>11 DEF Client!normalize_price_quantity, normalize_price_quantity
  <1>13. \A x, d : Client!OnGrid(x, d) = OnGrid(x, d) BY <1>7 DEF Client!OnGrid, OnGrid
  <1>14. \A p, q : Client!PairOnGrid(p, q) = PairOnGrid(p, q)
    BY <1>10, <1>13 DEF Client!PairOnGrid, PairOnGrid
  <1>15. Client!Zero = Zero BY DEF Client!Zero, Zero
  <1>16. \A o : Client!StopOrder(o) = StopOrder(o)
    BY <1>12, <1>3 DEF Client!StopOrder, StopOrder
  <1>17. \A o : /\ Client!resolve_spot_order_price_quantity(o)
                    = resolve_spot_order_price_quantity(o)
    BY <1>12, <1>15
    DEF Client!resolve_spot_order_price_quantity, resolve_spot_order_price_quantity
  <1>18. \A o : Client!Posted(o) = Posted(o)
    BY <1>15, <1>16, <1>17, <1>4 DEF Client!Posted, Posted
  <1> QED BY <1>1, <1>6, <1>14, <1>18, <1>5

LEMMA OrderSent ==
    ASSUME RestInv, NEW c \in Callers, call[c].order # NoOrder
    PROVE  call[c].order.given \in Order /\ call[c].order.sent \in Posted(call[c].order.given)
  <1>1. call[c].order \in Sent
    <2>1. call[c] \in AnyCall BY DEF RestInv
    <2> QED BY <2>1 DEF AnyCall, Shape, Client!Idle
  <1>2. PICK o \in Orders :
          call[c].order \in {[given |-> o, sent |-> w] : w \in Client!Posted(o)}
    BY <1>1 DEF Sent
  <1> QED BY <1>2, SameGrid, OrderAssumption

LEMMA SentType == Sent \subseteq Client!Sendable
  <1> SUFFICES ASSUME NEW s \in Sent PROVE s \in Client!Sendable
    OBVIOUS
  <1>1. PICK o \in Orders : s \in {[given |-> o, sent |-> w] : w \in Client!Posted(o)}
    BY DEF Sent
  <1>2. PICK w \in Client!Posted(o) : s = [given |-> o, sent |-> w] BY <1>1
  <1>3. w \in Wire
    BY <1>2, SameGrid, OrderAssumption, PostedType
  <1> QED BY <1>2, <1>3, SameGrid DEF Client!Sendable

(* Every variable of an Agent keeps its type, the deposits and what is sent *)
(* for an order included (api.py:22-33, perp/agent.py:27-31).               *)
THEOREM AgentTypeCorrect == AgentSpec => []AgentTypeOK
  <1>1. Shape \subseteq Client!Call
    <2>1. Sent \cup {NoOrder} \subseteq Client!Sendable \cup {NoOrder} BY SentType
    <2> QED BY <2>1 DEF Shape, Client!Call, Client!Op
  <1>2. RestInv => Client!TypeOK
    BY <1>1 DEF RestInv, AnyCall, Client!TypeOK, Api
  <1>3. AgentSpec => []TypeOK BY AgentDeposits, DepositTypeCorrect, PTL
  <1>4. TypeOK /\ RestInv => AgentTypeOK BY <1>2 DEF AgentTypeOK
  <1> QED BY <1>3, <1>4, RestInvariant, PTL

(* Whichever thread sends it and whatever it had to wait for, the price and *)
(* the quantity of a limit, stop or modified order go out on the grid of    *)
(* that price (utils.py:91-97); what a limit order attaches does not        *)
(* matter, and nothing is said of it.                                       *)
THEOREM AgentPairsOnGrid == AgentSpec => []PairsOnGrid
  <1>1. ASSUME RestInv, NEW c \in Callers, call[c].order # NoOrder,
               call[c].order.given.kind # "market"
        PROVE  Client!PairOnGrid(call[c].order.sent.price, call[c].order.sent.quantity)
    BY <1>1, OrderSent, SameGrid, PostedPairOnGrid
  <1>2. RestInv => PairsOnGrid BY <1>1 DEF PairsOnGrid
  <1> QED BY <1>2, RestInvariant, PTL

(* A stop order goes out with its trigger on the side of its price it was   *)
(* given on (api.py:398-399).                                               *)
THEOREM AgentStopSideKept == AgentSpec => []StopSideKept
  <1>1. ASSUME RestInv, NEW c \in Callers, call[c].order # NoOrder,
               call[c].order.given.kind = "stop"
        PROVE  LET o == call[c].order
               IN  /\ o.given.stop.m <= o.given.price.m => o.sent.stop.m <= o.sent.price.m
                   /\ o.given.stop.m >= o.given.price.m => o.sent.stop.m >= o.sent.price.m
    BY <1>1, OrderSent, PostedKeepsSide
  <1>2. RestInv => StopSideKept BY <1>1 DEF StopSideKept
  <1> QED BY <1>2, RestInvariant, PTL
=============================================================================
