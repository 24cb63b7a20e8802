------------------------- MODULE AsyncClientProofs -------------------------
(***************************************************************************)
(* Theorems about AsyncClient, for every set of callers, tokens and        *)
(* symbols and every list the token endpoint may answer with.              *)
(***************************************************************************)
EXTENDS AsyncClient, TLAPS

(* The inductive invariant.  An initialisation is always the beginning of   *)
(* something, and a call of the perp agent neither enters the API through   *)
(* one nor reads the token maps after one.                                  *)
Going ==
    {x \in Call : x.at = "init" =>
         x.next # "none" /\ (x.next \in {"enter", "lookup"} => x.op # "perp")}
AnyCall == Going \cup IdleCall

FetchInv ==
    TypeOK /\ call \in [Callers -> AnyCall] /\ NoNeedlessFetch /\ RequestsResolved

-----------------------------------------------------------------------------
(* What the operators that continue a call return.                         *)

LEMMA IdleType ==
    ASSUME NEW result \in {"none", "ok", "unknown", "error", "assert"}
    PROVE  Idle(result) \in AnyCall /\ ~HoldsLock(Idle(result)) /\ ~Resolved(Idle(result))
  BY DEF AnyCall, IdleCall, Idle, HoldsLock, Resolved

LEMMA RequestType ==
    ASSUME NEW x \in Call, NEW a, NEW at \in {"market", "request"}
    PROVE  /\ Request(x, at, a) \in AnyCall
           /\ HoldsLock(Request(x, at, a)) => at = "market" /\ Request(x, at, a).sym = x.sym
           /\ Resolved(Request(x, at, a)) =>
                 at = "request" /\ Request(x, at, a).sym = x.sym /\ x.op = "perp"
  <1>1. CASE a.client = "open"
    <2>1. Request(x, at, a) = [x EXCEPT !.at = at, !.next = "none", !.orphan = FALSE]
      BY <1>1 DEF Request
    <2> QED BY <2>1 DEF AnyCall, Going, Call, HoldsLock, Resolved
  <1>2. CASE a.client # "open"
    <2>1. Request(x, at, a) \in {Idle("error"), Idle("assert")} BY <1>2 DEF Request
    <2> QED BY <2>1, IdleType
  <1> QED BY <1>1, <1>2

LEMMA EnsureType ==
    ASSUME NEW x \in Call, NEW a, NEW goesOn \in AnyCall,
           NEW next \in {"enter", "lookup", "market", "send"},
           next \in {"enter", "lookup"} => x.op # "perp"
    PROVE  /\ Ensure(x, next, a, goesOn) \in AnyCall
           /\ HoldsLock(Ensure(x, next, a, goesOn)) =>
                 \/ HoldsLock(goesOn) /\ Ensure(x, next, a, goesOn) = goesOn
                 \/ next = "market" /\ Ensure(x, next, a, goesOn).sym = x.sym
           /\ Resolved(Ensure(x, next, a, goesOn)) =>
                 \/ Resolved(goesOn) /\ Ensure(x, next, a, goesOn) = goesOn
                 \/ /\ next = "send" /\ x.op = "perp"
                    /\ Ensure(x, next, a, goesOn).sym = x.sym
  <1>1. CASE a.initialized BY <1>1 DEF Ensure
  <1>2. CASE ~a.initialized /\ a.client = "closed"
    <2>1. Ensure(x, next, a, goesOn) = Idle("error") BY <1>2 DEF Ensure
    <2> QED BY <2>1, IdleType
  <1>3. CASE ~a.initialized /\ a.client # "closed"
    <2>1. Ensure(x, next, a, goesOn)
              = [x EXCEPT !.at = "init", !.next = next, !.orphan = FALSE]
      BY <1>3 DEF Ensure
    <2> QED BY <2>1 DEF AnyCall, Going, Call, HoldsLock, Resolved
  <1> QED BY <1>1, <1>2, <1>3

LEMMA SendType ==
    ASSUME NEW x \in Call, NEW a
    PROVE  /\ Send(x, a) \in AnyCall /\ ~HoldsLock(Send(x, a))
           /\ Resolved(Send(x, a)) => x.op = "perp" /\ Send(x, a).sym = x.sym
  <1>1. /\ Request(x, "request", a) \in AnyCall /\ ~HoldsLock(Request(x, "request", a))
        /\ Resolved(Request(x, "request", a)) =>
              x.op = "perp" /\ Request(x, "request", a).sym = x.sym
    BY RequestType
  <1> QED BY <1>1, EnsureType DEF Send

LEMMA MarketType ==
    ASSUME NEW x \in Call, NEW a
    PROVE  /\ Market(x, a) \in AnyCall /\ ~Resolved(Market(x, a))
           /\ HoldsLock(Market(x, a)) => Market(x, a).sym = x.sym
  <1>1. /\ Request(x, "market", a) \in AnyCall /\ ~Resolved(Request(x, "market", a))
        /\ HoldsLock(Request(x, "market", a)) => Request(x, "market", a).sym = x.sym
    BY RequestType
  <1> QED BY <1>1, EnsureType DEF Market

LEMMA LookupType ==
    ASSUME NEW x \in Call, NEW a, x.op # "perp"
    PROVE  Lookup(x, a) \in AnyCall /\ ~HoldsLock(Lookup(x, a)) /\ ~Resolved(Lookup(x, a))
  <1>1. CASE x.sym \notin a.tokens
    BY <1>1, IdleType DEF Lookup
  <1>2. CASE x.sym \in a.tokens /\ x.op = "subscribe"
    <2>1. Lookup(x, a) = Idle("ok") BY <1>2 DEF Lookup
    <2> QED BY <2>1, IdleType
  <1>3. CASE x.sym \in a.tokens /\ x.op # "subscribe"
    <2>1. Lookup(x, a) = Send(x, a) BY <1>3 DEF Lookup
    <2> QED BY <2>1, SendType
  <1> QED BY <1>1, <1>2, <1>3

LEMMA EnterType ==
    ASSUME NEW x \in Call, NEW a, x.op # "perp"
    PROVE  Enter(x, a) \in AnyCall /\ ~HoldsLock(Enter(x, a)) /\ ~Resolved(Enter(x, a))
  <1>1. CASE x.op = "open" BY <1>1, IdleType DEF Enter
  <1>2. CASE x.op = "query" BY <1>2, SendType DEF Enter
  <1>3. CASE x.op = "order"
    <2>1. Enter(x, a) = Ensure(x, "lookup", a, Lookup(x, a)) BY <1>3 DEF Enter
    <2>2. Lookup(x, a) \in AnyCall /\ ~HoldsLock(Lookup(x, a)) /\ ~Resolved(Lookup(x, a))
      BY LookupType
    <2> QED BY <2>1, <2>2, EnsureType
  <1>4. CASE x.op = "subscribe" BY <1>4, LookupType DEF Enter
  <1> QED BY <1>1, <1>2, <1>3, <1>4 DEF Call, Op

LEMMA InitialisedType ==
    ASSUME NEW x \in Going, NEW a, x.at = "init"
    PROVE  /\ Initialised(x, a) \in AnyCall
           /\ HoldsLock(Initialised(x, a)) =>
                 HoldsLock(x) /\ Initialised(x, a).sym = x.sym
           /\ Resolved(Initialised(x, a)) => Resolved(x) /\ Initialised(x, a).sym = x.sym
  <1>1. x \in Call BY DEF Going
  <1>2. CASE x.next = "enter"
    <2>1. Initialised(x, a) = Enter(x, a) BY <1>2 DEF Initialised
    <2> QED BY <1>1, <1>2, <2>1, EnterType DEF Going
  <1>3. CASE x.next = "lookup"
    <2>1. Initialised(x, a) = Lookup(x, a) BY <1>3 DEF Initialised
    <2> QED BY <1>1, <1>3, <2>1, LookupType DEF Going
  <1>4. CASE x.next = "market"
    <2>1. Initialised(x, a) = Request(x, "market", a) BY <1>4 DEF Initialised
    <2> QED BY <1>1, <1>4, <2>1, RequestType DEF HoldsLock
  <1>5. CASE x.next = "send"
    <2>1. Initialised(x, a) = Request(x, "request", a) BY <1>5 DEF Initialised
    <2> QED BY <1>1, <1>5, <2>1, RequestType DEF Resolved
  <1> QED BY <1>1, <1>2, <1>3, <1>4, <1>5 DEF Going, Call

LEMMA WithClientType ==
    ASSUME NEW x, NEW a \in Api PROVE WithClient(x, a) \in Api
  BY DEF WithClient, Api

-----------------------------------------------------------------------------
(* A step of one call keeps the invariant if its next record is a call, the *)
(* lock changes hands only through it, and what it fetches is not cached.   *)

LEMMA OneCallStep ==
    ASSUME FetchInv, NEW c \in Callers, NEW x \in AnyCall, NEW a \in Api,
           GoOn(c, x, a),
           UNCHANGED <<closing, listed>>, late' \in BOOLEAN,
           queue' \in Seq(Callers),
           cache \subseteq cache', cache' \subseteq Symbols,
           \/ UNCHANGED lock /\ ~HoldsLock(x)
           \/ lock \in {c, NoCaller} /\ lock' = LockFor(c, x),
           lock = c \/ UNCHANGED cache,
           HoldsLock(x) => x.sym \notin cache',
           Resolved(x) => x.sym \in cache'
    PROVE  FetchInv'
  <1> DEFINE y == [call EXCEPT ![c] = x]
  <1>1. call' \in [Callers -> AnyCall]
    BY DEF FetchInv, GoOn
  <1>2. TypeOK'
    <2>1. call' \in [Callers -> Call \cup IdleCall] BY <1>1 DEF AnyCall, Going
    <2>2. api' \in Api BY WithClientType DEF GoOn
    <2>3. lock' \in Callers \cup {NoCaller} BY DEF FetchInv, TypeOK, LockFor
    <2> QED BY <2>1, <2>2, <2>3 DEF FetchInv, TypeOK
  <1>3. ASSUME NEW d \in Callers, HoldsLock(call'[d])
        PROVE  lock' = d /\ call'[d].sym \notin cache'
    <2>1. CASE d = c
      <3>1. call'[d] = x BY <2>1 DEF FetchInv, GoOn
      <3> QED BY <1>3, <2>1, <3>1 DEF LockFor
    <2>2. CASE d # c
      <3>1. call'[d] = call[d] BY <2>2 DEF FetchInv, GoOn
      <3>2. lock = d /\ call[d].sym \notin cache
        BY <1>3, <3>1 DEF FetchInv, NoNeedlessFetch
      <3> QED BY <2>2, <3>1, <3>2, NoneAssumption
    <2> QED BY <2>1, <2>2
  <1>4. ASSUME NEW d \in Callers, Resolved(call'[d]) PROVE call'[d].sym \in cache'
    <2>1. CASE d = c BY <1>4, <2>1 DEF FetchInv, GoOn
    <2>2. CASE d # c
      <3>1. call'[d] = call[d] BY <2>2 DEF FetchInv, GoOn
      <3> QED BY <1>4, <3>1 DEF FetchInv, RequestsResolved
    <2> QED BY <2>1, <2>2
  <1> QED BY <1>1, <1>2, <1>3, <1>4 DEF FetchInv, NoNeedlessFetch, RequestsResolved

LEMMA NewCallType ==
    ASSUME NEW op \in Op, NEW sym \in Tokens \cup Symbols \cup {NoSym}
    PROVE  /\ NewCall(op, sym) \in Call
           /\ NewCall(op, sym).op = op /\ NewCall(op, sym).sym = sym
  BY DEF NewCall, Call

LEMMA AgentCallStep ==
    ASSUME FetchInv, NEW c \in Callers, NEW op \in Op,
           NEW sym \in Tokens \cup {NoSym}, AgentCall(c, op, sym)
    PROVE  FetchInv'
  <1> DEFINE x == NewCall(op, sym)
             a == [api EXCEPT !.made = TRUE]
             y == IF api.made THEN Enter(x, a) ELSE Ensure(x, "enter", a, x)
  <1>1. x \in Call /\ x.op # "perp" BY NewCallType DEF AgentCall
  <1>2. a \in Api BY DEF FetchInv, TypeOK, Api
  <1>3. x \in Going /\ ~HoldsLock(x) /\ ~Resolved(x)
    BY <1>1 DEF Going, NewCall, HoldsLock, Resolved
  <1>4. y \in AnyCall /\ ~HoldsLock(y) /\ ~Resolved(y)
    <2>1. CASE api.made BY <1>1, <2>1, EnterType
    <2>2. CASE ~api.made
      <3>1. y = Ensure(x, "enter", a, x) BY <2>2
      <3> HIDE DEF x, a, y
      <3>2. x \in AnyCall BY <1>3 DEF AnyCall
      <3> QED BY <1>1, <1>3, <3>1, <3>2, EnsureType
    <2> QED BY <2>1, <2>2
  <1>5. GoOn(c, y, a) BY DEF AgentCall
  <1>6. UNCHANGED <<cache, lock, queue, closing, late, listed>>
    BY DEF AgentCall, marketVars
  <1> HIDE DEF x, a, y
  <1>7. queue' \in Seq(Callers) /\ cache' \subseteq Symbols /\ late' \in BOOLEAN
    BY <1>6 DEF FetchInv, TypeOK
  <1> QED BY <1>2, <1>4, <1>5, <1>6, <1>7, OneCallStep

LEMMA PerpCallStep ==
    ASSUME FetchInv, NEW c \in Callers, NEW sym \in Symbols, PerpCall(c, sym)
    PROVE  FetchInv'
  <1> DEFINE x == NewCall("perp", sym)
             w == [x EXCEPT !.at = "wait", !.next = "none"]
             free == lock = NoCaller /\ queue = <<>>
  <1>1. x \in Call /\ x.sym = sym BY NewCallType DEF Op
  <1>2. w \in AnyCall /\ ~HoldsLock(w) /\ ~Resolved(w)
    BY <1>1 DEF AnyCall, Going, HoldsLock, Resolved, Call
  <1>3. /\ api \in Api /\ queue \in Seq(Callers) /\ cache \subseteq Symbols
        /\ late' \in BOOLEAN
    BY DEF FetchInv, TypeOK, PerpCall
  <1>4. UNCHANGED <<cache, closing, listed>> BY DEF PerpCall
  <1>5. CASE sym \in cache
    <2>1. GoOn(c, Send(x, api), api) /\ UNCHANGED <<lock, queue>>
      BY <1>5 DEF PerpCall
    <2>2. /\ Send(x, api) \in AnyCall /\ ~HoldsLock(Send(x, api))
          /\ Resolved(Send(x, api)) => Send(x, api).sym = sym
      BY <1>1, SendType
    <2> HIDE DEF x
    <2> QED BY <1>3, <1>4, <1>5, <2>1, <2>2, OneCallStep
  <1>6. CASE sym \notin cache /\ free
    <2>1. GoOn(c, Market(x, api), api) /\ lock' = LockFor(c, Market(x, api))
          /\ UNCHANGED queue
      BY <1>6 DEF PerpCall
    <2> HIDE DEF x
    <2> QED BY <1>1, <1>3, <1>4, <1>6, <2>1, MarketType, OneCallStep
  <1>7. CASE sym \notin cache /\ ~free
    <2>1. GoOn(c, w, api) /\ queue' = Append(queue, c) /\ UNCHANGED lock
      BY <1>7 DEF PerpCall
    <2> HIDE DEF w
    <2> QED BY <1>2, <1>3, <1>4, <2>1, OneCallStep
  <1> QED BY <1>5, <1>6, <1>7

(* The record of a task that is in the middle of something. *)
LEMMA BusyIsGoing ==
    ASSUME FetchInv, NEW c \in Callers, call[c].at # "idle"
    PROVE  call[c] \in Going /\ call[c] \in Call
  BY DEF FetchInv, AnyCall, IdleCall, Idle, Going

LEMMA GrantedStep ==
    ASSUME FetchInv, NEW c \in Callers, Granted(c)
    PROVE  FetchInv'
  <1> DEFINE x == call[c]
  <1>0. x \in Call BY BusyIsGoing DEF Granted
  <1>1. /\ api \in Api /\ queue' \in Seq(Callers) /\ cache' \subseteq Symbols
        /\ late' \in BOOLEAN
    BY DEF FetchInv, TypeOK, Granted
  <1>2. GoOn(c, Recheck(x), api) /\ lock = NoCaller /\ lock' = LockFor(c, Recheck(x))
        /\ UNCHANGED <<cache, closing, listed>>
    BY DEF Granted
  <1>3. /\ Recheck(x) \in AnyCall
        /\ HoldsLock(Recheck(x)) => Recheck(x).sym \notin cache
        /\ Resolved(Recheck(x)) => Recheck(x).sym \in cache
    <2>1. CASE x.sym \in cache BY <1>0, <2>1, SendType DEF Recheck
    <2>2. CASE x.sym \notin cache
      <3>1. Recheck(x) = Market(x, api) BY <2>2 DEF Recheck
      <3> QED BY <1>0, <2>2, <3>1, MarketType
    <2> QED BY <2>1, <2>2
  <1> QED BY <1>1, <1>2, <1>3, OneCallStep

LEMMA ReleasedLock ==
    ASSUME NEW c, NEW x, ~HoldsLock(x), lock' = Released(c)
    PROVE  \/ UNCHANGED lock /\ ~HoldsLock(x)
           \/ lock \in {c, NoCaller} /\ lock' = LockFor(c, x)
  BY DEF Released, LockFor

LEMMA ResponseStep ==
    ASSUME FetchInv, NEW c \in Callers,
           \/ \E tokens \in TokenAnswers : TokensArrive(c, tokens)
           \/ TokensFail(c) \/ MarketsServed(c) \/ MarketsArrive(c)
           \/ MarketsFail(c) \/ Response(c) \/ ResponseFail(c)
    PROVE  FetchInv'
  <1>1. call[c] \in Going /\ call[c] \in Call
    BY BusyIsGoing DEF TokensArrive, TokensFail, MarketsServed, MarketsArrive,
       MarketsFail, Response, ResponseFail
  <1>2. /\ api \in Api /\ queue \in Seq(Callers)
        /\ cache \subseteq Symbols /\ listed \subseteq Symbols
    BY DEF FetchInv, TypeOK
  <1>a. late' \in BOOLEAN
    BY DEF FetchInv, TypeOK, TokensArrive, TokensFail, MarketsServed, MarketsArrive,
       MarketsFail, Response, ResponseFail
  <1>3. /\ HoldsLock(call[c]) => lock = c /\ call[c].sym \notin cache
        /\ Resolved(call[c]) => call[c].sym \in cache
    BY DEF FetchInv, NoNeedlessFetch, RequestsResolved
  <1>4. \A r \in {"ok", "error"} :
           /\ Idle(r) \in AnyCall /\ ~HoldsLock(Idle(r)) /\ ~Resolved(Idle(r))
           /\ call' = [call EXCEPT ![c] = Idle(r)] /\ api' = api => GoOn(c, Idle(r), api)
    BY IdleType DEF GoOn, WithClient, Idle
  <1>5. ASSUME NEW tokens \in TokenAnswers, TokensArrive(c, tokens) PROVE FetchInv'
    <2> DEFINE a == Loaded(tokens)
               x == Initialised(call[c], a)
    <2>1. a \in Api BY <1>2, TokenAssumption DEF Loaded, Api
    <2>2. GoOn(c, x, a) /\ lock' = Held(c, x) /\ UNCHANGED <<cache, queue, closing, listed>>
          /\ call[c].at = "init"
      BY <1>5 DEF TokensArrive
    <2>3. /\ x \in AnyCall
          /\ HoldsLock(x) => HoldsLock(call[c]) /\ x.sym = call[c].sym
          /\ Resolved(x) => Resolved(call[c]) /\ x.sym = call[c].sym
      BY <1>1, <2>2, InitialisedType
    <2> HIDE DEF x, a
    <2>4. \/ UNCHANGED lock /\ ~HoldsLock(x)
          \/ lock \in {c, NoCaller} /\ lock' = LockFor(c, x)
      BY <1>3, <2>2, <2>3 DEF Held
    <2> QED BY <1>2, <1>3, <2>1, <2>2, <2>3, <2>4, <1>a, OneCallStep
  <1>6. CASE TokensFail(c)
    <2>1. GoOn(c, Idle("error"), api) BY <1>4, <1>6 DEF TokensFail
    <2> QED BY <1>2, <1>4, <1>6, <2>1, ReleasedLock, <1>a, OneCallStep DEF TokensFail
  <1>7. CASE MarketsServed(c)
    <2> DEFINE x == [call[c] EXCEPT !.at = "served", !.answer = listed]
    <2>1. x \in AnyCall /\ x.sym = call[c].sym
      BY <1>1, <1>2 DEF AnyCall, Going, Call
    <2>2. GoOn(c, x, api)
      BY <1>1, <1>7, <2>1 DEF MarketsServed, GoOn, WithClient, FetchInv, Call
    <2>3. HoldsLock(call[c]) /\ HoldsLock(x) /\ ~Resolved(x)
      BY <1>1, <1>7 DEF MarketsServed, HoldsLock, Resolved, Call
    <2>4. UNCHANGED <<cache, lock, queue, closing, listed>>
      BY <1>7 DEF MarketsServed, marketVars
    <2> HIDE DEF x
    <2>5. lock = c /\ lock' = LockFor(c, x) /\ x.sym \notin cache'
      BY <1>3, <2>1, <2>3, <2>4 DEF LockFor
    <2>6. queue' \in Seq(Callers) /\ cache' \subseteq Symbols BY <1>2, <2>4
    <2> QED BY <1>2, <2>1, <2>2, <2>3, <2>4, <2>5, <2>6, <1>a, OneCallStep
  <1>8. CASE MarketsArrive(c)
    <2> DEFINE x == [call[c] EXCEPT !.answer = {}]
               y == IF x.sym \in cache' THEN Send(x, api) ELSE Idle("unknown")
    <2>1. x \in Call /\ call[c].answer \subseteq Symbols BY <1>1 DEF Call
    <2>2. y \in AnyCall /\ ~HoldsLock(y) /\ (Resolved(y) => y.sym \in cache')
      BY <2>1, SendType, IdleType
    <2>3. GoOn(c, y, api) /\ lock' = Released(c) /\ UNCHANGED <<queue, closing, listed>>
          /\ cache' = cache \cup call[c].answer
      BY <1>8 DEF MarketsArrive, Merged
    <2>4. lock = c BY <1>1, <1>3, <1>8 DEF MarketsArrive, HoldsLock, Call
    <2> HIDE DEF x, y
    <2>5. \/ UNCHANGED lock /\ ~HoldsLock(y)
          \/ lock \in {c, NoCaller} /\ lock' = LockFor(c, y)
      BY <2>2, <2>3, ReleasedLock
    <2>6. queue' \in Seq(Callers) /\ cache' \subseteq Symbols BY <1>2, <2>1, <2>3
    <2> QED BY <1>2, <2>2, <2>3, <2>4, <2>5, <2>6, <1>a, OneCallStep
  <1>9. CASE MarketsFail(c)
    <2> DEFINE x == [call[c] EXCEPT !.answer = {}]
               y == IF call[c].sym \in cache THEN Send(x, api) ELSE Idle("error")
    <2>1. x \in Call /\ x.sym = call[c].sym BY <1>1 DEF Call
    <2>2. y \in AnyCall /\ ~HoldsLock(y) /\ (Resolved(y) => y.sym \in cache)
      BY <2>1, SendType, IdleType
    <2>3. GoOn(c, y, api) /\ lock' = Released(c)
          /\ UNCHANGED <<cache, queue, closing, listed>>
      BY <1>9 DEF MarketsFail
    <2> HIDE DEF x, y
    <2>4. \/ UNCHANGED lock /\ ~HoldsLock(y)
          \/ lock \in {c, NoCaller} /\ lock' = LockFor(c, y)
      BY <2>2, <2>3, ReleasedLock
    <2> QED BY <1>2, <2>2, <2>3, <2>4, <1>a, OneCallStep
  <1>10. CASE Response(c)
    <2>1. GoOn(c, Idle("ok"), api) BY <1>4, <1>10 DEF Response
    <2> QED BY <1>2, <1>4, <1>10, <2>1, <1>a, OneCallStep DEF Response, marketVars
  <1>11. CASE ResponseFail(c)
    <2>1. GoOn(c, Idle("error"), api) BY <1>4, <1>11 DEF ResponseFail
    <2> QED BY <1>2, <1>4, <1>11, <2>1, <1>a, OneCallStep DEF ResponseFail, marketVars
  <1> QED BY <1>5, <1>6, <1>7, <1>8, <1>9, <1>10, <1>11

-----------------------------------------------------------------------------
(* Steps that leave the calls where they are.                              *)

LEMMA SameCalls ==
    ASSUME FetchInv, TypeOK', call' \in [Callers -> AnyCall], UNCHANGED <<cache, lock>>,
           \A c \in Callers : call'[c].at = call[c].at /\ call'[c].next = call[c].next
                             /\ call'[c].sym = call[c].sym /\ call'[c].op = call[c].op
    PROVE  FetchInv'
  BY DEF FetchInv, NoNeedlessFetch, RequestsResolved, HoldsLock, Resolved

LEMMA MarkType ==
    ASSUME NEW x \in Call
    PROVE  /\ x \in Going => [x EXCEPT !.orphan = TRUE] \in AnyCall
           /\ x \in Going => [x EXCEPT !.known = FALSE] \in AnyCall
           /\ [x EXCEPT !.orphan = TRUE].at = x.at /\ [x EXCEPT !.known = FALSE].at = x.at
           /\ [x EXCEPT !.orphan = TRUE].next = x.next /\ [x EXCEPT !.known = FALSE].next = x.next
           /\ [x EXCEPT !.orphan = TRUE].sym = x.sym /\ [x EXCEPT !.known = FALSE].sym = x.sym
           /\ [x EXCEPT !.orphan = TRUE].op = x.op /\ [x EXCEPT !.known = FALSE].op = x.op
  BY DEF AnyCall, Going, Call

LEMMA ElsewhereStep ==
    ASSUME FetchInv,
           \/ CloseBegin \/ CloseEnd \/ CloseNothing \/ \E s \in Symbols : List(s) \/ Delist(s)
           \/ UNCHANGED vars
    PROVE  FetchInv'
  <1>1. call \in [Callers -> AnyCall] /\ TypeOK BY DEF FetchInv
  <1>2. CASE CloseBegin
    <2>1. call' = call /\ UNCHANGED <<cache, lock, queue, listed>>
      BY <1>2 DEF CloseBegin, marketVars
    <2>2. TypeOK' BY <1>1, <1>2, <2>1 DEF TypeOK, CloseBegin, Api
    <2> QED BY <1>1, <2>1, <2>2, SameCalls
  <1>3. CASE CloseEnd
    <2>1. UNCHANGED <<cache, lock, queue, listed>> /\ closing' = FALSE /\ api' = Closed
          /\ late' = FALSE
          /\ call' = [c \in Callers |->
                        IF call[c].at = "init" THEN [call[c] EXCEPT !.orphan = TRUE]
                        ELSE call[c]]
      BY <1>3 DEF CloseEnd, marketVars
    <2>2. \A c \in Callers : call'[c] \in AnyCall /\ call'[c].at = call[c].at
             /\ call'[c].next = call[c].next /\ call'[c].sym = call[c].sym
             /\ call'[c].op = call[c].op
      <3> TAKE c \in Callers
      <3>1. CASE call[c].at = "init"
        BY <2>1, <3>1, BusyIsGoing, MarkType
      <3>2. CASE call[c].at # "init"
        BY <1>1, <2>1, <3>2
      <3> QED BY <3>1, <3>2
    <2>3. call' \in [Callers -> AnyCall] BY <2>1, <2>2
    <2>4. call' \in [Callers -> Call \cup IdleCall] BY <2>3 DEF AnyCall, Going
    <2>5. TypeOK' BY <1>1, <2>1, <2>4 DEF TypeOK, Closed, Api
    <2> QED BY <2>1, <2>2, <2>3, <2>5, SameCalls
  <1>4. ASSUME NEW s \in Symbols, List(s) PROVE FetchInv'
    <2>1. UNCHANGED <<api, cache, lock, queue, call, closing, late>> /\ listed' = listed \cup {s}
      BY <1>4 DEF List, marketVars
    <2>2. TypeOK' BY <1>1, <2>1 DEF TypeOK
    <2> QED BY <1>1, <2>1, <2>2, SameCalls
  <1>5. ASSUME NEW s \in Symbols, Delist(s) PROVE FetchInv'
    <2>1. UNCHANGED <<api, cache, lock, queue, closing, late>> /\ listed' = listed \ {s}
          /\ call' = [c \in Callers |->
                        IF call[c].sym = s THEN [call[c] EXCEPT !.known = FALSE]
                        ELSE call[c]]
      BY <1>5 DEF Delist, marketVars
    <2>2. \A c \in Callers : call'[c] \in AnyCall /\ call'[c].at = call[c].at
             /\ call'[c].next = call[c].next /\ call'[c].sym = call[c].sym
             /\ call'[c].op = call[c].op
      <3> TAKE c \in Callers
      <3>1. CASE call[c].sym = s
        <4>1. call[c] \notin IdleCall BY <3>1, NoneAssumption DEF IdleCall, Idle
        <4>2. call[c] \in Going /\ call[c] \in Call BY <1>1, <4>1 DEF AnyCall, Going
        <4> QED BY <2>1, <3>1, <4>2, MarkType
      <3>2. CASE call[c].sym # s BY <1>1, <2>1, <3>2
      <3> QED BY <3>1, <3>2
    <2>3. call' \in [Callers -> AnyCall] BY <2>1, <2>2
    <2>4. call' \in [Callers -> Call \cup IdleCall] BY <2>3 DEF AnyCall, Going
    <2>5. TypeOK' BY <1>1, <2>1, <2>4 DEF TypeOK
    <2> QED BY <2>1, <2>2, <2>3, <2>5, SameCalls
  <1>6. CASE CloseNothing
    <2>1. call' = call /\ UNCHANGED <<cache, lock, queue, closing, listed>>
          /\ api' = Closed /\ late' = FALSE
      BY <1>6 DEF CloseNothing, marketVars
    <2>2. TypeOK' BY <1>1, <2>1 DEF TypeOK, Closed, Api
    <2> QED BY <1>1, <2>1, <2>2, SameCalls
  <1>7. CASE UNCHANGED vars
    BY <1>1, <1>7 DEF vars, FetchInv, TypeOK, NoNeedlessFetch, RequestsResolved
  <1> QED BY <1>2, <1>3, <1>4, <1>5, <1>6, <1>7

-----------------------------------------------------------------------------
LEMMA FetchInvInit == Init => FetchInv
  <1> SUFFICES ASSUME Init PROVE FetchInv OBVIOUS
  <1>1. \A c \in Callers : call[c] = Idle("none") BY DEF Init
  <1>2. call \in [Callers -> AnyCall] BY <1>1, IdleType DEF Init
  <1>3. NoNeedlessFetch /\ RequestsResolved
    BY <1>1, IdleType DEF NoNeedlessFetch, RequestsResolved
  <1>4. call \in [Callers -> Call \cup IdleCall] BY <1>2 DEF AnyCall, Going
  <1>5. api \in Api BY DEF Init, Api
  <1>6. queue \in Seq(Callers) BY DEF Init
  <1>7. TypeOK BY <1>4, <1>5, <1>6 DEF TypeOK, Init
  <1> QED BY <1>2, <1>3, <1>7 DEF FetchInv

LEMMA FetchInvStep == FetchInv /\ [Next]_vars => FetchInv'
  <1> SUFFICES ASSUME FetchInv, [Next]_vars PROVE FetchInv' OBVIOUS
  <1>1. ASSUME NEW c \in Callers, CallStep(c) PROVE FetchInv'
    <2>1. ASSUME NEW op \in {"open", "query"}, AgentCall(c, op, NoSym) PROVE FetchInv'
      BY <2>1, AgentCallStep DEF Op
    <2>2. ASSUME NEW op \in {"order", "subscribe"}, NEW t \in Tokens, AgentCall(c, op, t)
          PROVE  FetchInv'
      BY <2>2, AgentCallStep DEF Op
    <2> QED BY <1>1, <2>1, <2>2, PerpCallStep, GrantedStep, ResponseStep DEF CallStep
  <1> QED BY <1>1, ElsewhereStep DEF Next

(* Every reachable state is well typed: what a continued call becomes, and  *)
(* what the API holds, never leaves the shapes the code gives them.         *)
THEOREM ClientTypeCorrect == Spec => []TypeOK
  <1>1. FetchInv => TypeOK BY DEF FetchInv
  <1> QED BY <1>1, FetchInvInit, FetchInvStep, PTL DEF Spec

(* However many tasks miss the cache at once, and whatever initialisation   *)
(* or close() comes between, only the holder of _cache_lock fetches the     *)
(* markets, and only for a symbol that is still not cached                  *)
(* (perp/async_agent.py:107-112).                                           *)
THEOREM FetchUnderLock == Spec => []NoNeedlessFetch
  <1>1. FetchInv => NoNeedlessFetch BY DEF FetchInv
  <1> QED BY <1>1, FetchInvInit, FetchInvStep, PTL DEF Spec

(* A perp request on its way carries a market id that is still cached,      *)
(* whatever other tasks fetched, failed to fetch or closed meanwhile, and   *)
(* whatever the exchange delisted (perp/async_agent.py:96-104, 125-145).    *)
THEOREM RequestsStayResolved == Spec => []RequestsResolved
  <1>1. FetchInv => RequestsResolved BY DEF FetchInv
  <1> QED BY <1>1, FetchInvInit, FetchInvStep, PTL DEF Spec

-----------------------------------------------------------------------------
(* close() against initialisations: a task whose initialisation is under    *)
(* way has a client, unless the client was closed under its request.        *)

ClientInv ==
    /\ ClientlessIsLate
    /\ \A c \in Callers :
          (call[c].at = "init" /\ ~call[c].orphan) => api.client # "none"

LEMMA GoOnClient ==
    ASSUME FetchInv, ClientInv, NEW c \in Callers, NEW x, NEW a \in Api,
           GoOn(c, x, a), a.client = api.client,
           (a.initialized /\ a.client = "none") => late'
    PROVE  ClientInv'
  <1>1. call'[c] = x /\ \A d \in Callers \ {c} : call'[d] = call[d]
    BY DEF GoOn, FetchInv
  <1>2. /\ x.at = "init" => api'.client # "none"
        /\ api.client # "none" => api'.client = api.client
        /\ api'.client = "none" => a.client = "none"
        /\ api'.initialized = a.initialized
    BY DEF GoOn, WithClient, Api
  <1> QED BY <1>1, <1>2 DEF ClientInv, ClientlessIsLate

LEMMA StaysClient ==
    ASSUME FetchInv, ClientInv, NEW c \in Callers, call'[c].at # "init",
           \A d \in Callers \ {c} : call'[d] = call[d], UNCHANGED <<api, late>>
    PROVE  ClientInv'
  BY DEF ClientInv, ClientlessIsLate

LEMMA ClientCallStep ==
    ASSUME FetchInv, ClientInv, NEW c \in Callers, CallStep(c) PROVE ClientInv'
  <1>0. api \in Api /\ call \in [Callers -> AnyCall] BY DEF FetchInv, TypeOK
  <1>a. (api.initialized /\ api.client = "none") => late
    BY DEF ClientInv, ClientlessIsLate
  <1>1. ASSUME NEW op \in Op, NEW sym, AgentCall(c, op, sym) PROVE ClientInv'
    <2> DEFINE x == NewCall(op, sym)
               a == [api EXCEPT !.made = TRUE]
               y == IF api.made THEN Enter(x, a) ELSE Ensure(x, "enter", a, x)
    <2>1. a \in Api /\ a.client = api.client /\ a.initialized = api.initialized
      BY <1>0 DEF Api
    <2>2. GoOn(c, y, a) /\ UNCHANGED late BY <1>1 DEF AgentCall
    <2> HIDE DEF y, a
    <2> QED BY <1>a, <2>1, <2>2, GoOnClient
  <1>2. ASSUME NEW sym \in Symbols, PerpCall(c, sym) PROVE ClientInv'
    <2>1. PICK y : GoOn(c, y, api) /\ UNCHANGED late BY <1>2 DEF PerpCall
    <2> QED BY <1>0, <1>a, <2>1, GoOnClient
  <1>3. CASE Granted(c) \/ MarketsArrive(c) \/ MarketsFail(c)
    <2>1. PICK y : GoOn(c, y, api) /\ UNCHANGED late
      BY <1>3 DEF Granted, MarketsArrive, MarketsFail
    <2> QED BY <1>0, <1>a, <2>1, GoOnClient
  <1>4. ASSUME NEW tokens \in TokenAnswers, TokensArrive(c, tokens) PROVE ClientInv'
    <2> DEFINE a == Loaded(tokens)
               x == Initialised(call[c], a)
    <2>1. /\ GoOn(c, x, a) /\ call[c].at = "init"
          /\ late' = (late \/ (call[c].orphan /\ tokens # {}))
      BY <1>4 DEF TokensArrive
    <2>2. /\ a \in Api /\ a.client = api.client
          /\ a.initialized => api.initialized \/ tokens # {}
      BY <1>0, TokenAssumption DEF Loaded, Api
    <2> HIDE DEF x, a
    <2>3. ASSUME a.initialized, a.client = "none" PROVE late'
      <3>1. call[c].orphan BY <2>1, <2>2, <2>3 DEF ClientInv
      <3> QED BY <1>a, <2>1, <2>2, <2>3, <3>1
    <2> QED BY <2>1, <2>2, <2>3, GoOnClient
  <1>5. CASE TokensFail(c) \/ MarketsServed(c) \/ Response(c) \/ ResponseFail(c)
    <2>1. UNCHANGED <<api, late>> /\ \A d \in Callers \ {c} : call'[d] = call[d]
      BY <1>0, <1>5 DEF TokensFail, MarketsServed, Response, ResponseFail
    <2>2. call'[c].at # "init"
      <3>1. CASE MarketsServed(c)
        <4>1. call[c] \in Call BY <3>1, BusyIsGoing DEF MarketsServed
        <4> QED BY <1>0, <3>1, <4>1 DEF MarketsServed, Call
      <3>2. CASE TokensFail(c) \/ Response(c) \/ ResponseFail(c)
        BY <1>0, <3>2 DEF TokensFail, Response, ResponseFail, Idle
      <3> QED BY <1>5, <3>1, <3>2
    <2> QED BY <2>1, <2>2, StaysClient
  <1> QED BY <1>1, <1>2, <1>3, <1>4, <1>5 DEF CallStep, Op

LEMMA ClientInvStep == FetchInv /\ ClientInv /\ [Next]_vars => ClientInv'
  <1> SUFFICES ASSUME FetchInv, ClientInv, [Next]_vars PROVE ClientInv' OBVIOUS
  <1>0. api \in Api /\ call \in [Callers -> AnyCall] BY DEF FetchInv, TypeOK
  <1>1. CASE CloseBegin BY <1>0, <1>1 DEF CloseBegin, ClientInv, ClientlessIsLate, Api
  <1>2. CASE CloseEnd
    <2>1. ~api'.initialized BY <1>0, <1>2 DEF CloseEnd, Closed, Api
    <2>2. ASSUME NEW c \in Callers, call'[c].at = "init" PROVE call'[c].orphan
      <3>1. CASE call[c].at = "init"
        <4>1. call[c] \in Call BY <3>1, BusyIsGoing
        <4> QED BY <1>2, <3>1, <4>1 DEF CloseEnd, Call
      <3>2. CASE call[c].at # "init"
        BY <1>2, <2>2, <3>2 DEF CloseEnd
      <3> QED BY <3>1, <3>2
    <2> QED BY <2>1, <2>2 DEF ClientInv, ClientlessIsLate
  <1>3. CASE CloseNothing
    BY <1>0, <1>3 DEF CloseNothing, Closed, ClientInv, ClientlessIsLate, Api
  <1>4. ASSUME NEW s \in Symbols, List(s) \/ Delist(s) PROVE ClientInv'
    <2>1. UNCHANGED <<api, late>> BY <1>4 DEF List, Delist
    <2>2. ASSUME NEW c \in Callers
          PROVE  call'[c].at = call[c].at /\ call'[c].orphan = call[c].orphan
      <3>1. CASE List(s) BY <3>1 DEF List
      <3>2. CASE Delist(s) /\ call[c].sym # s BY <3>2 DEF Delist
      <3>3. CASE Delist(s) /\ call[c].sym = s
        <4>1. call[c] \notin IdleCall BY <3>3, NoneAssumption DEF IdleCall, Idle
        <4>2. call[c] \in Call BY <1>0, <4>1 DEF AnyCall, Going
        <4> QED BY <3>3, <4>2 DEF Delist, Call
      <3> QED BY <1>4, <3>1, <3>2, <3>3
    <2> QED BY <2>1, <2>2 DEF ClientInv, ClientlessIsLate
  <1>5. CASE UNCHANGED vars BY <1>5 DEF vars, ClientInv, ClientlessIsLate
  <1> QED BY <1>1, <1>2, <1>3, <1>4, <1>5, ClientCallStep DEF Next

LEMMA FetchInvariant == Spec => []FetchInv
  BY FetchInvInit, FetchInvStep, PTL DEF Spec

(* However close() and initialisations interleave, also with the answers    *)
(* that outlive their client, an API is never left initialised without a    *)
(* client by anything but such an answer: not by close() itself, not by an  *)
(* initialisation that began after it, and not by an empty answer           *)
(* (async_api.py:54-67, 117-122).                                           *)
THEOREM ClientlessOnlyByLateAnswer == Spec => []ClientlessIsLate
  <1>1. Init => ClientInv
    BY DEF Init, ClientInv, ClientlessIsLate, Idle
  <1>2. ClientInv => ClientlessIsLate BY DEF ClientInv
  <1> QED BY <1>1, <1>2, ClientInvStep, FetchInvariant, PTL DEF Spec
-----------------------------------------------------------------------------
(* A symbol listed all the time of a call is listed now, and is in the      *)
(* answer the exchange gave to the call.                                    *)

Known(x, now) ==
    (x.op = "perp" /\ x.known) =>
        x.sym \in now /\ (x.at = "served" => x.sym \in x.answer)

KnownInv == \A c \in Callers : Known(call[c], listed)

(* The call x goes on as y: it ends, or it stays the same call and has no   *)
(* markets on their way; and it ends as unknown only if the symbol was not  *)
(* listed all the time.                                                     *)
Follows(y, x) ==
    /\ y.result = "unknown" => ~(x.op = "perp" /\ x.known)
    /\ \/ y.op # "perp"
       \/ y.op = x.op /\ y.sym = x.sym /\ y.known = x.known /\ y.at # "served"

LEMMA FollowsKnown ==
    ASSUME NEW x, NEW y, NEW now, Known(x, now), Follows(y, x)
    PROVE  Known(y, now)
  BY DEF Known, Follows

LEMMA IdleFollows ==
    ASSUME NEW x \in Call, NEW result \in {"ok", "unknown", "error", "assert"},
           result = "unknown" => ~(x.op = "perp" /\ x.known)
    PROVE  Follows(Idle(result), x)
  BY DEF Follows, Idle

LEMMA RequestFollows ==
    ASSUME NEW x \in Call, NEW a, NEW at \in {"market", "request"}
    PROVE  Follows(Request(x, at, a), x)
  <1>1. CASE a.client = "open"
    <2>1. Request(x, at, a) = [x EXCEPT !.at = at, !.next = "none", !.orphan = FALSE]
      BY <1>1 DEF Request
    <2> QED BY <2>1 DEF Follows, Call
  <1>2. CASE a.client # "open"
    <2>1. Request(x, at, a) \in {Idle("error"), Idle("assert")} BY <1>2 DEF Request
    <2> QED BY <2>1, IdleFollows
  <1> QED BY <1>1, <1>2

LEMMA EnsureFollows ==
    ASSUME NEW x \in Call, NEW a, NEW next, NEW goesOn, Follows(goesOn, x)
    PROVE  Follows(Ensure(x, next, a, goesOn), x)
  <1>1. CASE a.initialized BY <1>1 DEF Ensure
  <1>2. CASE ~a.initialized /\ a.client = "closed"
    <2>1. Ensure(x, next, a, goesOn) = Idle("error") BY <1>2 DEF Ensure
    <2> QED BY <2>1, IdleFollows
  <1>3. CASE ~a.initialized /\ a.client # "closed"
    <2>1. Ensure(x, next, a, goesOn)
              = [x EXCEPT !.at = "init", !.next = next, !.orphan = FALSE]
      BY <1>3 DEF Ensure
    <2> QED BY <2>1 DEF Follows, Call
  <1> QED BY <1>1, <1>2, <1>3

LEMMA SendFollows ==
    ASSUME NEW x \in Call, NEW a
    PROVE  Follows(Send(x, a), x) /\ Follows(Market(x, a), x)
  BY RequestFollows, EnsureFollows DEF Send, Market

LEMMA LookupFollows ==
    ASSUME NEW x \in Call, NEW a, x.op # "perp"
    PROVE  Follows(Lookup(x, a), x)
  <1>1. Lookup(x, a) \in {Idle("unknown"), Idle("ok"), Send(x, a)} BY DEF Lookup
  <1> QED BY <1>1, IdleFollows, SendFollows

LEMMA EnterFollows ==
    ASSUME NEW x \in Call, NEW a, x.op # "perp"
    PROVE  Follows(Enter(x, a), x)
  <1>1. Enter(x, a) \in {Idle("ok"), Send(x, a), Lookup(x, a),
                         Ensure(x, "lookup", a, Lookup(x, a))}
    BY DEF Enter, Call, Op
  <1>2. Follows(Lookup(x, a), x) BY LookupFollows
  <1> QED BY <1>1, <1>2, IdleFollows, SendFollows, EnsureFollows

LEMMA InitialisedFollows ==
    ASSUME NEW x \in Going, NEW a, x.at = "init"
    PROVE  Follows(Initialised(x, a), x)
  <1>1. x \in Call BY DEF Going
  <1>2. CASE x.next \in {"enter", "lookup"}
    <2>1. x.op # "perp" BY <1>2 DEF Going
    <2>2. Initialised(x, a) \in {Enter(x, a), Lookup(x, a)} BY <1>2 DEF Initialised
    <2> QED BY <1>1, <2>1, <2>2, EnterFollows, LookupFollows
  <1>3. CASE x.next \in {"market", "send"}
    <2>1. Initialised(x, a) \in {Request(x, "market", a), Request(x, "request", a)}
      BY <1>3 DEF Initialised
    <2> QED BY <1>1, <2>1, RequestFollows
  <1> QED BY <1>1, <1>2, <1>3 DEF Going, Call

(* A step of a call that is under way. *)
LEMMA BusyFollows ==
    ASSUME FetchInv, KnownInv, NEW c \in Callers, CallStep(c), call[c].at # "idle"
    PROVE  MarketsServed(c) \/ (Follows(call'[c], call[c]) /\ UNCHANGED listed)
  <1> DEFINE x == [call[c] EXCEPT !.answer = {}]
  <1>0. call \in [Callers -> AnyCall] /\ call[c] \in Going /\ call[c] \in Call
    BY BusyIsGoing DEF FetchInv
  <1>a. x \in Call /\ (\A y : Follows(y, x) => Follows(y, call[c]))
    BY <1>0 DEF Call, Follows
  <1>1. CASE Granted(c)
    <2>1. call'[c] = Recheck(call[c]) /\ UNCHANGED listed BY <1>0, <1>1 DEF Granted, GoOn
    <2> QED BY <1>0, <2>1, SendFollows DEF Recheck
  <1>2. ASSUME NEW tokens \in TokenAnswers, TokensArrive(c, tokens)
        PROVE  Follows(call'[c], call[c]) /\ UNCHANGED listed
    <2>1. call'[c] = Initialised(call[c], Loaded(tokens)) /\ call[c].at = "init"
          /\ UNCHANGED listed
      BY <1>0, <1>2 DEF TokensArrive, GoOn
    <2> QED BY <1>0, <2>1, InitialisedFollows
  <1>3. CASE TokensFail(c) \/ Response(c) \/ ResponseFail(c)
    <2>1. call'[c] \in {Idle("ok"), Idle("error")} /\ UNCHANGED listed
      BY <1>0, <1>3 DEF TokensFail, Response, ResponseFail
    <2> QED BY <1>0, <2>1, IdleFollows
  <1>4. CASE MarketsArrive(c)
    <2>1. /\ call'[c] = IF x.sym \in cache' THEN Send(x, api) ELSE Idle("unknown")
          /\ UNCHANGED listed
      BY <1>0, <1>4 DEF MarketsArrive, GoOn
    <2>2. call[c].at = "served" /\ cache' = cache \cup call[c].answer
      BY <1>0, <1>4 DEF MarketsArrive, Merged, Call
    <2>3. x.sym \notin cache' => ~(x.op = "perp" /\ x.known)
      BY <1>0, <2>2 DEF KnownInv, Known, Call
    <2>4. UNCHANGED listed BY <2>1
    <2> HIDE DEF x
    <2>5. CASE x.sym \in cache' BY <1>a, <2>1, <2>4, <2>5, SendFollows
    <2>6. CASE x.sym \notin cache' BY <1>a, <2>1, <2>3, <2>4, <2>6, IdleFollows
    <2> QED BY <2>5, <2>6
  <1>5. CASE MarketsFail(c)
    <2>1. call'[c] = IF call[c].sym \in cache THEN Send(x, api) ELSE Idle("error")
      BY <1>0, <1>5 DEF MarketsFail, GoOn
    <2>2. UNCHANGED listed BY <1>5 DEF MarketsFail
    <2> QED BY <1>a, <2>1, <2>2, SendFollows, IdleFollows
  <1> QED BY <1>1, <1>2, <1>3, <1>4, <1>5 DEF CallStep, Granted, TokensArrive, AgentCall,
             PerpCall

(* A call that begins follows the record it begins with.                    *)
LEMMA BeginKnown ==
    ASSUME FetchInv, NEW c \in Callers, call[c].at = "idle", CallStep(c)
    PROVE  Known(call'[c], listed') /\ \A d \in Callers \ {c} : call'[d] = call[d]
  <1>0. call \in [Callers -> AnyCall] BY DEF FetchInv
  <1>1. ASSUME NEW op \in Op, NEW sym \in Tokens \cup {NoSym}, AgentCall(c, op, sym)
        PROVE  Known(call'[c], listed') /\ \A d \in Callers \ {c} : call'[d] = call[d]
    <2> DEFINE x == NewCall(op, sym)
               a == [api EXCEPT !.made = TRUE]
               y == IF api.made THEN Enter(x, a) ELSE Ensure(x, "enter", a, x)
    <2>1. x \in Call /\ x.op # "perp" BY <1>1, NewCallType DEF AgentCall
    <2>2. Follows(x, x) BY <2>1 DEF Follows, NewCall
    <2>3. Follows(y, x)
      <3>1. CASE api.made BY <2>1, <3>1, EnterFollows
      <3>2. CASE ~api.made
        <4>1. y = Ensure(x, "enter", a, x) BY <3>2
        <4> HIDE DEF x, a, y
        <4> QED BY <2>1, <2>2, <4>1, EnsureFollows
      <3> QED BY <3>1, <3>2
    <2>4. GoOn(c, y, a) BY <1>1 DEF AgentCall
    <2> HIDE DEF x, a, y
    <2>5. Known(x, listed') BY <2>1 DEF Known
    <2>6. Known(y, listed') BY <2>3, <2>5, FollowsKnown
    <2> QED BY <1>0, <2>4, <2>6 DEF GoOn
  <1>2. ASSUME NEW sym \in Symbols, PerpCall(c, sym)
        PROVE  Known(call'[c], listed') /\ \A d \in Callers \ {c} : call'[d] = call[d]
    <2> DEFINE x == NewCall("perp", sym)
               w == [x EXCEPT !.at = "wait", !.next = "none"]
    <2>1. x \in Call BY NewCallType DEF Op
    <2>2. Known(x, listed) BY DEF Known, NewCall
    <2>3. Follows(w, x) BY <2>1 DEF Follows, Call
    <2> HIDE DEF x, w
    <2>4. PICK y \in {Send(x, api), Market(x, api), w} : GoOn(c, y, api) /\ UNCHANGED listed
      BY <1>2 DEF PerpCall, x, w
    <2>5. Follows(y, x) BY <2>1, <2>3, <2>4, SendFollows
    <2>6. Known(y, listed) BY <2>2, <2>5, FollowsKnown
    <2> QED BY <1>0, <2>4, <2>6 DEF GoOn
  <1>3. (\E op \in Op, sym \in Tokens \cup {NoSym} : AgentCall(c, op, sym))
        \/ \E sym \in Symbols : PerpCall(c, sym)
    BY DEF CallStep, Granted, TokensArrive, TokensFail, MarketsServed, MarketsArrive,
       MarketsFail, Response, ResponseFail, Op
  <1> QED BY <1>1, <1>2, <1>3

(* What happens elsewhere ends no call. *)
LEMMA ElsewhereKnown ==
    ASSUME FetchInv, KnownInv, NEW c \in Callers,
           \/ CloseBegin \/ CloseEnd \/ CloseNothing \/ \E s \in Symbols : List(s) \/ Delist(s)
           \/ UNCHANGED vars
    PROVE  Known(call'[c], listed') /\ call'[c].result = call[c].result
  <1>0. call[c] \in AnyCall /\ call \in [Callers -> AnyCall] /\ Known(call[c], listed)
    BY DEF FetchInv, KnownInv
  <1>1. CASE CloseBegin \/ CloseNothing \/ UNCHANGED vars
    BY <1>0, <1>1 DEF CloseBegin, CloseNothing, vars
  <1>2. CASE CloseEnd
    <2>1. CASE call[c].at = "init"
      <3>1. call[c] \in Call BY <2>1, BusyIsGoing
      <3> QED BY <1>0, <1>2, <2>1, <3>1 DEF CloseEnd, Call, Known
    <2>2. CASE call[c].at # "init"
      BY <1>0, <1>2, <2>2 DEF CloseEnd
    <2> QED BY <2>1, <2>2
  <1>3. ASSUME NEW s \in Symbols, List(s)
        PROVE  Known(call'[c], listed') /\ call'[c].result = call[c].result
    BY <1>0, <1>3 DEF List, Known
  <1>4. ASSUME NEW s \in Symbols, Delist(s)
        PROVE  Known(call'[c], listed') /\ call'[c].result = call[c].result
    <2>1. CASE call[c].sym = s
      <3>1. call[c] \notin IdleCall BY <2>1, NoneAssumption DEF IdleCall, Idle
      <3>2. call[c] \in Call BY <1>0, <3>1 DEF AnyCall, Going
      <3> QED BY <1>4, <2>1, <3>2 DEF Delist, Call, Known
    <2>2. CASE call[c].sym # s BY <1>0, <1>4, <2>2 DEF Delist, Known
    <2> QED BY <2>1, <2>2
  <1> QED BY <1>1, <1>2, <1>3, <1>4

(* A step of a task concerns its own call. *)
LEMMA OwnCall ==
    ASSUME FetchInv, NEW c \in Callers, NEW d \in Callers \ {c}, CallStep(c)
    PROVE  call'[d] = call[d] /\ UNCHANGED listed
  BY DEF FetchInv, CallStep, AgentCall, PerpCall, Granted, TokensArrive, TokensFail,
     MarketsServed, MarketsArrive, MarketsFail, Response, ResponseFail, GoOn, marketVars

LEMMA ServedKnown ==
    ASSUME FetchInv, KnownInv, NEW c \in Callers, MarketsServed(c)
    PROVE  Known(call'[c], listed') /\ call'[c].result = "none"
  <1>1. call[c] \in Call BY BusyIsGoing DEF MarketsServed
  <1> QED BY <1>1 DEF FetchInv, KnownInv, Known, MarketsServed, Call

LEMMA KnownStep ==
    ASSUME FetchInv, KnownInv, [Next]_vars
    PROVE  /\ KnownInv'
           /\ \A c \in Callers :
                 (call[c].op = "perp" /\ call[c].known /\ call[c].at # "idle") =>
                     call'[c].result # "unknown"
  <1> SUFFICES ASSUME NEW c \in Callers
               PROVE  /\ Known(call'[c], listed')
                      /\ (call[c].op = "perp" /\ call[c].known /\ call[c].at # "idle") =>
                            call'[c].result # "unknown"
    BY DEF KnownInv
  <1>1. call[c].at # "idle" => call[c].result = "none" BY BusyIsGoing DEF Call
  <1>2. Known(call[c], listed) BY DEF KnownInv
  <1>3. ASSUME CallStep(c), call[c].at = "idle" PROVE Known(call'[c], listed')
    BY <1>3, BeginKnown
  <1>4. ASSUME CallStep(c), call[c].at # "idle"
        PROVE  /\ Known(call'[c], listed')
               /\ (call[c].op = "perp" /\ call[c].known) => call'[c].result # "unknown"
    <2>1. CASE MarketsServed(c) BY <2>1, ServedKnown
    <2>2. CASE Follows(call'[c], call[c]) /\ UNCHANGED listed
      BY <1>2, <2>2, FollowsKnown DEF Follows
    <2> QED BY <1>4, <2>1, <2>2, BusyFollows
  <1>5. ASSUME NEW d \in Callers \ {c}, CallStep(d)
        PROVE  call'[c] = call[c] /\ UNCHANGED listed
    BY <1>5, OwnCall
  <1>6. CASE \A d \in Callers : ~CallStep(d)
    BY <1>1, <1>6, ElsewhereKnown DEF Next
  <1> QED BY <1>1, <1>2, <1>3, <1>4, <1>5, <1>6

(* A symbol that is listed all the time of a call is never refused as       *)
(* unknown, whichever task fetched the markets, whatever fetch failed and   *)
(* whenever close() came meanwhile (perp/async_agent.py:96-101, 141-145).   *)
THEOREM ListedIsResolved == Spec => ListedResolves
  <1>1. Init => KnownInv BY DEF Init, KnownInv, Known, Idle
  <1>2. FetchInv /\ KnownInv /\ [Next]_vars => KnownInv' BY KnownStep
  <1>3. FetchInv /\ KnownInv /\ [Next]_vars =>
            [\A c \in Callers :
                (call[c].op = "perp" /\ call[c].known /\ call[c].at # "idle") =>
                    call'[c].result # "unknown"]_vars
    BY KnownStep
  <1> QED BY <1>1, <1>2, <1>3, FetchInvariant, PTL DEF Spec, ListedResolves
=============================================================================
