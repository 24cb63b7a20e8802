---------------------------- MODULE AsyncClient ----------------------------
(***************************************************************************)
(* The REST side of the asynchronous SDK: AsyncAgent on top of AsyncAPI    *)
(* (src/alphasec/async_agent.py, src/alphasec/api/async_api.py) and the    *)
(* market cache of AsyncPerpAgent (src/alphasec/perp/async_agent.py).      *)
(*                                                                         *)
(* Everything runs on one event loop.  A call of the application is the    *)
(* sequence of its suspensions: the token request of a lazy initialisation,*)
(* the wait for the cache lock, the market request, its own request.  What *)
(* happens between two of them is one step.                                *)
(*                                                                         *)
(* The calls are named by what they need: "open" (entering the agent once, *)
(* start()) the initialisation, "query" (get_tickers, cancel, ...) one     *)
(* request,                                                                *)
(* "order" (order, get_depth, token_transfer, ...) a token id and one      *)
(* request, "subscribe" a token id, "perp" (every call of the perp agent   *)
(* that takes a symbol) a market id and one request.  Left out: the        *)
(* content of requests and responses, refusals that depend on the          *)
(* arguments alone, AsyncAPI as a context manager of its own, and          *)
(* concurrent close() calls.                                               *)
(*                                                                         *)
(* aclose() ends the requests whose connection is open, but not one that   *)
(* is still connecting: after close() a request in flight may fail, or be  *)
(* answered all the same.                                                  *)
(***************************************************************************)
EXTENDS Sequences, FiniteSets, Naturals

CONSTANTS
    Callers,        \* tasks of the application
    Tokens,         \* spot symbols
    Symbols,        \* perp symbols
    TokenAnswers,   \* what the token endpoint may answer: sets of tokens
    NoCaller, NoSym

ASSUME TokenAssumption == TokenAnswers \subseteq SUBSET Tokens
ASSUME NoneAssumption == NoCaller \notin Callers /\ NoSym \notin Tokens \cup Symbols

VARIABLES
    api,      \* the AsyncAPI: made by the agent, _client, _initialized, its maps
    cache,    \* _market_cache: the symbols it has
    lock,     \* _cache_lock: who holds it
    queue,    \* who waits for it, in order
    call,     \* what each task is doing
    closing,  \* close() is awaiting aclose()
    late,     \* history: since the last close(), tokens came in answer to a
              \* request whose client had been closed
    listed    \* the exchange: perp symbols it lists

marketVars == <<cache, lock, queue>>
vars == <<api, cache, lock, queue, call, closing, late, listed>>

-----------------------------------------------------------------------------
Op == {"open", "query", "order", "subscribe", "perp"}
Idle(result) ==
    [at |-> "idle", op |-> "none", sym |-> NoSym, next |-> "none", orphan |-> FALSE,
     known |-> FALSE, answer |-> {}, result |-> result]
Call ==
    [at : {"init", "wait", "market", "served", "request"},
     op : Op,
     sym : Tokens \cup Symbols \cup {NoSym},
     next : {"none", "enter", "lookup", "market", "send"},  \* after the token request
     orphan : BOOLEAN,    \* history: the client of its token request was closed
     known : BOOLEAN,     \* listed ever since the call began
     answer : SUBSET Symbols,  \* the markets, on their way back
     result : {"none"}]

IdleCall == {Idle(x) : x \in {"none", "ok", "unknown", "error", "assert"}}
Api ==
    [made : BOOLEAN, client : {"none", "open", "closed"}, initialized : BOOLEAN,
     tokens : SUBSET Tokens]

TypeOK ==
    /\ api \in Api
    /\ cache \subseteq Symbols
    /\ lock \in Callers \cup {NoCaller}
    /\ queue \in Seq(Callers)
    /\ call \in [Callers -> Call \cup IdleCall]
    /\ closing \in BOOLEAN /\ late \in BOOLEAN
    /\ listed \subseteq Symbols

Init ==
    /\ api = [made |-> FALSE, client |-> "none", initialized |-> FALSE, tokens |-> {}]
    /\ cache = {} /\ lock = NoCaller /\ queue = <<>>
    /\ call = [c \in Callers |-> Idle("none")]
    /\ closing = FALSE /\ late = FALSE
    /\ listed \in SUBSET Symbols

-----------------------------------------------------------------------------
(* How a call goes on, as its next record, when the state of the API is a. *)

(* A request needs a client, which the code asserts, and httpx an open one. *)
Request(x, at, a) ==
    IF a.client = "open"
    THEN [x EXCEPT !.at = at, !.next = "none", !.orphan = FALSE]
    ELSE Idle(IF a.client = "none" THEN "assert" ELSE "error")

(* _ensure_initialized(): go on when initialised, else ask for the tokens. *)
Ensure(x, next, a, goesOn) ==
    IF a.initialized THEN goesOn
    ELSE IF a.client = "closed" THEN Idle("error")
    ELSE [x EXCEPT !.at = "init", !.next = next, !.orphan = FALSE]

Send(x, a)   == Ensure(x, "send", a, Request(x, "request", a))
Market(x, a) == Ensure(x, "market", a, Request(x, "market", a))

(* market_to_market_id() and the other readers of the token maps. *)
Lookup(x, a) ==
    CASE x.sym \notin a.tokens -> Idle("unknown")
      [] x.op = "subscribe"    -> Idle("ok")
      [] OTHER                 -> Send(x, a)

(* The agent is initialised; the API method begins. *)
Enter(x, a) ==
    CASE x.op = "open"      -> Idle("ok")
      [] x.op = "query"     -> Send(x, a)
      [] x.op = "order"     -> Ensure(x, "lookup", a, Lookup(x, a))
      [] x.op = "subscribe" -> Lookup(x, a)

(* The token request of an initialisation is over. *)
Initialised(x, a) ==
    CASE x.next = "enter"  -> Enter(x, a)
      [] x.next = "lookup" -> Lookup(x, a)
      [] x.next = "market" -> Request(x, "market", a)
      [] x.next = "send"   -> Request(x, "request", a)

(* An initialisation that starts makes the client if there is none. *)
WithClient(x, a) ==
    IF x.at = "init" /\ a.client = "none" THEN [a EXCEPT !.client = "open"] ELSE a

GoOn(c, x, a) ==
    /\ call' = [call EXCEPT ![c] = x]
    /\ api' = WithClient(x, a)

HoldsLock(x) ==
    x.at \in {"market", "served"} \/ (x.at = "init" /\ x.next = "market")

LockFor(c, x) == IF HoldsLock(x) THEN c ELSE NoCaller

-----------------------------------------------------------------------------
NewCall(op, sym) ==
    [at |-> "init", op |-> op, sym |-> sym, next |-> "enter", orphan |-> FALSE,
     known |-> sym \in listed, answer |-> {}, result |-> "none"]

(* A call of the agent.  Only the first one finds no API; it makes one and  *)
(* initialises it.  The others find it made and do not wait.                *)
AgentCall(c, op, sym) ==
    LET x == NewCall(op, sym)
        a == [api EXCEPT !.made = TRUE]
    IN  /\ call[c].at = "idle"
        /\ op # "perp"
        /\ GoOn(c, IF api.made THEN Enter(x, a) ELSE Ensure(x, "enter", a, x), a)
        /\ UNCHANGED <<marketVars, closing, late, listed>>

(* A call of the perp agent: the market id is cached, or the lock is taken  *)
(* to fetch the markets, or the call waits for the lock.                    *)
PerpCall(c, sym) ==
    LET x == NewCall("perp", sym)
        free == lock = NoCaller /\ queue = <<>>
    IN  /\ call[c].at = "idle"
        /\ api.made
        /\ IF sym \in cache
           THEN GoOn(c, Send(x, api), api) /\ UNCHANGED <<lock, queue>>
           ELSE IF free
           THEN /\ GoOn(c, Market(x, api), api)
                /\ lock' = LockFor(c, Market(x, api))
                /\ UNCHANGED queue
           ELSE /\ GoOn(c, [x EXCEPT !.at = "wait", !.next = "none"], api)
                /\ queue' = Append(queue, c)
                /\ UNCHANGED lock
        /\ UNCHANGED <<cache, closing, late, listed>>

RecheckSkipped(x) ==     \* mutant: no second look under the lock
    Market(x, api)

RecheckTrusts(x) ==      \* mutant: relies on the fetch of the holder before
    IF x.sym \in cache THEN Send(x, api) ELSE Idle("unknown")

(* Under the lock: another task may have populated the cache meanwhile. *)
Recheck(x) == IF x.sym \in cache THEN Send(x, api) ELSE Market(x, api)

Granted(c) ==
    /\ call[c].at = "wait"
    /\ lock = NoCaller
    /\ queue # <<>> /\ Head(queue) = c
    /\ queue' = Tail(queue)
    /\ GoOn(c, Recheck(call[c]), api)
    /\ lock' = LockFor(c, Recheck(call[c]))
    /\ UNCHANGED <<cache, closing, late, listed>>

-----------------------------------------------------------------------------
(* Responses.                                                              *)

LoadedNested(tokens) ==  \* mutant: the list itself becomes an entry of the map
    [api EXCEPT !.tokens = {tokens}, !.initialized = @ \/ tokens # {}]

(* _map_token_metadata() swaps the maps in; the API is initialised unless   *)
(* they are empty.                                                          *)
Loaded(tokens) ==
    [api EXCEPT !.tokens = tokens, !.initialized = @ \/ tokens # {}]

Held(c, x) == IF lock = c THEN LockFor(c, x) ELSE lock

TokensArrive(c, tokens) ==
    LET a == Loaded(tokens)
        x == Initialised(call[c], a)
    IN  /\ call[c].at = "init"
        /\ GoOn(c, x, a)
        /\ lock' = Held(c, x)
        /\ late' = (late \/ (call[c].orphan /\ tokens # {}))
        /\ UNCHANGED <<cache, queue, closing, listed>>

KeepsLock(c) == lock     \* mutant: a failing fetch does not release the lock

Released(c) == IF lock = c THEN NoCaller ELSE lock

(* The token request fails: nothing is latched, the error goes up. *)
TokensFail(c) ==
    /\ call[c].at = "init"
    /\ call' = [call EXCEPT ![c] = Idle("error")]
    /\ lock' = Released(c)
    /\ UNCHANGED <<api, cache, queue, closing, late, listed>>

MergedReplaces(markets) == markets   \* mutant: earlier entries are dropped

Merged(markets) == cache \cup markets

(* The exchange answers with the markets it lists now. *)
MarketsServed(c) ==
    /\ call[c].at = "market"
    /\ call' = [call EXCEPT ![c].at = "served", ![c].answer = listed]
    /\ UNCHANGED <<api, marketVars, closing, late, listed>>

(* Its answer arrives. *)
MarketsArrive(c) ==
    LET x == [call[c] EXCEPT !.answer = {}]
    IN  /\ x.at = "served"
        /\ cache' = Merged(call[c].answer)
        /\ GoOn(c, IF x.sym \in cache' THEN Send(x, api) ELSE Idle("unknown"), api)
        /\ lock' = Released(c)
        /\ UNCHANGED <<queue, closing, late, listed>>

(* The fetch fails: serve what is cached, else the error goes up. *)
MarketsFail(c) ==
    /\ call[c].at \in {"market", "served"}
    /\ GoOn(c, IF call[c].sym \in cache THEN Send([call[c] EXCEPT !.answer = {}], api)
               ELSE Idle("error"), api)
    /\ lock' = Released(c)
    /\ UNCHANGED <<cache, queue, closing, late, listed>>

Response(c) ==
    /\ call[c].at = "request"
    /\ call' = [call EXCEPT ![c] = Idle("ok")]
    /\ UNCHANGED <<api, marketVars, closing, late, listed>>

(* A transport error, a body that is not JSON, or an error envelope. *)
ResponseFail(c) ==
    /\ call[c].at = "request"
    /\ call' = [call EXCEPT ![c] = Idle("error")]
    /\ UNCHANGED <<api, marketVars, closing, late, listed>>

-----------------------------------------------------------------------------
(* close()                                                                 *)

ClosedKeepsFlag ==       \* mutant: _initialized is not reset
    [api EXCEPT !.client = "none"]

Closed == [api EXCEPT !.client = "none", !.initialized = FALSE]

CloseBegin ==
    /\ ~closing
    /\ api.client = "open"
    /\ closing' = TRUE
    /\ api' = [api EXCEPT !.client = "closed"]
    /\ UNCHANGED <<marketVars, call, late, listed>>

(* aclose() is over; the initialisations in flight have lost their client. *)
CloseEnd ==
    /\ closing
    /\ closing' = FALSE
    /\ api' = Closed
    /\ call' = [c \in Callers |->
                  IF call[c].at = "init" THEN [call[c] EXCEPT !.orphan = TRUE] ELSE call[c]]
    /\ late' = FALSE
    /\ UNCHANGED <<marketVars, listed>>

(* Without a client there is nothing to await.                             *)
CloseNothing ==
    /\ api.made /\ api.client = "none"
    /\ api' = Closed
    /\ late' = FALSE
    /\ UNCHANGED <<marketVars, call, closing, listed>>

-----------------------------------------------------------------------------
(* The exchange lists and delists perp markets. *)
List(s) ==
    /\ s \notin listed
    /\ listed' = listed \cup {s}
    /\ UNCHANGED <<api, marketVars, call, closing, late>>

Delist(s) ==
    /\ s \in listed
    /\ listed' = listed \ {s}
    /\ call' = [c \in Callers |->
                  IF call[c].sym = s THEN [call[c] EXCEPT !.known = FALSE] ELSE call[c]]
    /\ UNCHANGED <<api, marketVars, closing, late>>

CallStep(c) ==
    \/ \E op \in {"open", "query"} : AgentCall(c, op, NoSym)
    \/ \E op \in {"order", "subscribe"}, t \in Tokens : AgentCall(c, op, t)
    \/ \E s \in Symbols : PerpCall(c, s)
    \/ Granted(c)
    \/ \E tokens \in TokenAnswers : TokensArrive(c, tokens)
    \/ TokensFail(c) \/ MarketsServed(c) \/ MarketsArrive(c) \/ MarketsFail(c)
    \/ Response(c) \/ ResponseFail(c)

Next ==
    \/ \E c \in Callers : CallStep(c)
    \/ CloseBegin \/ CloseEnd \/ CloseNothing
    \/ \E s \in Symbols : List(s) \/ Delist(s)

Spec == Init /\ [][Next]_vars

(* The event loop: aclose() returns, and the lock wakes its first waiter.   *)
Fairness == WF_vars(CloseEnd) /\ \A c \in Callers : WF_vars(Granted(c))

FairSpec == Spec /\ Fairness

-----------------------------------------------------------------------------
(* An API that is initialised but has no client, on which every request    *)
(* fails until it is closed once more, has one cause: the answer to a token *)
(* request that outlived its client.  However else close() and              *)
(* initialisations interleave, the flag goes with the client                *)
(* (async_api.py:54-67, 117-122).                                           *)
ClientlessIsLate == (api.initialized /\ api.client = "none") => late

(* "assert self._client is not None" (async_api.py:127, 137, 147, 157):     *)
(* after its initialisation a request finds a client.                       *)
ClientAsserted == \A c \in Callers : call[c].result # "assert"

(* "an empty token list is retried on the next call instead of being        *)
(* latched as a permanently empty map" (async_api.py:63-67).                *)
InitializedHasTokens == api.initialized => api.tokens # {}

(* The markets are fetched by one task at a time, the one that holds the    *)
(* lock, and only for a symbol that is still not cached: a herd of misses   *)
(* makes one fetch (perp/async_agent.py:107-112).                           *)
NoNeedlessFetch ==
    \A c \in Callers : HoldsLock(call[c]) => lock = c /\ call[c].sym \notin cache

(* A symbol that was listed all the time of a call is never refused as      *)
(* unknown, whoever fetched the markets and whatever fetch failed           *)
(* meanwhile (perp/async_agent.py:96-101, 141-145).                         *)
ListedResolves ==
    [][\A c \in Callers :
          (call[c].op = "perp" /\ call[c].known /\ call[c].at # "idle") =>
              call'[c].result # "unknown"]_vars

(* A perp request on its way carries a market id that every other task      *)
(* still finds in the cache, whichever markets were fetched, refused or     *)
(* delisted since: no task resolves a symbol another one is already         *)
(* trading again (perp/async_agent.py:96-104, 125-145).                     *)
Resolved(x) ==
    x.op = "perp" /\ (x.at = "request" \/ (x.at = "init" /\ x.next = "send"))

RequestsResolved == \A c \in Callers : Resolved(call[c]) => call[c].sym \in cache

(* Requests end, in a response or an error.  Nothing in the SDK sees to it: *)
(* the default timeout of None takes every limit off httpx                  *)
(* (async_api.py:40, 58-61), so either the application gives a timeout or   *)
(* the server always answers.                                               *)
RequestsEnd ==
    \A c \in Callers :
        /\ WF_vars(TokensFail(c) \/ \E tokens \in TokenAnswers : TokensArrive(c, tokens))
        /\ WF_vars(MarketsArrive(c) \/ MarketsFail(c))
        /\ WF_vars(Response(c) \/ ResponseFail(c))

(* As far as requests end, every call does, in a result or an error:        *)
(* failing fetches and close() never leave a task waiting for the lock      *)
(* (perp/async_agent.py:107-145).                                           *)
CallsEnd ==
    RequestsEnd => \A c \in Callers : call[c].at # "idle" ~> call[c].at = "idle"
=============================================================================
