---------------------------- MODULE SyncClient ----------------------------
(***************************************************************************)
(* The REST side of the threaded SDK: API (src/alphasec/api/api.py) and    *)
(* PerpAgent (src/alphasec/perp/agent.py) under one Agent                  *)
(* (src/alphasec/agent.py), called from several threads.                   *)
(*                                                                         *)
(* A call is the sequence of what its thread waits for: the token request  *)
(* of a lazy initialisation, the cache lock, the market request, its own   *)
(* request.  What it does between two of them is one step: it writes what  *)
(* others read at one point at most (the four maps and the flag change     *)
(* without a switch of threads from Python 3.10 on), and what it reads     *)
(* only grows.                                                             *)
(*                                                                         *)
(* The calls are named by what they need: "query" (get_tickers, cancel,    *)
(* value_transfer, ...) one request of an initialised API, so not          *)
(* get_tokens, which loads the maps; "modify" one with an order in it,     *)
(* "order" (order, stop_order; get_depth, token_transfer, ... without an   *)
(* order) a token id and one request, "transfer" the token map but not its *)
(* answer, "subscribe" (and initialize) a token id and no request, "perp"  *)
(* a market id and one request, "deposit" a token id, then the L1.  Left   *)
(* out: the content of requests and responses, what withdraw asks the L2   *)
(* node before its request, and refusals that depend on the arguments or   *)
(* the configuration alone.                                                *)
(***************************************************************************)
EXTENDS Normalize, FiniteSets

CONSTANTS
    Callers,        \* threads of the application
    Tokens,         \* spot symbols
    Symbols,        \* perp symbols
    Listings,       \* the sets of them the exchange may list
    TokenAnswers,   \* what the token endpoint may answer: sets of tokens
    Traded,         \* bound: the symbols calls name, of Tokens
    Orders,         \* the orders threads place, as they give them
    NoCaller, NoSym, NoOrder

VARIABLES
    api,      \* the API: its token maps and _initialized
    cache,    \* _market_cache: the symbols it has
    lock,     \* _cache_lock: who holds it
    call,     \* what each thread is doing
    listed    \* the exchange: perp symbols it lists

vars == <<api, cache, lock, call, listed>>

-----------------------------------------------------------------------------
Op == {"query", "modify", "order", "transfer", "subscribe", "perp", "deposit"}

Sendable == [given : Orders, sent : Wire]

Idle ==
    [at |-> "idle", op |-> "none", sym |-> NoSym, order |-> NoOrder, next |-> "none",
     known |-> FALSE, answer |-> {}]
Call ==
    [at : {"init", "wait", "market", "served", "request", "bridge"},
     op : Op,
     sym : Tokens \cup Symbols \cup {NoSym},
     order : Sendable \cup {NoOrder},
     next : {"none", "lookup", "market", "send"},  \* after the token request
     known : BOOLEAN,          \* listed ever since the call began
     answer : SUBSET Symbols]  \* the markets, on their way back

TypeOK ==
    /\ api \in [initialized : BOOLEAN, tokens : SUBSET Tokens]
    /\ cache \subseteq Symbols
    /\ lock \in Callers \cup {NoCaller}
    /\ call \in [Callers -> Call \cup {Idle}]
    /\ listed \subseteq Symbols

Init ==
    /\ api = [initialized |-> FALSE, tokens |-> {}]
    /\ cache = {} /\ lock = NoCaller
    /\ call = [c \in Callers |-> Idle]
    /\ listed \in Listings

-----------------------------------------------------------------------------
(* How a call goes on, as its next record, when the state of the API is a. *)

(* _ensure_initialized(): go on when initialised, else ask for the tokens. *)
Ensure(x, next, a, goesOn) ==
    IF a.initialized THEN goesOn ELSE [x EXCEPT !.at = "init", !.next = next]

Request(x, at) == [x EXCEPT !.at = at, !.next = "none"]
Send(x, a)     == Ensure(x, "send", a, Request(x, "request"))
Market(x, a)   == Ensure(x, "market", a, Request(x, "market"))

(* The readers of the token maps.  PerpAgent.transfer() takes a token it    *)
(* does not find there for an id.                                           *)
Lookup(x, a) ==
    IF x.op # "transfer" /\ x.sym \notin a.tokens THEN Idle
    ELSE CASE x.op = "subscribe" -> Idle
           [] x.op = "deposit"   -> Request(x, "bridge")
           [] OTHER              -> Send(x, a)

Enter(x, a) ==
    IF x.op \in {"query", "modify"} THEN Send(x, a)
    ELSE Ensure(x, "lookup", a, Lookup(x, a))

(* The token request is over, with tokens or without. *)
Initialised(x, a) ==
    CASE x.next = "lookup" -> Lookup(x, a)
      [] x.next = "market" -> Request(x, "market")
      [] x.next = "send"   -> Request(x, "request")

GoOn(c, x) == call' = [call EXCEPT ![c] = x]

HoldsLock(x) ==
    x.at \in {"market", "served"} \/ (x.at = "init" /\ x.next = "market")

LockFor(c, x) == IF HoldsLock(x) THEN c ELSE NoCaller
Held(c, x)    == IF lock = c THEN LockFor(c, x) ELSE lock

-----------------------------------------------------------------------------
NewCall(op, sym, order) ==
    [at |-> "init", op |-> op, sym |-> sym, order |-> order, next |-> "none",
     known |-> sym \in listed, answer |-> {}]

AgentCall(c, op, sym, order) ==
    /\ call[c].at = "idle"
    /\ GoOn(c, Enter(NewCall(op, sym, order), api))
    /\ UNCHANGED <<api, cache, lock, listed>>

(* An order is put on the grid before it is signed. *)
OrderCall(c, op, sym) ==
    \E o \in Orders : \E w \in Posted(o) :
        /\ (o.kind = "modify") = (op = "modify")
        /\ AgentCall(c, op, sym, [given |-> o, sent |-> w])

(* A call of the perp agent: the market id is cached, or the thread asks    *)
(* for the lock.                                                            *)
PerpCall(c, sym) ==
    LET x == NewCall("perp", sym, NoOrder)
    IN  /\ call[c].at = "idle"
        /\ GoOn(c, IF sym \in cache THEN Send(x, api) ELSE Request(x, "wait"))
        /\ UNCHANGED <<api, cache, lock, listed>>

RecheckSkipped(x) ==     \* mutant: no second look under the lock
    Market(x, api)

RecheckTrusts(x) ==      \* mutant: relies on the fetch of the holder before
    IF x.sym \in cache THEN Send(x, api) ELSE Idle

(* Under the lock: another thread may have populated the cache meanwhile. *)
Recheck(x) == IF x.sym \in cache THEN Send(x, api) ELSE Market(x, api)

(* The lock goes to any thread that waits for it, and comes back at once    *)
(* when the second look finds the symbol.                                   *)
Granted(c) ==
    /\ call[c].at = "wait"
    /\ lock = NoCaller
    /\ GoOn(c, Recheck(call[c]))
    /\ lock' = LockFor(c, Recheck(call[c]))
    /\ UNCHANGED <<api, cache, listed>>

-----------------------------------------------------------------------------
(* Responses.                                                              *)

LoadedAlways(tokens) ==  \* mutant: the maps are swapped in before the check
    [api EXCEPT !.tokens = tokens, !.initialized = @ \/ tokens # {}]

(* An empty list changes nothing, here not even the maps. *)
Loaded(tokens) ==
    IF tokens = {} THEN api ELSE [initialized |-> TRUE, tokens |-> tokens]

TokensArrive(c, tokens) ==
    LET x == Initialised(call[c], Loaded(tokens))
    IN  /\ call[c].at = "init"
        /\ GoOn(c, x)
        /\ api' = Loaded(tokens)
        /\ lock' = Held(c, x)
        /\ UNCHANGED <<cache, listed>>

KeepsLock(c) == lock     \* mutant: a failing fetch does not release the lock

Released(c) == IF lock = c THEN NoCaller ELSE lock

(* A request fails: nothing is latched, the error goes up; but a failing    *)
(* fetch of the markets serves what is cached.                              *)
Failed(x) ==
    IF HoldsLock(x) /\ x.sym \in cache THEN Send([x EXCEPT !.answer = {}], api)
    ELSE Idle

TokensFail(c) ==
    /\ call[c].at = "init"
    /\ GoOn(c, Failed(call[c]))
    /\ lock' = Released(c)
    /\ UNCHANGED <<api, cache, listed>>

MergedWhole(markets) ==  \* mutant: the answer becomes one entry
    cache \cup {markets}

MergedReplaces(markets) == markets   \* mutant: earlier entries are dropped

Merged(markets) == cache \cup markets

(* The exchange answers with the markets it lists now. *)
MarketsServed(c) ==
    /\ call[c].at = "market"
    /\ call' = [call EXCEPT ![c].at = "served", ![c].answer = listed]
    /\ UNCHANGED <<api, cache, lock, listed>>

(* Its answer arrives. *)
MarketsArrive(c) ==
    LET x == [call[c] EXCEPT !.answer = {}]
    IN  /\ x.at = "served"
        /\ cache' = Merged(call[c].answer)
        /\ GoOn(c, IF x.sym \in cache' THEN Send(x, api) ELSE Idle)
        /\ lock' = Released(c)
        /\ UNCHANGED <<api, listed>>

MarketsFail(c) ==
    /\ call[c].at \in {"market", "served"}
    /\ GoOn(c, Failed(call[c]))
    /\ lock' = Released(c)
    /\ UNCHANGED <<api, cache, listed>>

(* A response, a transport error, a body that is not JSON, or an error      *)
(* envelope.                                                                *)
Response(c) ==
    /\ call[c].at = "request"
    /\ GoOn(c, Idle)
    /\ UNCHANGED <<api, cache, lock, listed>>

(* The L1 part of a deposit is over. *)
Bridged(c) ==
    /\ call[c].at = "bridge"
    /\ GoOn(c, Idle)
    /\ UNCHANGED <<api, cache, lock, listed>>

-----------------------------------------------------------------------------
(* The exchange lists and delists perp markets. *)
Exchange ==
    /\ listed' \in Listings \ {listed}
    /\ call' = [c \in Callers |-> [call[c] EXCEPT !.known = @ /\ call[c].sym \in listed']]
    /\ UNCHANGED <<api, cache, lock>>

(* The calls a thread makes, deposits apart. *)
Start(c, op) ==
    \/ op = "query" /\ AgentCall(c, op, NoSym, NoOrder)
    \/ op = "modify" /\ OrderCall(c, op, NoSym)
    \/ op \in {"order", "transfer", "subscribe"}
         /\ \E t \in Traded : AgentCall(c, op, t, NoOrder)
    \/ op = "order" /\ \E t \in Traded : OrderCall(c, op, t)
    \/ op = "perp" /\ \E s \in Symbols : PerpCall(c, s)

(* What a thread waits for comes: an answer, or a failure. *)
Answered(c) ==
    \/ (\E tokens \in TokenAnswers : TokensArrive(c, tokens)) \/ TokensFail(c)
    \/ MarketsArrive(c) \/ MarketsFail(c)
    \/ Response(c)

Proceed(c) == Granted(c) \/ MarketsServed(c) \/ Answered(c)
=============================================================================
