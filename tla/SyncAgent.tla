----------------------------- MODULE SyncAgent -----------------------------
(***************************************************************************)
(* Agent (src/alphasec/agent.py) as threads use it: the REST side          *)
(* (SyncClient) and the deposits to the L1 (Deposit).  deposit() finds its *)
(* token as any call does, in maps that may have to be fetched first, and  *)
(* hands over to the signer; when the L1 part is over the call is.         *)
(***************************************************************************)
EXTENDS Deposit, FiniteSets

CONSTANTS
    Symbols, Listings, TokenAnswers, Traded, Orders, NoCaller, NoSym, NoOrder,
    Ops          \* the calls each thread makes, besides a deposit

ASSUME AnswerAssumption == TokenAnswers \subseteq SUBSET Tokens /\ Listings \subseteq SUBSET Symbols
ASSUME TradedAssumption == Traded \subseteq Tokens
ASSUME NoCallerAssumption == NoCaller \notin Callers

VARIABLES api, cache, lock, call, listed

Client == INSTANCE SyncClient

ASSUME OrderAssumption == Orders \subseteq Client!Order

clientVars == <<api, cache, lock, call, listed>>
agentVars == <<vars, clientVars>>

AgentTypeOK == TypeOK /\ Client!TypeOK

AgentInit == Init /\ Client!Init

-----------------------------------------------------------------------------
(* Bound: a deposit is the last call of its thread; it leaves nothing on    *)
(* the REST side that later calls could find.                               *)
ClientStep(c) ==
    /\ \/ Client!Proceed(c)
       \/ dep[c].at = "idle" /\ \E op \in Ops[c] : Client!Start(c, op)
    /\ UNCHANGED vars

(* deposit(): from the lookup of its token ... *)
DepositCall(c) ==
    /\ dep[c].at = "idle"
    /\ Client!AgentCall(c, "deposit", dep[c].token, NoOrder)
    /\ UNCHANGED vars

(* ... over the signer and the L1 ... *)
HandOver(c) ==
    /\ call[c].at = "bridge"
    /\ Begin(c)
    /\ UNCHANGED clientVars

L1Step(c) == DepositStep(c) /\ UNCHANGED clientVars

(* ... to its answer. *)
HandBack(c) ==
    /\ dep[c].at = "over"
    /\ Client!Bridged(c)
    /\ UNCHANGED vars

AgentNext ==
    \/ \E c \in Callers :
          ClientStep(c) \/ DepositCall(c) \/ HandOver(c) \/ L1Step(c) \/ HandBack(c)
    \/ Chain /\ UNCHANGED clientVars
    \/ Client!Exchange /\ UNCHANGED vars

AgentSpec == AgentInit /\ [][AgentNext]_agentVars

(* Every request ends, in a response or an error, and so does every request *)
(* to the L1 node; its receipts are given 120 seconds.  The lock is not     *)
(* fair, but no thread that waits for it is passed over for ever.           *)
AgentFairness ==
    \A c \in Callers :
        /\ WF_agentVars(\/ Client!Answered(c) /\ UNCHANGED vars
                        \/ HandOver(c) \/ L1Step(c) \/ HandBack(c))
        /\ SF_agentVars(Client!Granted(c) /\ UNCHANGED vars)

FairAgentSpec == AgentSpec /\ AgentFairness

-----------------------------------------------------------------------------
(* "Don't latch an empty map: retry on the next call" (api.py:40): however  *)
(* many threads initialise the API at once, an initialised one has tokens   *)
(* and keeps having them (api.py:35-44).                                    *)
InitializedHasTokens == api.initialized => api.tokens # {}

(* The markets are fetched by one thread at a time, the one that holds the  *)
(* lock, and only for a symbol that is still not cached: "collapses a       *)
(* concurrent miss herd to a single fetch" (perp/agent.py:76-85).           *)
NoNeedlessFetch ==
    \A c \in Callers :
        Client!HoldsLock(call[c]) => lock = c /\ call[c].sym \notin cache

(* A perp request on its way carries a market id that every other thread    *)
(* still finds, without the lock, whichever markets were fetched or         *)
(* delisted since: readers never see a map that lost entries                *)
(* (perp/agent.py:71-74, 95-107).                                           *)
Resolved(x) ==
    x.op = "perp" /\ (x.at = "request" \/ (x.at = "init" /\ x.next = "send"))

RequestsResolved == \A c \in Callers : Resolved(call[c]) => call[c].sym \in cache

(* A symbol that was listed all the time of a call is never refused as      *)
(* unknown, "never mask it as unknown symbol", whoever fetched the markets  *)
(* and whatever fetch failed meanwhile (perp/agent.py:84-93, 109-113).      *)
ListedResolves ==
    [][\A c \in Callers :
          /\ Client!Granted(c) \/ Client!MarketsArrive(c)
          /\ call[c].known
          => call'[c].at # "idle"]_agentVars

(* The price and the quantity of a limit, stop or modified order are sent   *)
(* on the grid of the price that is sent, although rounding may lift it     *)
(* into another band than the one the decimals were taken from              *)
(* (utils.py:91-97).  The prices attached to a limit order are excepted:    *)
(* they are sent as given (api.py:327).                                     *)
PairsOnGrid ==
    \A c \in Callers :
        LET o == call[c].order
        IN  o # NoOrder => o.given.kind = "market"
                           \/ Client!PairOnGrid(o.sent.price, o.sent.quantity)

(* A stop order whose trigger is on one side of its price is not sent with  *)
(* the trigger past the price, although the two are rounded on grids of     *)
(* their own (api.py:398-399).                                              *)
StopSideKept ==
    \A c \in Callers :
        LET o == call[c].order
        IN  o # NoOrder =>
              \/ o.given.kind # "stop"
              \/ /\ o.given.stop.m <= o.given.price.m => o.sent.stop.m <= o.sent.price.m
                 /\ o.given.stop.m >= o.given.price.m => o.sent.stop.m >= o.sent.price.m

(* Every call comes back, in a result or an error, whatever fails: the lock *)
(* is always released, and a deposit ends whether or not its transactions   *)
(* are ever mined (perp/agent.py:78-113, api.py:446-474).                   *)
CallsEnd == \A c \in Callers : call[c].at # "idle" ~> call[c].at = "idle"
=============================================================================
