# Verification of the AlphaSec Python SDK

The SDK under `src/alphasec/` is a client library for the AlphaSec exchange. Applications
place orders over REST and receive market and account events over one WebSocket. Each half
exists twice: threaded (`Agent`, `API`, `WebsocketManager`) and on asyncio (`AsyncAgent`,
`AsyncAPI`, `AsyncWebsocketManager`). What is hard in it is not the requests but the state
that several tasks or threads share while connections come and go: the subscription registry,
readiness, start and stop, lazy initialisation, the market cache, and the L1 account that deposits use.

This directory holds TLA+ models of those parts, TLC configurations that check them on small
instances, and TLAPS proofs, for every instance, of each safety property those runs check.

    tlc -workers 2 -config session.cfg MCAsyncWs      # one run; the list is below
    tlapm AsyncWsProofs.tla                           # one proof module

`PROJECT.json` maps every definition to the lines it models, and lists runs, mutants (a
plausible bug for each property, which the property must catch), findings and hazards.

## 1. Inventory

| Part | State | Operations | Interacts with |
|---|---|---|---|
| `AsyncWebsocketManager` (`websocket/async_ws.py`) | `_ws`, `ws_ready`, `_stop_event`, `_ping_task`, `_callback_tasks`, `subscription_id_counter`, `active_subscriptions` | `connect`, `run` (receive, `_reconnect`, `_restore_subscriptions`, backoff), `_ping_loop`, `on_message`, `subscribe`, `unsubscribe`, `stop` | the `websockets` library, tasks of the application, async callbacks |
| `AsyncAgent` (`async_agent.py`) | `api`, `ws`, `_run_task` | `start`, `stop`, `__aenter__/__aexit__`, `_ensure_initialized`, delegating calls | `AsyncAPI`, `AsyncWebsocketManager` |
| `WebsocketManager` (`websocket/ws.py`) | as above, with a thread, a ping thread and a `WebSocketApp` per connection | `run`, `on_open`, `on_close`, `on_error`, `on_message`, `send_ping`, `subscribe`, `unsubscribe`, `stop` | `websocket-client`, application threads |
| `Agent` (`agent.py`) | owns an `API`, a `PerpAgent` and a `WebsocketManager` | `start`, `stop`, delegating calls, market names of `subscribe` | all three |
| `AsyncAPI` (`api/async_api.py`) | `_client`, `_initialized`, three token maps | `_ensure_initialized`, `close`, about thirty requests | `httpx`, signer |
| `API` (`api/api.py`) | `_initialized`, four token maps | `_ensure_initialized`, the same requests, blocking, from any thread | `requests`, signer |
| `AsyncPerpAgent`, `PerpAgent` (`perp/`) | `_market_cache`, `_cache_lock` | `_resolve_market_id`, trading calls, queries | the API client |
| `AlphasecSigner` (`transaction/sign.py`) | keys and chain id | EIP-712 and RLP payloads, deposit (approve, then transfer), withdraw | L1/L2 nodes through `web3` |
| Normalisation (`transaction/utils.py`) | none | `normalize_price_quantity`, `resolve_spot_order_price_quantity` | callers of `order` |
| Message types and decoding (`websocket/types.py`, `perp/ws.py`) | none | key renaming, `PerpEvent` | managers |
| Schemas, ABIs, constants, package surface | none | none | |

What makes each part correct:

* **Subscription managers.** The registry changes only by what a call did; a subscription the
  application was given stays registered; while connected the server serves every registration,
  after any number of drops; a message reaches exactly the subscriptions of its stream; at most one
  userEvent subscription per address; a stopped manager is not ready, has no socket, no callback and no loop; calls come back.
* **REST side.** Concurrent first calls leave an initialised client with usable maps; `close()`
  takes the client and the flag together; concurrent cache misses make
  one fetch; a listed market resolves; no task waits for the lock longer than requests take.
* **Signer.** A deposit is sent only on an allowance that covers it, as far as the code can know; it
  never takes the nonce of its own approval; the answer of a call is what the chain did, for good.
* **Normalisation.** The price and the quantity of an order lie on the documented grid of that price, also
  where rounding leads to another grid, and a stop order's trigger does not move to the other side of its
  price. Prices attached to an order (take-profit, stop-loss) are sent as given, on no grid.

Hard behaviours: every `await` and every thread switch between reading and writing the registry,
the readiness flag and the socket; loss of a connection at any of them; frames lost or overtaking
each other; `stop()` during a reconnect, a restore, a backoff or a callback; restart after stop;
timeouts of calls against flapping connections; failing and empty responses during lazy
initialisation; a failing fetch under a lock; two transactions in a row, each with a nonce the node has to
agree with, whose answers or receipts may be lost, and two such pairs at once. `PROJECT.json` lists them one by one as hazards.

## 2. Modules

| Module | Role |
|---|---|
| `SubscriptionRegistry` | abstract: what both managers promise about `active_subscriptions` |
| `AsyncWs` | `AsyncWebsocketManager` and the lifecycle part of `AsyncAgent`; implements the above |
| `AsyncWsProofs`, `AsyncWsSocketProofs` | theorems about `AsyncWs`: the registry and readiness; sockets, pings and what is served |
| `Routing`, `RoutingProofs` | the keys of channels and messages in both managers, and theorems about them |
| `RoutedAsyncWs` | `AsyncWs` with the keys of `Routing`; its theorem is in `RoutingProofs` |
| `SyncWs`, `SyncWsProofs` | `WebsocketManager` and `Agent.start/stop`; implements `SubscriptionRegistry`; theorems |
| `AsyncClient` | `AsyncAPI`, `AsyncAgent._ensure_initialized`, `AsyncPerpAgent`'s cache |
| `AsyncClientProofs` | theorems about `AsyncClient` |
| `DepositReports` | abstract: what `deposit_to_alphasec()` promises about its answer |
| `Deposit`, `DepositProofs` | a deposit of either REST client with the signer, and the L1 account; implements the above; theorems |
| `Normalize`, `NormalizeProofs` | prices and quantities on the exchange's grid: operators, no state; theorems about them |
| `SyncClient` | `API` and `PerpAgent` called from several threads |
| `SyncAgent`, `SyncAgentProofs` | `Agent`: composes `SyncClient` and `Deposit`; theorems |
| `MCAsyncWs`, `MCSyncWs`, `MCAsyncClient`, `MCSyncAgent` | small instances |

Some modules hold definitions marked `mutant`: seeded bugs that no specification uses.

### AsyncWs

One event loop, so a step is what one task does between two points where it really suspends.
The tasks: `connect()` and `stop()`, the callers, the `run()` task, the ping tasks, the
callback tasks.

| TLA+ | Code |
|---|---|
| `event`, `eventSet` | which `asyncio.Event` `_stop_event` holds, and which are set; `connect()` makes a new one |
| `ws`, `wsReady`, `counter`, `active`, `pingRef`, `cbTasks` | the attributes of those roles |
| `pingLive` | ping tasks not finished, whether the manager still refers to them or not |
| `run[r]` | where a `run()` task is, the socket it receives on or closes, the event its backoff waits on |
| `conn`, `server` | each socket, and the channels the server serves on it |
| `call[c]` | a `subscribe()`/`unsubscribe()` in flight: parked on `ws_ready`, or sending |
| `held` | ghost: subscriptions returned to the application and not given up |
| `ConnectBegin/Ok/Fail` | `connect()` to its await, and after it |
| `RunStart`, `RunDisconnected`, `RunBreak` | the loop of `run()` |
| `RunConnectOk/Fail`, `RestoreSend/Fail/Done`, `RunShut`, `Backoff*` | `_reconnect()` and `_restore_subscriptions()`, one step per send |
| `Deliver`, `CallbackDone` | `on_message()` and its callback tasks |
| `StopBegin`, `StopClose`, `StopEnd` | `stop()` cut at its awaits; under `Lifecycle = "agent"` it also cancels and awaits the `run()` task |
| `SubSend`, `SubDone`, `UnsubSend`, `UnsubDone`, `SendWrite`, `SendFail` | the calls before and after the await of the frame |

Abstractions and assumptions:

* A list of subscriptions is a set: ids are unique, and nothing modelled depends on order.
* Frames are their effect on the set of channels served. Sends on one socket are serialised in
  order (the `protocol_mutex` of `websockets`), and a send waiting on a lost socket is woken before
  a new handshake can finish (`LostSendsResolved`: a few turns of the loop against network round
  trips).
* `Deliver` lets any of `Messages` arrive at any time: the server is over-approximated.
* Channels, keys and messages are constants here (`IdentOf`, `MsgIdent`, `About`); `Routing` says
  what they are, and `KeyedByRouting` in `RoutedAsyncWs` that they are those of the code.
* `close()` of a socket does not wait for sends that are queued on it.
* Switches name what the application does. `Overlap`: two calls in flight on one identifier.
  `StopWhileConnecting`: `stop()` while `connect()` is awaited. The results that depend on them say so.

### Routing

A channel is a record of topic and target (market id, with a candle's resolution, or address); a key
is a record of tag and lower-cased target; `lower()` and `is_address()` are constants. What the code
decides is kept: perp topics before the words `trade`, `depth`, `ticker`, `userEvent`, since
`perp_ticker` contains `ticker`; a perp message keyed by its channel, a market message by the
`marketId` it carries, a user event by the address in its channel; empty results and rejected
addresses have no key. `AsyncTag` and `SyncTag` are the tags of the two managers. About the server only
`Sent` is assumed: a market message carries the market of its channel, in some spelling. Malformed
messages and channels without `@` are left out.

### SyncWs

Threads: the manager's (reconnect loop and every callback of `WebSocketApp`), the ping thread,
application threads. A step lies between two calls, where the interpreter (3.10 and later)
may switch threads; the increment of the id counter is therefore one step. Reading `self.ws` and
sending on it is one step, since a backoff of a second or more separates two applications.

`thread` follows `run()`: checking `stop_event`, dialling, restoring inside `on_open`, reading,
ended, backing off. `todo` is what the restore has still to send; a live list is iterated, so a
registration appended meanwhile, up to the end of the restore, may be added to it. `DialOk` sets `ws_ready` *before* the
restore, as the code does. An exception in a subscriber's callback is handed to `on_error`, which
clears `ws_ready` on a live connection (`CallbackRaised`). Registration happens before the frame is
sent, so a failing send leaves a registration that `subscribe()` did not return; the model keeps
it. `missed` is a ghost: it becomes true when `close()` falls between the check of the event and
`run_forever()`, where it has nothing to close.

### AsyncClient

A call of the application is the sequence of its suspensions: token request (`at = "init"`), wait
for `_cache_lock` (`"wait"`), market request (`"market"`, `"served"` once the exchange has
answered), its own request. `next` says how it continues after the token request. `api` holds the client, the
`_initialized` flag and the token map; `cache`, `lock` and `queue` are `_market_cache` and
`_cache_lock` with its FIFO waiters. `known` (ghost) says the symbol was listed all along. Calls
are classes: what they need is modelled, their content is not. `CloseBegin`/`CloseEnd` are `close()`
around `aclose()`, `CloseNothing` a `close()` that finds no client. `aclose()` ends the requests whose
connection is open and not those that are still connecting, so a request in flight may fail or
be answered at any time, after `close()` too. A request that finds no client ends in the result `"assert"`, which
is the assertion of `get()`, `post()`, `put()` and `delete()`. Two history variables say where that can come
from: `orphan` marks a token request whose client was closed, `late` that such a request was answered
with tokens since the last `close()`. Nothing serialises two
initialisations, so both may be under way at once, as in the code. Left out: two `close()` calls at
once, and a second "open" of an agent.

### Deposit

`dep[c]` is where a call of `deposit_to_alphasec()` stands: reading the allowance, reading a nonce,
sending, waiting for a receipt, over with a result (`step` says for which of its two transactions). A
native deposit starts at the nonce. Between two of these the code waits for the node, so a step is
what happens from one answer to the next.

| TLA+ | Code |
|---|---|
| `Begin` | `generate_deposit_transaction()` up to its first question to the node |
| `ReadAllowance`, `Enough` | `allowance(...)`, `if allowance < value_onchain_unit` |
| `ReadNonce` | `get_transaction_count()` as an argument of `build_transaction()`: once per transaction |
| `Send`, `Refused`, `NodeFails` | `send_raw_transaction()`; its answer may be lost with the transaction out |
| `Receipt`, `ReceiptTimeout` | `wait_for_transaction_receipt()`; an approval's status is not looked at, a deposit's is |

The L1 is external and modelled from what the code relies on: `count` mined transactions, the one
`pending` at the node, the `allowance` of each token, the `fate` of each transaction. A nonce is read
as `count` and never exceeds it, so the node holds at most one transaction of the account. The node refuses a used nonce
always and a taken one possibly (it may also replace the pending transaction); mining may revert for a reason
of its own (`"reverted"`) or for want of allowance (`"short"`); a pending transaction may be dropped.
`approve()` sets an allowance, a carried-out deposit uses it up. The deposits of a thread are
independent callers, each with one deposit.

### SyncClient, Normalize and SyncAgent

`SyncClient` is to threads what `AsyncClient` is to tasks, with what differs in the code kept apart:
an empty token list changes nothing, a failure inside a locked fetch releases the lock, any waiting
thread may get it next. A step runs from one blocking call to the next. That is sound because a thread
writes at most once in between, and the four maps and the flag are written without a switch
of threads in between (no call, no backward jump; 3.10 and later).

`Normalize` has the two functions of `transaction/utils.py` on exact decimals `m / 10^e`. They
return the *set* of results: the code rounds the nearest binary number, so a decimal half may go to either
side, though the same number always to the same, which `StopOrder` says of a stop order given one price
twice. `Unit[e]` is `10^e`. `Posted(o)` is what `order()`, `modify()` or `stop_order()` may send for an order; a call of
`SyncClient` carries the order as given and as sent. `tpsl` are the prices of a take-profit and a stop-loss
that `order()` takes with an order: no function of `utils.py` sees them, they are sent as given, except that
`sl_limit` alone is dropped (`TpslSent`; `sign.py:275`, expected by `sign_spot_test.py:62`).

`SyncAgent` joins both: `deposit()` looks for its token like any call (`DepositCall`), hands over to
`Deposit` (`HandOver`, `L1Step`) and takes the answer back (`HandBack`), while the other threads go on.

## 3. Runs

| Run | Instance | What it shows |
|---|---|---|
| `session` | 2 callers, 2 sockets, a market channel and the userEvent channel of an address in two spellings, messages of three streams, 3 ids, one `connect()`, overlapping calls | `OneUserEvent`, `RoutedToSubscribers`, `RegisteredIsServed`, `NotReadyAfterStop`, `NoSocketAfterStop`, `NoCallbackAfterStop`, `RestoreStable` hold through drops, failed sends and handshakes, restores and `stop()` at any point |
| `restart` | 2 callers, 2 `run()` tasks, 2 connects under `AsyncAgent`, calls not overlapping on an identifier | `HeldIsRegistered`, `PingOwned`, `StopEndsReconnect`, and `RegistrySpec`: the manager implements `SubscriptionRegistry` |
| `recovery` | 1 channel, fairness | `StopEndsRuns`, `Recovery`, `CallsReturn` |
| `threaded` | 2 threads, 2 channels, 2 ids, raising callbacks, fairness | the same questions for the threaded manager: `HeldIsRegistered`, `RegisteredIsServed`, `RegistrySpec`, `Recovery`, `CallsReturn`, `StopEndsThread` |
| `client` | 2 tasks, 1 token, 2 perp symbols, fairness | `ClientlessIsLate`, `NoNeedlessFetch`, `RequestsResolved`, `ListedResolves`, `CallsEnd` |
| `agent` | 2 threads, 2 tokens, 2 perp symbols, 5 orders, 2 deposits, fairness | `InitializedHasTokens`, `NoNeedlessFetch`, `RequestsResolved`, `ListedResolves`, `PairsOnGrid`, `StopSideKept`, `NonceIsFree`, `DepositIsCovered`, `DepositSpec` (`Deposit` implements `DepositReports`), `CallsEnd` |
| `overlap`, `restart_stale`, `stop_connecting`, `threaded_userevent`, `clientless`, `client_latch` | | violations: section 6 |

Why the bounds are enough to be interesting:

* Two callers are what each race needs: one between its check and its write, and one that
  changes what was checked. Three ids let one subscription be replaced while a third call is in flight.
* Two sockets: the lost one and its successor. Sockets are reused once nothing refers to them,
  so the number of reconnects is not bounded. They are symmetric in the safety runs; no symmetry
  is used where liveness is checked.
* Two connects give one restart, the least that lets a task of one session meet the next.
* The market topic is `perp_ticker`, whose name contains that of another stream; messages of
  `ticker`, of the address in a third spelling and empty ones are there to be kept away.
* Two symbols and one token give a hit, a miss, a symbol delisted and another still listed.

* Two deposits of one account race for nonces, and where both are of the ERC-20 token also for the
  allowance. `Plans` fixes who deposits what, `MaxGranted` an allowance granted before (0 or 1): none,
  one that covers the smaller deposit, none that covers the larger. One deposit is of 2, so an
  allowance of 1 is the case that is neither nothing nor enough.
* Prices of `MCOrders` sit just below the bounds of the grid, where rounding leads into the next
  band, or on a decimal half; one stop order has its trigger and its price in two bands, another has
  both on the same half. One limit order has a take-profit that its rounded price passes, the market order
  a stop-loss limit alone.
* `Ops` says which calls each thread makes, `Traded` which tokens they name; both threads use perps and
  deposit. A deposit is the last call of its thread, since it leaves nothing on the REST side.

The bounds `MaxId` and `MaxGen` are guards of `CallSub` and `ConnectBegin`. Deadlock is not
checked: an application may stop calling, and the system then rests.

### Fairness

Only what the schedulers and libraries give. A task or thread that can continue is resumed (weak
fairness per task step). A closing handshake and a handshake attempt end in one way or
another (`close_timeout` and `open_timeout` of `websockets`). A server asked again and again
accepts in the end (strong fairness of a successful dial; the retry loop is what turns it into recovery).
A request to the L1 node ends too, and a receipt is given 120 seconds (`web3`), so a deposit
whose transaction is never mined still ends; nothing forces the chain to mine. A `threading.Lock` is
not fair, but a thread that waits for it is not passed over for ever (strong fairness of `Granted`).

Neither `requests` nor `httpx` has a timeout unless the application gives one: the SDK passes its default of
`None` on, which takes every limit off (`async_api.py:40, 58-61`, `async_agent.py:37, 63`). So the
`CallsEnd` of both runs is about a timeout given or a server that answers. In `AsyncClient`
`Fairness` is the event loop's alone (`aclose()` returns, the lock wakes its first waiter), and that requests end,
`RequestsEnd`, is the antecedent of `CallsEnd`. Without it a fetch that hangs under `_cache_lock` keeps
everyone who waits for the lock; nothing in the code ends that.

Nothing forces a drop, a failure, a message, a listing or a call. `Recovery` and the untimed
part of `CallsReturn` assume that connections stop dropping (`NetSettles`). In `CallsReturn` a
threaded call without a timeout is promised nothing while the manager runs, for the code promises
nothing: an exception in a callback leaves a live connection marked as not ready.

## 4. Proofs

All for every set of callers, channels, sockets, tasks, tokens, symbols and orders, and every bound.

| Theorem | States | Assuming |
|---|---|---|
| `AsyncWsProofs!TypeCorrect` | `Spec => []TypeOK` | |
| `AsyncWsProofs!AtMostOneUserEvent` | `Spec => []OneUserEvent` | |
| `AsyncWsProofs!StoppedIsNotReady`, `StoppedHasNoCallbacks` | `Spec => []NotReadyAfterStop`, `Spec => []NoCallbackAfterStop` | `~StopWhileConnecting` |
| `AsyncWsProofs!HeldStaysRegistered`, `ManagerImplementsRegistry` | `Spec => []HeldIsRegistered`, `Spec => RegistrySpec` | `~Overlap` |
| `AsyncWsSocketProofs!StoppedHasNoSocket`, `PingsAreOwned` | `Spec => []NoSocketAfterStop`, `Spec => []PingOwned` | `OneLoop`, `~StopWhileConnecting` |
| `AsyncWsSocketProofs!RestoreIsStable`, `StoppedLoopEnds` | `Spec => RestoreStable`, `Spec => StopEndsReconnect` | `OneLoop`, `~StopWhileConnecting` |
| `AsyncWsSocketProofs!ReadyServesRegistered` | `Spec => []RegisteredIsServed` | `MaxGen <= 1`, `~StopWhileConnecting` |
| `RoutingProofs!StreamsKeptApart` | two channels share a key iff they name one stream | |
| `RoutingProofs!RoutesAgree` | a message has the key of its channel, or none if it reports nothing | `Sent(m)` |
| `RoutingProofs!MessagesRouted` | `Spec => []RoutedToSubscribers` | `KeyedByRouting` |
| `SyncWsProofs!TypeCorrect` | `Spec => []TypeOK` | |
| `SyncWsProofs!HeldStaysRegistered`, `UserEventsAlone` | `Spec => []HeldIsRegistered`, `Spec => []OneUserEvent` | `~Overlap` |
| `SyncWsProofs!ManagerImplementsRegistry` | `Spec => RegistrySpec` | `~Overlap` |
| `SyncWsProofs!RestoredServesRegistered` | `Spec => []RegisteredIsServed` | `~Overlap` |
| `AsyncClientProofs!ClientTypeCorrect` | `Spec => []TypeOK` | |
| `AsyncClientProofs!FetchUnderLock`, `RequestsStayResolved` | `Spec => []NoNeedlessFetch`, `Spec => []RequestsResolved` | |
| `AsyncClientProofs!ClientlessOnlyByLateAnswer`, `ListedIsResolved` | `Spec => []ClientlessIsLate`, `Spec => ListedResolves` | |
| `DepositProofs!DepositTypeCorrect` | `Spec => []TypeOK`: no allowance falls below zero | |
| `DepositProofs!OwnNonceIsFree`, `SentWhenCovered` | `Spec => []NonceIsFree`, `Spec => []DepositIsCovered` | |
| `DepositProofs!DepositReported` | `Spec => DepositSpec` | |
| `NormalizeProofs!NormalizedOnGrid`, `PostedPairOnGrid` | price and quantity are sent on the grid of the price that is sent (not so the attached prices) | |
| `NormalizeProofs!PostedKeepsSide` | the trigger of a stop order is sent on the side of its price it was given on | |
| `SyncAgentProofs!AgentDeposits` | `AgentSpec => Spec` of `Deposit`; hence the three above for `AgentSpec` | |
| `SyncAgentProofs!AgentTypeCorrect` | `AgentSpec => []AgentTypeOK` | |
| `SyncAgentProofs!AgentHasTokens`, `HerdIsOneFetch`, `PerpRequestsResolved` | `AgentSpec => []InitializedHasTokens`, `[]NoNeedlessFetch`, `[]RequestsResolved` | |
| `SyncAgentProofs!ListedIsResolved` | `AgentSpec => ListedResolves` | |
| `SyncAgentProofs!AgentPairsOnGrid`, `AgentStopSideKept` | `AgentSpec => []PairsOnGrid`, `AgentSpec => []StopSideKept` | |

The assumptions are about what the application does, and they are needed.

* `~StopWhileConnecting`: without it `NotReadyAfterStop` fails (run `stop_connecting`).
* `~Overlap`: without it an unsubscription takes another subscription along (run `overlap`), and in
  the threaded manager an address gets two userEvent subscriptions (`threaded_userevent`).
* `OneLoop`: the manager is used by `AsyncAgent`, whose `stop()` waits for the `run()` task, or it
  connects once. A manager on its own whose `connect()` is called again while the loop of the session
  before has not ended has two loops on one `_ws`. TLC finds each of the four properties violated for
  `Lifecycle = "bare"` with two connects, in an instance otherwise like `restart`.
* `MaxGen <= 1`: registrations outlive `stop()` and are not restored (run `restart_stale`).
* `KeyedByRouting` is how the code instantiates the manager; TLC checks it of every instance (`Keyed` in
  `MCAsyncWs`).

Constants carry only assumptions that say what they are: amounts are positive, the native token is not
an ERC-20 token, `NoTx` and `NoCaller` are outside the sets they stand beside, orders are orders.

### AsyncWs

* **OneUserEvent** is inductive on its own, because `SubDone` looks at the guard again in the step
  that registers. The first look, before the await, is not enough: the threaded manager has only that one.
* **NotReadyAfterStop / NoCallbackAfterStop** need `StopInv`: an event that was set is never newer than
  the current one, so the event of a new `connect()` is unset (`EventsPast`), and it stays unset while the
  handshake is awaited (`HandshakeLive`, where the assumption is used). Every other step that could set
  `ws_ready` or start a callback looks at the current event after its await.
* **The registry** needs `RegInv`. Its heart is `OwnedUnsubs`: from the moment the application
  gives up a subscription until `unsubscribe()` ends, that subscription is registered, and once
  its frame is being sent it is the only one of its identifier. That is why writing back the empty list
  computed before the await removes exactly it. The rest makes that inductive: ids are fresh
  (`IdsIssued`, `FreshSubs`), unique (`UniqueIds`), kept under their identifier (`Placed`), and no
  other call is in flight on that identifier (`Exclusive`). Refinement maps `registered` to the
  union of the lists; every step of the manager is an addition, a removal or a stutter.
* **RoutedToSubscribers** composes two results: the keys agree (`StreamsKeptApart`, `RoutesAgree`, by
  cases on the topic and because no two topics share a tag), and `Placed` holds even when calls overlap.
* **Sockets** need `SocketInv`, which is `StopInv` with `Links`. `LoneLoop` and `Session` say that there is
  one loop, or one `connect()`, never both; `OneSocket` that only `_ws` may be open, and that it is lost
  where a new socket is about to take its place; `Loops` what the place of the loop says of the socket and of
  `ws_ready`, above all that while it restores the manager is not ready and no call is sending
  (`LostSendsResolved` gives the latter its start). `StopCloses` follows a `stop()` through its awaits: the
  socket it closes is the last one, and one that is open afterwards belongs to a restore under way,
  which closes it. `RestoreStable` is then a step property, since only calls that are sending register.
* **PingOwned** is inductive beside `SocketInv` with `PingsStop`: nothing pings once the event is set.
* **RegisteredIsServed** needs `ServedInv`. `Served` says of an open socket what each stage has made
  true: while ready every registration is served or its unsubscription is written; during a restore what
  was sent is served; a frame that was written is in force. It is inductive only together with the order of
  the frames (`Queued`: of two calls that send one waits for the other, and a call that wrote waits for
  none), so that no unsubscription undoes a subscription that was written and is not yet registered, and
  with `Unconnected`, the start.

### SyncWs

* **The registry** has the shape of that of `AsyncWs`, and other critical steps: check and append are two
  steps of `subscribe()`, and `unsubscribe()` stores a list it computed before its send. `FreshAppends`
  carries the check to the append (the id is new and, for a userEvent, the list still empty), and
  `Owned` the computed list to the store (`keep` is still what the list would be without the
  subscription). Both stand on `Exclusive` alone: no lock and no second check.
* **RegisteredIsServed** needs `Served`: on an open connection, while `on_open()` restores, every
  registration is still in `todo`, or is covered, by the server or by a call that is about to send its
  frame or to drop its entry. A registration appended to a list the restore has passed is of the second kind.

### AsyncClient

* **NoNeedlessFetch / RequestsResolved** need `FetchInv`, which adds to the types how a call may
  stand in an initialisation: a call of the perp agent never enters the API or reads the token
  maps through one, so only a call that already holds the lock can come out of a token request
  into a market request, and only one already resolved into its own request.
* **ClientlessIsLate** needs `ClientInv`: a token request that is on its way has a client, unless
  the client was closed under it and the request is marked `orphan`. So an answer that marks the API
  initialised finds the client there or is late, and `close()` takes away client and flag in one step.
* **ListedResolves** needs `KnownInv`: a symbol listed all the time of a call is listed now, and is in the
  answer the exchange gave to that call, though it may be delisted before the answer arrives. `Follows` says
  how a call may go on at all.

### Deposit and SyncAgent

* **The deposit** needs `DepositInv`. `NonceIsFree` and `DepositIsCovered` excuse a deposit while
  another one of the account is on its way or mined; a pending transaction may be dropped again, so
  the invariant is stated with `Alone`, which looks at mined transactions only and, once false, stays
  false: only they age a nonce or touch an allowance. `AllowanceInv` says so for every call that is past its
  decision not to approve or whose approval is mined (`Ready`). `PendingInv` ties a pending
  transaction to the call it belongs to and makes mining exactly one call's affair; with `AnswerInv`
  it gives the refinement: mining a deposit is `Move`, possible only while its call waits or has
  ended in an error, the end of a call is `Answer`, all else a stutter.
* **The agent** implements `Deposit` because every step of the REST side leaves the deposits alone.
  For the REST side, `RestInv` says of each call (`Sound`) that it holds the lock only while it misses its
  symbol, that it sends a perp request only with a symbol that is cached, and that a symbol listed all along is
  in the answer the exchange gave. A consequence: the cached value that a failing
  fetch would serve (`perp/agent.py:90-92`) is never there (`FailedIdle`), since nobody else can
  have filled the cache meanwhile. The order a call carries is one that `Posted` returned for the order
  given (`Sent`), so the theorems of `NormalizeProofs` hold of it.

### Normalize

What has to be shown is that rounding and the choice of a band agree, although the band is chosen from
the price before it is rounded. Rounding does not pass a whole number (`RoundedKeepsBound`), and the bounds of the
bands are whole, so the rounded price is in the same band or is the bound of the next (`BandAfter`). There
it is a whole number, which is on every grid of prices (`WholeOnGrid`), and the quantity, rounded
to the coarser grid of the band below, is on the finer one too (`FinerGrid`). For a stop order, two different
prices in one band keep their order since rounding is monotone, equal ones need the rule that a
number is rounded one way, and two prices in different bands are kept apart by the bound between them.

Divisions by powers of ten need `Unit[a + b] = Unit[a] * Unit[b]`, and that needs induction. The induction
theorems of the library cannot be used, for they take an operator as a parameter; `SetInduction` states induction for a
*set* of numbers instead (the least number outside it has a predecessor in it), and that is enough to
show that the recursive function exists (`PowersExist`, `UnitDef`) and to add its exponents (`UnitAdd`).

### Checked by TLC only

The liveness properties: `Recovery`, `CallsReturn`, `StopEndsRuns`, `StopEndsThread` and `CallsEnd`. They rest
on fairness, which the provers do not handle.

## 5. Not modelled

* Request and response content, EIP-712/RLP encodings, schemas, ABIs: data without control.
* JSON parsing, malformed messages and channels, key renaming and `PerpEvent` decoding.
* Values of backoff delays and timeouts; a caller-supplied `subscription_id`.
* `stop()` from inside an async callback, and threaded callbacks that call back into the manager.
* `AsyncAPI` used as a context manager on its own, and concurrent `close()` calls.
* Python 3.9, where the increment of the id counter can be interrupted.
* Keys, the choice of a wallet, and the nonce of exchange transactions, which is the clock in
  milliseconds (`sign.py:399`): nothing in the code promises that two of them differ.
* What `withdraw_to_kaia()` asks the L2 node before its request, and the withdraw helpers marked "only for
  testing". A deposit of the asynchronous client runs in a thread; cancelling its caller is left out.
* On the L1: gas and fees, the bridge behind the gateway, reorganisations (the chain has none). Amounts are
  modelled as they are sent; the conversion from token units is in section 6.
* Scaling of perp amounts (`perp_scale`, `perp_decimal_str`): pure formatting, unit tested in `perp_scale_test.py`.

## 6. Findings

1. `overlap`: an `unsubscribe()` whose frame is being sent when a `subscribe()` on the same identifier
   registers writes back the empty list it computed before the await (`async_ws.py:615`); the other
   subscription is lost although its id was returned.
2. `restart_stale`: registrations outlive `stop()`, and the `connect()` that follows does not restore
   them: they are registered, never served, and block a new userEvent subscription.
3. `stop_connecting`: `connect()` sets `ws_ready` after its await without looking at the stop event
   (`async_ws.py:217`), so a `stop()` during the first handshake leaves a ready manager and an open socket.
4. `threaded_userevent`: check and append are not atomic (`ws.py:237`); two threads both register.
5. `client_latch`: two concurrent initialisations each fetch the token list; an empty answer that
   arrives second replaces good maps of an API that stays marked initialised (`async_api.py:62`).
6. `clientless`: a token request that is still connecting outlives `close()`, and its answer marks an API
   initialised whose client is gone (`async_api.py:62-67, 117-122`). Every request then fails the assertion of
   `async_api.py:127`, and since the flag is set nothing makes a client until `close()` is called again.
   `ClientlessIsLate` says that this is the only way there.

7. Without a run, since one missing argument needs no interleaving: `deposit_to_alphasec()` does
   not pass the decimals of the token, which were read into `token_id_decimals_map`, so
   every ERC-20 amount is scaled by the default of 18 (`api.py:460`, `sign.py:418`; `async_api.py:671`),
   although the comment above says `int(value * 10**decimals)` (`api.py:444`).

Things the models allow because the code does, none of them a disagreement with a promise that could be
checked as one:

* `on_open()` lets callers in before the restore (`ws.py:199`), although a comment there relies on their being
  parked (`ws.py:212`). A list may grow while it is iterated; `RegisteredIsServed` shows that no registration
  is missed for it.
* `order()` lifts a price of 9999.96 to 10000 and sends its take-profit of 9999.98 as given (`api.py:326-327`), so the
  two change sides. Nothing documents a grid or an order for attached prices.
* An approval that was reverted is followed by a deposit that
  reverts too, at the cost of its fee (`sign.py:451`), and two deposits of one account may take each other's
  nonce or allowance. In both cases the answer is still true.

`StopEndsThread` carries an exception that is a weakness too: a `stop()` whose `close()` falls between the
check of the event and `run_forever()` closes nothing, and its thread goes on until the connection drops.

## 7. Plan

Done, in order of importance: `SubscriptionRegistry`, `AsyncWs` and its theorems, `SyncWs`,
`AsyncClient` and its theorems, `Routing` and its theorems, `Deposit`, `Normalize`, `SyncClient` and
`SyncAgent` with theirs, and a theorem for every safety property of a run. Left:

1. `SyncWs`: callbacks that call back into the manager, and `AsyncWs`: `stop()` from a callback; then the
   invariants of section 4 with those steps.
2. `RegisteredIsServed` of `AsyncWs` for restarts on a registry that is empty when `stop()` returns, the
   case between one connection and what `restart_stale` refutes.
3. Withdrawals to their end on the L1, once that part of the SDK is more than a test helper.

