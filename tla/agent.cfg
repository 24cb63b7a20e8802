\* Two threads on one agent: initialisation, market cache, orders, deposits,
\* and under fairness the end of every call.
CONSTANTS
  c1 = c1  c2 = c2  kaia = kaia  usdt = usdt  btc = btc  eth = eth
  Callers = {c1, c2}
  Erc20 = {usdt}
  NativeToken = kaia
  Amounts = {1, 2}
  Plans <- MCPlans
  MaxGranted = 1
  Traded = {kaia}
  NoTx = NoTx
  Symbols = {btc, eth}
  Listings <- MCListings
  TokenAnswers <- MCTokenAnswers
  Orders <- MCOrders
  Ops <- MCOps
  NoCaller = NoCaller
  NoSym = NoSym
  NoOrder = NoOrder
SPECIFICATION FairAgentSpec
INVARIANTS AgentTypeOK InitializedHasTokens NoNeedlessFetch RequestsResolved PairsOnGrid StopSideKept NonceIsFree DepositIsCovered
PROPERTIES DepositSpec ListedResolves CallsEnd
CHECK_DEADLOCK FALSE
