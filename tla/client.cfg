\* Two tasks on one agent: initialisation, market cache, close().
CONSTANTS
  c1 = c1  c2 = c2  kaia = kaia  btc = btc  eth = eth
  Callers = {c1, c2}
  Tokens = {kaia}
  Symbols = {btc, eth}
  TokenAnswers <- MCTokenAnswers
  NoCaller = NoCaller
  NoSym = NoSym
SPECIFICATION FairSpec
INVARIANTS TypeOK ClientlessIsLate NoNeedlessFetch RequestsResolved
PROPERTIES ListedResolves CallsEnd
CHECK_DEADLOCK FALSE
