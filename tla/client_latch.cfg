\* Two tasks initialise the API at the same time.
CONSTANTS
  c1 = c1  c2 = c2  kaia = kaia  btc = btc  eth = eth
  Callers = {c1, c2}
  Tokens = {kaia}
  Symbols = {btc}
  TokenAnswers <- MCTokenAnswers
  NoCaller = NoCaller
  NoSym = NoSym
SPECIFICATION Spec
INVARIANT InitializedHasTokens
CHECK_DEADLOCK FALSE
