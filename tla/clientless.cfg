\* close() while an initialisation is in flight.
CONSTANTS
  c1 = c1  c2 = c2  kaia = kaia  btc = btc  eth = eth
  Callers = {c1, c2}
  Tokens = {kaia}
  Symbols = {btc}
  TokenAnswers <- MCTokenAnswers
  NoCaller = NoCaller
  NoSym = NoSym
SPECIFICATION Spec
INVARIANT ClientAsserted
CHECK_DEADLOCK FALSE
