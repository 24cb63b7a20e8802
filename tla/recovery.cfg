\* Liveness of one session: recovery after drops, termination after stop().
CONSTANTS
  c1 = c1  c2 = c2  k1 = k1  k2 = k2
  Callers = {c1, c2}
  Timed = {c1}
  Channels <- MCOneChannel
  Identifiers <- MCOneIdentifier
  IdentOf <- MCOneIdentOf
  UserEvents = {}
  Messages <- MCMessages
  MsgIdent <- MCMsgIdent
  About <- MCAbout
  Targets <- MCTargets
  Lower <- MCLower
  Addresses <- MCAddresses
  NoIdent = NoIdent
  Conns = {k1, k2}
  Runs = {1}
  MaxId = 2
  MaxGen = 1
  NoConn = NoConn
  NoRun = NoRun
  NoChan = NoChan
  Overlap = TRUE
  Lifecycle = "bare"
  StopWhileConnecting = FALSE
SPECIFICATION FairSpec
PROPERTIES StopEndsRuns Recovery CallsReturn
CHECK_DEADLOCK FALSE
