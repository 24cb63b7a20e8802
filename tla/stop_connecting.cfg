\* stop() while the first connect() is still awaited.
CONSTANTS
  c1 = c1  c2 = c2  k1 = k1  k2 = k2
  Callers = {c1, c2}
  Timed = {c1}
  Channels <- MCChannels
  Identifiers <- MCIdentifiers
  IdentOf <- MCIdentOf
  UserEvents <- MCUserEvents
  Messages <- MCMessages
  MsgIdent <- MCMsgIdent
  About <- MCAbout
  Targets <- MCTargets
  Lower <- MCLower
  Addresses <- MCAddresses
  NoIdent = NoIdent
  Conns = {k1, k2}
  Runs = {1}
  MaxId = 3
  MaxGen = 1
  NoConn = NoConn
  NoRun = NoRun
  NoChan = NoChan
  Overlap = TRUE
  Lifecycle = "bare"
  StopWhileConnecting = TRUE
SYMMETRY Symmetry
SPECIFICATION Spec
INVARIANT NotReadyAfterStop
CHECK_DEADLOCK FALSE
