\* Registrations that outlive stop() and the next connect().
CONSTANTS
  c1 = c1  c2 = c2  k1 = k1  k2 = k2
  Callers = {c1, c2}
  Timed = {c1}
  Channels <- MCChannels
  Identifiers <- MCIdentifiers
  IdentOf <- MCIdentOf
  UserEvents <- MCUserEvents
  Messages <- MCMessages
  MsgIdent <- MCMsgIdent
  About <- MCAbout
  Targets <- MCTargets
  Lower <- MCLower
  Addresses <- MCAddresses
  NoIdent = NoIdent
  Conns = {k1, k2}
  Runs = {1, 2}
  MaxId = 2
  MaxGen = 2
  NoConn = NoConn
  NoRun = NoRun
  NoChan = NoChan
  Overlap = FALSE
  Lifecycle = "agent"
  StopWhileConnecting = FALSE
SYMMETRY Symmetry
SPECIFICATION Spec
INVARIANT RegisteredIsServed
CHECK_DEADLOCK FALSE
