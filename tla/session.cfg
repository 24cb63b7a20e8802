\* One connect(), concurrent calls on the same identifier, drops and stop().
CONSTANTS
  c1 = c1  c2 = c2  k1 = k1  k2 = k2
  Callers = {c1, c2}
  Timed = {c1}
  Channels <- MCSpellings
  Identifiers <- MCIdentifiers
  IdentOf <- MCSpellIdentOf
  UserEvents <- MCUserEvents
  Messages <- MCMessages
  MsgIdent <- MCMsgIdent
  About <- MCAbout
  Targets <- MCTargets
  Lower <- MCLower
  Addresses <- MCAddresses
  NoIdent = NoIdent
  Conns = {k1, k2}
  Runs = {1}
  MaxId = 3
  MaxGen = 1
  NoConn = NoConn
  NoRun = NoRun
  NoChan = NoChan
  Overlap = TRUE
  Lifecycle = "bare"
  StopWhileConnecting = FALSE
SYMMETRY Symmetry
SPECIFICATION Spec
INVARIANTS TypeOK OneUserEvent RoutedToSubscribers RegisteredIsServed NotReadyAfterStop NoSocketAfterStop NoCallbackAfterStop
PROPERTIES RestoreStable
CHECK_DEADLOCK FALSE
