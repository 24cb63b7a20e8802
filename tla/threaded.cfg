\* One call at a time per identifier: safety and liveness of the threaded manager.
CONSTANTS
  c1 = c1  c2 = c2
  Callers = {c1, c2}
  Timed = {c1}
  Channels <- MCChannels
  Identifiers <- MCIdentifiers
  IdentOf <- MCIdentOf
  UserEvents <- MCUserEvents
  Targets <- MCTargets
  Lower <- MCLower
  Addresses <- MCAddresses
  NoIdent = NoIdent
  NoChan = NoChan
  MaxId = 2
  Overlap = FALSE
  CallbackRaises = TRUE
SPECIFICATION FairSpec
INVARIANTS TypeOK HeldIsRegistered RegisteredIsServed
PROPERTIES RegistrySpec Recovery CallsReturn StopEndsThread
CHECK_DEADLOCK FALSE
