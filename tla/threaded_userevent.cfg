\* Two threads subscribe to the account events of one address, each in its own spelling.
CONSTANTS
  c1 = c1  c2 = c2
  Callers = {c1, c2}
  Timed = {c1}
  Channels <- MCSpellings
  Identifiers <- MCSpellIdentifiers
  IdentOf <- MCSpellIdentOf
  UserEvents <- MCSpellIdentifiers
  Targets <- MCTargets
  Lower <- MCLower
  Addresses <- MCAddresses
  NoIdent = NoIdent
  NoChan = NoChan
  MaxId = 2
  Overlap = TRUE
  CallbackRaises = FALSE
SPECIFICATION Spec
INVARIANT OneUserEvent
CHECK_DEADLOCK FALSE
