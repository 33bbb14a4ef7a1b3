SPECIFICATION MCSpec
CONSTANTS
  Ids = {1, 2}
  Calls = {1, 2}
  Sockets = {11, 12, 13}
  QrLimit = 1
  DelInstance = TRUE
  Overlaps = {}
  MaxLosses = 1
  None = None
  Keys = {k1}
  MaxStamp = 4
  MaxFaults = 1
INVARIANTS
  RegistryMatchesRow
  NoGhosts
  OneSocket
  OpenIsRemembered
  KeptAsSet
CHECK_DEADLOCK FALSE
PROPERTIES
  Reconnects
