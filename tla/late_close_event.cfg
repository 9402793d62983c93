\* The close event of an old socket arrives after offline mode was disabled.
SPECIFICATION Spec
CONSTANTS
  None = None
  s1 = s1
  s2 = s2
  me = me
  other = other
  Sockets <- TwoSockets
  Identities <- OneIdentity
  Configs <- OfflineToggle
  MaxUpdates = 1
INVARIANTS GivesUpOnlyAfterLoss
CHECK_DEADLOCK FALSE
