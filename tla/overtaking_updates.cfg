\* The fan-out of a creation or an update is overtaken by that of a later update.
SPECIFICATION Spec
CONSTANTS
  None = None
  u1 = u1
  u2 = u2
  c1 = c1
  c2 = c2
  g1 = g1
  m1 = m1
  n1 = n1
  n2 = n2
  Users <- TwoUsers
  Conns <- TwoConns
  GroupIds <- OneGroup
  MessageIds <- NoIds
  GroupNames <- TwoNames
  Memberships <- OnlyOther
  ProtocolLists <- NoIds
INVARIANTS ToldGroupIsCurrent
