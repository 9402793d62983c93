\* The preview of a message cannot be cut.
SPECIFICATION FairSpec
CONSTANTS
  None = None
  u1 = u1
  u2 = u2
  c1 = c1
  c2 = c2
  g1 = g1
  m1 = m1
  n1 = n1
  n2 = n2
  Users <- TwoUsers
  Conns <- TwoConns
  GroupIds <- NoIds
  MessageIds <- OneMessage
  GroupNames <- OneName
  Memberships <- NoIds
  ProtocolLists <- NoIds
PROPERTIES DeadTaskGoesOffline
