\* Hello-acks and group packets overtake each other; fair writes end.
SPECIFICATION FairSpec
CONSTANTS
  None = None
  u1 = u1
  g1 = g1
  v1 = v1
  m1 = m1
  m2 = m2
  Users <- OneUser
  Groups <- OneGroup
  Versions <- OneVersion
  MessageIds <- OneMessage
  Limits <- OneLimit
  MaxHandlers = 2
VIEW GroupsAndMessages
INVARIANTS GroupsFollowServer
PROPERTIES ReceivedIsStored OpenIsRead
CHECK_DEADLOCK FALSE
