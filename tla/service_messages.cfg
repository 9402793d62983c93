\* Two messages among packets, commands, settings and failed writes.
SPECIFICATION Spec
CONSTANTS
  None = None
  u1 = u1
  g1 = g1
  v1 = v1
  m1 = m1
  m2 = m2
  Users <- OneUser
  Groups <- OneGroup
  Versions <- NoVersion
  MessageIds <- TwoMessages
  Limits <- OneOrTwo
  MaxHandlers = 2
SYMMETRY MessageSymmetry
INVARIANTS TypeOK RetentionHolds MessagesHaveConversation SendersAreKnown UnreadIsJustified ReceiptsMatchReads ActiveIsRead NothingIsLost
PROPERTIES ReceivedGoForward
CHECK_DEADLOCK FALSE
