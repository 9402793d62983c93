\* Writes, failures, migration and crashes of the history's two files.
SPECIFICATION Spec
CONSTANTS
  None = None
  Live = Live
  m1 = m1
  m2 = m2
  c1 = c1
  MessageIds <- TwoMessages
  Convs <- OneConv
  ConvOf <- SameConv
  Legacy <- FirstOnly
  Limits <- OneOrTwo
  MaxVersion = 3
  MaxWrites = 2
VIEW GoneIfMigrated
INVARIANTS TypeOK QuietMeansSaved ClearedStaysCleared MessagesHaveConversation RetentionHolds LegacyIsMigrated
PROPERTIES FilesAreDurable
