\* Commands, configuration updates, timers and late socket events.
SPECIFICATION FairSpec
CONSTANTS
  None = None
  s1 = s1
  s2 = s2
  me = me
  other = other
  Sockets <- TwoSockets
  Identities <- TwoIdentities
  Configs <- FourConfigs
  MaxUpdates = 1
VIEW WithoutHistory
INVARIANTS TypeOK OneLiveSocket TimersServeTheSocket QuietWhenDisconnected
PROPERTIES LossIsRetried HelloIsAnswered SilentPeerIsDropped
CHECK_DEADLOCK FALSE
