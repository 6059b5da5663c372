SPECIFICATION FairSpec
CONSTANTS
  j1 = j1
  j2 = j2
  NoLease = NoLease
  Jobs <- TwoJobs
  Leases <- TwoLeases
  MaxDraining = 2
  MaxPendingAcks = 2
  Reconnect = TRUE
  HasHeartbeatLimit = FALSE
  HasUpgradePolicy = FALSE
  OverlappingCancels = FALSE
INVARIANTS
  AckStillOwed
PROPERTIES
  
  ShutdownEnds
  NodeFreesUp
  DeadSocketIsLeft
