SPECIFICATION Spec
CONSTANTS
  j1 = j1
  j2 = j2
  NoLease = NoLease
  Jobs <- TwoJobs
  Leases <- ThreeLeases
  MaxDraining = 1
  MaxPendingAcks = 1
  Reconnect = TRUE
  HasHeartbeatLimit = TRUE
  HasUpgradePolicy = TRUE
  OverlappingCancels = TRUE
INVARIANTS
  NoStrandedTask
  WitnessedAck
  AckOwedOnce
  OneRender
  LiveTasksBounded
  IdleCountIsTrue
  UpgradeHarmsNoJob
  
PROPERTIES
  KeepsContract
