SPECIFICATION FairSpec
CONSTANTS
  alice = alice
  bob = bob
  Procs <- MCProcs
  QueueSize = 3
  IdMod = 12
  Ahead = 7
  StartId = 10
  MaxSends = 6
  MaxCrashes = 1
INVARIANTS
  InOrder
  LastFramesKept
PROPERTIES
  NothingPassedOver
  EveryoneCatchesUp
CHECK_DEADLOCK FALSE
