SPECIFICATION FairSpec
CONSTANTS
  unicast = unicast
  beacon = beacon
  MaxPackets = 2
  MaxAttempts = 2
  AttemptMod = 4
  BackOff <- MCBackOff
  Horizon = 3
  Contents <- MCContents
  Broadcast = 0
  RxOf <- MCRxOf
  AckRequested <- MCAckRequested
  Timings = {0, 1}
  Simplex = FALSE
  AutoDeleteModes = {TRUE}
  AppOps = {"send", "remove", "remove_all"}
  HandlerOps = {"send", "remove", "remove_all"}
PROPERTIES
  EveryPacketLeaves
