SPECIFICATION Spec
CONSTANTS
  unicast = unicast
  beacon = beacon
  MaxPackets = 2
  MaxAttempts = 2
  AttemptMod = 4
  BackOff <- MCBackOff
  Horizon = 3
  Contents <- MCContents
  Broadcast = 0
  RxOf <- MCRxOf
  AckRequested <- MCAckRequested
  Timings = {0, 1}
  Simplex = FALSE
  AutoDeleteModes = {TRUE, FALSE}
  AppOps = {"send", "replace", "remove", "remove_all"}
  HandlerOps = {"send", "replace", "remove", "remove_all"}
INVARIANTS
  TypeOK
  DeliveredStaysQuiet
PROPERTIES
  LostAfterAllAttempts
  RepeatedIsKept
