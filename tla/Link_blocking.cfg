SPECIFICATION Spec
CONSTANTS
  a = a
  b = b
  m1 = m1
  m2 = m2
  m3 = m3
  Senders <- MCSenders
  Identity <- MCIdentity
  Msgs <- MCMsgs
  Owner <- MCOwner
  Acked = {m1, m3}
  OtherPort = {}
  ByList = {m3}
  ByCall = {m1, m2}
  PacketIds = TRUE
  IdMod = 8
  InitialSeeds = {0, 1}
  Window = 3
  InitialRings <- MCEmpty
  MaxPackets = 2
  MaxAttempts = 1
  Late = FALSE
  MaxLog = 5
INVARIANTS
  AtMostOnce
CHECK_DEADLOCK FALSE
