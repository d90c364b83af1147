SPECIFICATION FairSpec
CONSTANTS
  a = a
  b = b
  m1 = m1
  m2 = m2
  m3 = m3
  Senders <- MCSenders
  Identity <- MCIdentity
  Msgs <- MCMsgs
  Owner <- MCOwner
  Acked = {m1, m2}
  OtherPort = {m2}
  ByList = {m1, m3}
  ByCall = {m2}
  PacketIds = TRUE
  IdMod = 8
  InitialSeeds = {0}
  Window = 4
  InitialRings <- MCEmpty
  MaxPackets = 2
  MaxAttempts = 1
  Late = TRUE
  MaxLog = 5
INVARIANTS
  TypeOK
  DuplicatesFarApart
PROPERTIES
  Delivery
  EveryMessageIsDecided
CHECK_DEADLOCK FALSE
