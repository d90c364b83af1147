SPECIFICATION FairSpec
CONSTANTS
  A = A
  B = B
  Modes = {"short", "keep", "direction", "single"}
  ToSend <- MCToSend
  Conns = {1, 2, 3}
  MaxFaults = 1
INVARIANTS
  AckedIsReceived
  NoStaleCopy
  SocketsPaired
PROPERTIES
  OneWayGetsThrough
