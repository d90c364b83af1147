SPECIFICATION SerialFairSpec
CONSTANTS
  ToSend <- MCFrames
  MaxLength = 5
  ResponseLength = 2
  MaxLoss = 3
  MaxLine = 16
INVARIANTS
  AckedIsAccepted
  Transparent
PROPERTIES
  EveryFrameAcked
CHECK_DEADLOCK FALSE
