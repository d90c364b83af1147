SPECIFICATION FairSpec
CONSTANTS
  Devices = {1, 2}
  Parts = {1, 2, 3}
  Home <- MCHome
  Own <- MCOwn
  Slots = 1
  MaxTries = 1
  Talkers = {1}
  MaxMoves = 2
  MaxFaults = 1
CHECK_DEADLOCK FALSE
INVARIANTS
  KnownWhereItIs
  AnsweredOnce
PROPERTIES
  StaysRegistered
  MovedIsReached
