SPECIFICATION FairSpec
CONSTANTS
  Devices = {1, 2, 3}
  Kinds = {"LocalUDP", "GlobalUDP", "DualUDP", "ESPNOW"}
  Home <- MCHome
  Spare = {4}
  Lan = {1, 2, 3, 4}
  Lists <- MCLists
  Manual <- MCManual
  MaxNodes = 2
  MaxTries = 1
  Failures = 1
  MaxFaults = 1
CHECK_DEADLOCK FALSE
INVARIANTS
  AckedIsReceived
  TableSound
PROPERTIES
  MovedIsFoundAgain
