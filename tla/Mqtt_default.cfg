SPECIFICATION FairSpec
CONSTANTS
  Modes = {"RAW", "JSON", "TRANSLATE", "DIRECT"}
  Clients <- MCClients
  Outgoing <- MCOutgoing
  Arriving <- MCArriving
  Table <- MCTable
  LongKeys = {"much_too_long"}
  PJON_PACKET_MAX_LENGTH = 50
  MQTTT_BUFFER_SIZE = 50
  ItemSize = 30
  Overhead = 9
INVARIANTS
  ReadAsHanded
PROPERTIES
  EveryMessageIsRead
