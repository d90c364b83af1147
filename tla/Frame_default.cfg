SPECIFICATION FrameSpec
CONSTANTS
  local = local
  shared = shared
  other = other
  new = new
  router = router
  small = small
  served = served
  Devices <- MCDevices
  Config <- MCConfig
  ByteSize = 32
  MaxLength = 60
  Requests <- MCRequests
INVARIANTS
  ReadAsWritten
  HandedToItsRecipients
  OneAnswer
