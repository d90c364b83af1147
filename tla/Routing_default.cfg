SPECIFICATION Spec
CONSTANTS
  zero = zero
  nat = nat
  one = one
  two = two
  far = far
  off = off
  BusCount = 4
  BusIds <- MCBusIds
  Localhost = zero
  OwnBusId <- MCOwnBusId
  Shared = {1, 2, 3}
  Gateway = 2
  NOT_ASSIGNED = 255
  StaticRoutes <- MCNoRoutes
  TableSize = 2
  Learns = TRUE
  MaxPackets = 2
  MaxHops = 2
  Arrivals <- MCArrivals
INVARIANTS
  ReplyComesBack
  TableIsAMap
  NoTwoCopies
