SPECIFICATION Spec
CONSTANTS
  Sizes = {0, 4, 5, 7, 8}
  HeaderSize = 4
  MaxPacketSize = 7
  MaxPackets = 1
  MaxConnections = 2
CHECK_DEADLOCK FALSE
INVARIANT DispatchedInOrder
