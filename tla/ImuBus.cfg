SPECIFICATION BusSpec
CONSTANTS
  r1 = r1
  NoPkt = NoPkt
  Recv = Recv
  Free = Free
  MaxImu = 3
  ImuFrames = 2
  MaxPkt = 6
  MaxLost = 3
  Noise <- MCNoise
  Pkt <- MCPkt
  Reader <- MCReader
  DataCell <- MCDataCell
CHECK_DEADLOCK FALSE
INVARIANTS
  ServedWhole
PROPERTIES
  ImplementsSample
