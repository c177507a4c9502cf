SPECIFICATION LiveSpec
CONSTANTS
  p1 = p1
  r1 = r1
  r2 = r2
  NoPkt = NoPkt
  Recv = Recv
  Free = Free
  MaxImu = 2
  ImuFrames = 1
  Pkt <- MCPkt
  Reader <- MCReader
  DataCell <- MCDataCell

PROPERTIES
  ReaderServed
  ExitEnds
CHECK_DEADLOCK FALSE
