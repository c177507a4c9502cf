SPECIFICATION Spec
CONSTANTS
  p1 = p1
  r1 = r1
  r2 = r2
  NoPkt = NoPkt
  Recv = Recv
  Free = Free
  MaxImu = 2
  ImuFrames = 2
  Pkt <- MCPkt
  Reader <- MCReader
  DataCell <- MCDataCell
INVARIANTS
  TypeOK
  LockOwner
  StoreInRing
  NoTornRead

PROPERTIES
  WrapUnderLock
CHECK_DEADLOCK FALSE
