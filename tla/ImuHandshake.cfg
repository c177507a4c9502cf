SPECIFICATION Spec
CONSTANTS
  ModeFrames = 3
  ImuFrames = 1
  MaxPkt = 1
  MaxLost = 2
  MaxQueue = 2
  Mode = Mode
  Imu = Imu
  NoUnit = NoUnit
CHECK_DEADLOCK FALSE
INVARIANTS
  TypeOK
  KeyWhole
  MissedBounded
PROPERTIES
  HandshakeEnds
