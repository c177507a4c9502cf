SPECIFICATION Spec
CONSTANTS
  MaxLate = 4

INVARIANTS
  TypeOK
  LagBounded
  OwnUnlessLate
  MainNeverMisled
PROPERTIES
  RequestEnds
  Resync
CHECK_DEADLOCK FALSE
