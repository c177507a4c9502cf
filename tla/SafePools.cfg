SPECIFICATION Spec
CONSTANTS
  a1 = a1
  a2 = a2
  Null = Null
  MaxLen = 3
  Addr <- MCAddr
  MaxFail = 1
INVARIANTS
  TypeOK
  ListDescribesLibc
  ReadsLiveMemory
  ListSuffices
PROPERTIES
  ImplementsPool
SYMMETRY MCSymmetry
CHECK_DEADLOCK FALSE
