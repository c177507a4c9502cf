SPECIFICATION Spec
CONSTANTS
  Entries = 3
  Word = 2
  SmallLen <- MCSmallLen
  BigPos <- MCBigPos
  Null = Null
INVARIANTS
  TypeOK
  EntriesSound
  HighBlocksInRange
PROPERTIES
  RoundRobin
  ImplementsPool
CHECK_DEADLOCK FALSE
