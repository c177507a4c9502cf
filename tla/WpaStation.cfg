SPECIFICATION Spec
CONSTANTS
  s1 = s1
  s2 = s2
  Unset = Unset
  Updated = Updated
  Station <- MCStation
  Hidden <- MCFull
  Pinned <- MCFull
  Ops <- MCKeep
  IdRange = 2
  MaxNets = 2
  MaxLate = 2

INVARIANTS
  TypeOK
  AddedWhole
  AddCatchesUp
  RemovesAll
PROPERTIES
  OwnedOnce
