SPECIFICATION Spec
CONSTANTS
  s1 = s1
  s2 = s2
  Unset = Unset
  Updated = Updated
  Station <- MCFull
  Hidden = {}
  Pinned = {}
  Ops <- MCConnect
  IdRange = 2
  MaxNets = 2
  MaxLate = 1

INVARIANTS
  DisconnectTold
PROPERTIES
  ImplementsControl
  DisconnectsConnected
