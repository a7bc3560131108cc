SPECIFICATION Spec
CONSTANTS
  dirA = dirA
  dirB = dirB
  Names = {dirA, dirB}
  RootName = RootName
  Mounts = {m1, m2}
  Habits <- TwoCallers
  MaxDepth = 2
  MaxNodes = 4
SYMMETRY RootSymmetry
INVARIANTS
  AnchorsDisjoint
  PathResolves
PROPERTIES
  LockedKept
  Confined
