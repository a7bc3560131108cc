SPECIFICATION Spec
CONSTANTS
  dirA = dirA
  dirB = dirB
  Names = {dirA, dirB}
  RootName = RootName
  Mounts = {m1}
  Habits <- OneCaller
  MaxDepth = 3
  MaxNodes = 4
SYMMETRY RootSymmetry
INVARIANTS
  TreeShape
PROPERTIES
  ImplementsPathTree
