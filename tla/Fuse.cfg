SPECIFICATION Spec
CONSTANTS
  Names = {a, b}
  Nodes = {1, 2}
  Bytes = {x, y}
  Fds = {h1, h2}
  Kinds = {"r", "w", "a", "rw"}
  None = None
  MaxLen = 2
  Batch = 2
  DirtyFlush = 2
  MaxRefs = 2
  MaxEvents = 6
SYMMETRY Symmetry
INVARIANTS OneTruth ClosedIsCommitted InodeHeld
CHECK_DEADLOCK FALSE
