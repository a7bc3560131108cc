SPECIFICATION Spec
CONSTANTS
  v1 = v1
  p1 = p1
  p2 = p2
  c1 = c1
  c2 = c2
  v2 = v2
  Volumes = {v1, v2}
  Pins = {p1, p2}
  Entries = {a}
  Conns = {c1}
  Registry = {}
  Serves <- Both
  Alone = FALSE
  None = None
  MaxMounts = 2
  MaxLocks = 2
  MaxTime = 1
SYMMETRY PinSymmetry
INVARIANTS
  Sealed
CHECK_DEADLOCK FALSE
