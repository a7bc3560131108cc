SPECIFICATION Spec
CONSTANTS
  v1 = v1
  p1 = p1
  p2 = p2
  c1 = c1
  c2 = c2
  v2 = v2
  Volumes = {v1}
  Pins = {p1, p2}
  Entries = {a}
  Conns = {c1, c2}
  Registry = {c2}
  Serves <- OneVolume
  Alone = TRUE
  None = None
  MaxMounts = 2
  MaxLocks = 2
  MaxTime = 1
SYMMETRY PinSymmetry
INVARIANTS
  Sealed
  OneHolder
CHECK_DEADLOCK FALSE
