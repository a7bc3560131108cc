SPECIFICATION Spec
CONSTANTS
  Procs = {p1, p2}
  Eras = {0, 1, 2, 3, 4}
  Tables = {"node", "edge"}
  Stamps = {"created_at", "modified_at"}
  Early = {"modified_at"}
  Objects = {"trigger", "view"}
  None = None
  SeqLimit = 2
  MaxTime = 2
  MaxOpens = 3
  MaxMints = 3
INVARIANTS EraHonest GuardsUp IdsRise
CHECK_DEADLOCK FALSE
