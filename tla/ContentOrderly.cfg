SPECIFICATION Spec
CONSTANTS
  Nodes = {n1, n2}
  Mounts = {m1, m2}
  Writers = {w1}
  Tokens = {}
  Readers = {r1}
  f1 = f1
  f2 = f2
  s1 = s1
  Full <- MCFull
  Short <- MCShort
  Payloads <- OnePayload
  Keeps = {}
  None = None
  MaxVersion = 3
  MaxChunks = 2
  LocksMayLapse = FALSE
  StaleFlushes = FALSE
  TxnMayFail = FALSE
  SharedMounts = FALSE
SYMMETRY Symmetry
INVARIANTS
  CommittedIntact
  ReadAllAtomic
PROPERTIES
  ImplementsAtomicFiles
CHECK_DEADLOCK FALSE
