SPECIFICATION Spec
CONSTANTS
  Nodes = {n1}
  Mounts = {m1, m2}
  Writers = {w1, w2}
  Tokens = {t1}
  Readers = {}
  f1 = f1
  f2 = f2
  s1 = s1
  Full <- OneFull
  Short <- MCShort
  Payloads <- TwoPayloads
  Keeps = {1}
  None = None
  MaxVersion = 2
  MaxChunks = 2
  LocksMayLapse = TRUE
  StaleFlushes = TRUE
  TxnMayFail = TRUE
  SharedMounts = TRUE
SYMMETRY Symmetry
INVARIANTS
  PoolCovers
  NoFalseAlarm
  LiveStagingKept
  CommittedSized
CHECK_DEADLOCK FALSE
