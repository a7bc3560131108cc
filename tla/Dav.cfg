SPECIFICATION Spec
CONSTANTS
  Names = {"d", "f", "g"}
  Paths <- MCPaths
  Dirs <- MCDirs
  Docs <- MCDocs
  LockIds = {"t1", "t2", "put", "left", "outside"}
  Tokens = {"t1", "t2"}
  Clients = {c1, c2}
  Browser = browser
  None = None
  Timeout = 2
  MaxTime = 2
  MaxOutside = 1
  MaxEvents = 3
INVARIANTS TokensDisjoint EngineLocksOwned
PROPERTIES LockedKept OutsideExcluded ActsOnWhatItSaw
CHECK_DEADLOCK FALSE
