SPECIFICATION Spec
CONSTANTS
  Names = {"a", "d", "e", "f", "g"}
  Paths <- MCPaths
  Order <- MCOrder
  Dirs <- MCDirs
  Docs <- MCDocs
  LockIds = {"put", "left", "outside"}
  None = None
  MaxTime = 0
  MaxOutside = 2
  Uploads = {u1}
  Numbers = {1, 2}
  Sizes = {1, 2}
  MaxStaged = 3
  MaxKeys = 1
  Delimiters = {TRUE, FALSE}
  MaxEvents = 4
INVARIANTS StagedWithinLimit CompletedAsListed PagesComplete
CHECK_DEADLOCK FALSE
