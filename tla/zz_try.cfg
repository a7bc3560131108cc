SPECIFICATION TransferSpec
CONSTANTS
  a = a
  b = b
  None = None
  Names = {a, b}
  Paths <- AllPaths
  Dirs <- MCDirs
  Docs <- MCDocs
  LockIds = {"job"}
  MaxTime = 0
  MaxOutside = 2
  Unsafe = {b}
  LocalDirs <- MCLocalDirs
  LocalDocs <- MCLocalDocs
  BaseName = a
  Targets <- MCTargets
  MaxCommands = 2
INVARIANTS CopyComplete CopyHonest PutComplete
CHECK_DEADLOCK FALSE
