SPECIFICATION FairSpec
CONSTANTS
  Volumes = {v1}
  Filesystems = {f1}
  Callers = {q1, q2}
  Main = main
  None = None
  Threads = {t1, t2}
  FuseExits = TRUE
  Entries = {e1, e2}
  Web = web
  CookieAuth = TRUE
  Publics <- AllPublics
  OneFuseCall = TRUE
  MaxRequests = 3
  MaxDeaths = 1
INVARIANTS UsesLiveSession NoLeakedSession NoOrphanThread
PROPERTIES BootRecovers Settles
CHECK_DEADLOCK FALSE
