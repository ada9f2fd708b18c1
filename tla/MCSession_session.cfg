SPECIFICATION Spec
CONSTANTS
  c1 = c1
  c2 = c2
  Writer = {c1, c2}
  Reader = {r}
  Watcher = {w}
  Closer = {k}
  ClosingJob = ClosingJob
  Address = {1}
  Version = {1, 2}
  WatchVersion = {1}
  MaxCommits = 3
  MaxPending = 1
INVARIANTS
  TypeOK
  MemoryFollowsStorage
  SnapshotsFresh
  WatchesFollow
PROPERTIES
  NothingAfterTheEnd
SYMMETRY Writers
CHECK_DEADLOCK FALSE
