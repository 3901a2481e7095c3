SPECIFICATION FairSpec
CONSTANTS
  NoRow = NoRow
  NullImage = 0
  k1 = k1
  k2 = k2
  Keys = {k1, k2}
  Vals = {0, 1, 2, 3}
  Partitions = {1}
  MaxPartition = 2
  MaxOffset = 4
  MaxLSN = 3
  Logs <- FailedStreams
  Misjudged = {"permanent"}
  DLQAttempts = 3
  Workers = {w1, w2}
  ClaimLimit = 2
  MaxRequeues = 1
  MaxLosses = 1
INVARIANTS
  TypeOK
  ExclusiveClaim
  ResolvedMeansCovered
  PendingHasBudget
PROPERTIES
  LifecycleRespected
  SettlesUnlessOrphaned
CHECK_DEADLOCK FALSE
