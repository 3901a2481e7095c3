SPECIFICATION Spec
CONSTANTS
  NoRow = NoRow
  NullImage = 0
  k1 = k1
  k2 = k2
  Keys = {k1, k2}
  Vals = {0, 1, 2, 3}
  Partitions = {1}
  MaxPartition = 2
  MaxOffset = 4
  MaxLSN = 3
  Logs <- SameLSN
  Misjudged = {}
  DLQAttempts = 2
  Appliers = {a1}
  BatchSize = 2
  ApplyAttempts = 2
  MaxCrashes = 0
  FlakyBroker = FALSE
  Workers = {w1}
  ClaimLimit = 2
  MaxRequeues = 0
  MaxLosses = 0
INVARIANTS
  ConvergedWhenRepaired
CHECK_DEADLOCK FALSE
