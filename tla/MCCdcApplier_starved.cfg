SPECIFICATION FairSpec
CONSTANTS
  NoRow = NoRow
  NullImage = 0
  k1 = k1
  k2 = k2
  Keys = {k1, k2}
  Vals = {0, 1, 2, 3}
  Partitions = {1, 2}
  MaxPartition = 2
  MaxOffset = 4
  MaxLSN = 4
  Logs <- CleanTwoPartitions
  Misjudged = {}
  DLQAttempts = 2
  Appliers = {a1}
  BatchSize = 3
  ApplyAttempts = 2
  MaxCrashes = 0
  FlakyBroker = FALSE
PROPERTIES
  StreamDrains
CHECK_DEADLOCK FALSE
