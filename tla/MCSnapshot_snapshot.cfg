SPECIFICATION Spec
CONSTANTS
  NoRow = NoRow
  NullImage = 0
  NoFile = NoFile
  NoTable = NoTable
  Keys = {1, 2}
  Seeds = {{1, 2}, {1}}
  MaxChanges <- FewChanges
  Chunks <- OneChunk
  MaxAborts = 1
  MaxRestarts = 1
  MaxPartRows = 2
  MaxExtracts = 2
  Engines = {"postgres", "mysql"}
  Goroutines = {g1, g2}
  Concurrency = 2
  MaxFaults <- FaultsOn
SYMMETRY LoaderSymmetry
INVARIANTS
  NeverStale
  StagingIsPrivate
  CompleteManifestCoversTable
  MirrorsWhenThrough
  OnlyLateChunksStick
CHECK_DEADLOCK FALSE
