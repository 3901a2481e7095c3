SPECIFICATION Spec
CONSTANTS
  v1 = v1
  v2 = v2
  Images <- MCImages
  Absent = Absent
  NoRow = NoRow
  NullCol = NullCol
  NoBound = NoBound
  NoMid = NoMid
  NoState = NoState
  Keys = {1, 2, 3, 4}
  Tables <- TwoTables
  ColOf <- Shared
  LeafRows = 1
  MaxDepth = 3
  MaxFindings = 2
  Stride = 1
  MinInt <- Lowest
  MaxInt = 2
  MaxEvents = 2
  Thresholds <- OpenGate
  Requests = {r1, r2}
  FirstStates <- MCFirstStates
  FirstRows <- SomePairs
  Targets = {"cutting_over", "streaming"}
  MaxParts = 1
SYMMETRY RequestSymmetry
INVARIANTS
  DifferencesLocalised
  NoFalseAlarm
  ReadyMeansVerified
PROPERTIES
  IllegalMovesAreRaces
CHECK_DEADLOCK FALSE
