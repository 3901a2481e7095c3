SPECIFICATION Spec
CONSTANTS
  NoRow = NoRow
  Null = Null
  NullImage <- MCNullImage
  Columns = {c1, c2}
  Values = {v1, v2, Null}
  MaxChanges = 3
  Histories <- RecreatedHistories
  ExtractSets <- AnyExtracts
INVARIANTS
  SettlesOnSource
