SPECIFICATION Spec
CONSTANTS
  NoRow = NoRow
  Null = Null
  NullImage <- MCNullImage
  Columns = {c1, c2}
  Values = {v1, v2, Null}
  MaxChanges = 4
  Histories <- AllHistories
  ExtractSets <- SafeExtracts
INVARIANTS
  TypeOK
  EnginesAgree
  SettlesOnSource
PROPERTIES
  RowNeverRegresses
