SPECIFICATION Spec
CONSTANTS
  Size = 3
  Keys = {0, 3, 1, 5}
  NoKey = NoKey
  Data = {d1, d2, d3, d4, d5}
  NoData = NoData
INVARIANTS
  Chained
  Accounted
PROPERTY
  TableSpec
CHECK_DEADLOCK FALSE
