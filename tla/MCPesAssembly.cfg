SPECIFICATION Spec
CONSTANTS
  CcModulus = 8
  PayloadSize = 9
  Lengths = {1, 8, 9}
  UnitSizes = {8, 17, 18}
  Bounding = {TRUE, FALSE}
  Audio = FALSE
  MaxUnits = 2
  MaxLoss = 1
INVARIANTS
  SplicedOnlyAtZero
  CompleteButLastByte
PROPERTIES
  UnitDelivered
  UnboundedInOrder
CHECK_DEADLOCK FALSE
