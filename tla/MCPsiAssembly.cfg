SPECIFICATION Spec
CONSTANTS
  CcModulus = 16
  PayloadSize = 7
  MaxSection = 18
  SectionSizes = {4, 5, 16, 19}
  MaxSections = 3
  MaxLoss = 2
  CrcReport = FALSE
INVARIANTS
  TypeOK
  SplicedOnlyAtZero
PROPERTIES
  ParsedOnce
  EndDelivers
CHECK_DEADLOCK FALSE
