SPECIFICATION Spec
CONSTANTS
  Tables = {k1}
  Versions = {0, 1, 2}
  NoVersion = NoVersion
  Dentries = {d1, d2, d3}
  NoDentry = NoDentry
  Kinds = {"PMT"}
  MaxTorn = 0
INVARIANT
  VersionsShown
CHECK_DEADLOCK FALSE
