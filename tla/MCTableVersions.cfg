SPECIFICATION Spec
CONSTANTS
  Tables = {k1, k2}
  Versions = {0, 1}
  NoVersion = NoVersion
  Dentries = {d1, d2, d3, d4}
  NoDentry = NoDentry
  Kinds = {"PAT", "PMT", "NIT", "SDT", "SDTT", "EIT", "AIT"}
  MaxTorn = 1
INVARIANTS
  HeldOnce
  VersionsKept
  CurrentIsLast
  AllOrNothing
CHECK_DEADLOCK FALSE
