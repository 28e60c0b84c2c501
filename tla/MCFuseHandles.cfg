SPECIFICATION Spec
CONSTANTS
  Threads = {t1, t2}
  Parser = parser
  Dir = dir
  Nodes = {n1, n2}
  Names = {a, b, current}
  Link = current
  Attrs = {user}
  Format = format
  MaxVersion = 1
  Sizes <- Lengths
  Null = null
INVARIANTS
  RefcountRight
  NotTorn
  Listed
  AttrsUnique
SYMMETRY Symmetry
CHECK_DEADLOCK FALSE
