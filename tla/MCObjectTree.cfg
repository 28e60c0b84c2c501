SPECIFICATION TreeSpec
CONSTANTS
  root = root
  dir = dir
  sub = sub
  top = top
  low = low
  empty = empty
  nameA = nameA
  nameD = nameD
  nameS = nameS
  nameE = nameE
  Objects <- MCObjects
  Root <- root
  Stepfather = stepfather
  Files <- MCFiles
  Bindings <- MCBindings
  Name <- MCName
  Stated <- MCStated
  Length <- MCLength
  Passes = 2
  Nil = none
INVARIANTS
  TreeRight
  ContentsRight
CHECK_DEADLOCK FALSE
