SPECIFICATION LiveSpec
CONSTANTS
  Pats <- MCPats
  Pmts <- MCPmts
  Tables <- MCTables
  ParsePes = TRUE
  MaxPids = 5
  MaxUpdates = 2
  None = None
INVARIANTS
  CacheLive
  EndsOnlyAfterUpdate
PROPERTIES
  DispatchRight
  StreamsPlay
CHECK_DEADLOCK FALSE
