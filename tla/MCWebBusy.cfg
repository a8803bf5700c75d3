CONSTANTS
  a = a
  b = b
  Nothing = Nothing
  Paths <- MCPaths
  MaxSessions = 2
  MaxClicks = 5
  MaxPending = 2
SYMMETRY Symmetry
SPECIFICATION Spec
INVARIANTS
  PendingBlocksClose
CHECK_DEADLOCK FALSE
