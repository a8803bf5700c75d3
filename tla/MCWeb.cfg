CONSTANTS
  a = a
  b = b
  Nothing = Nothing
  Paths <- MCPaths
  MaxSessions = 2
  MaxClicks = 5
  MaxPending = 3
SYMMETRY Symmetry
SPECIFICATION Spec
INVARIANTS
  EditorShowsItsSecret
  
CHECK_DEADLOCK FALSE
