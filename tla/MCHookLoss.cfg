CONSTANTS
  d1 = d1
  d2 = d2
  v1 = v1
  v2 = v2
  t1 = t1
  t2 = t2
  Invalid = Invalid
  Foreign = Foreign
  Defs <- OneDef
  Values <- MCValues
  Definitions <- OnlyHooked
  Templates <- OneTemplate
  MaxRevision = 1
  MaxFaults = 1
  MaxEdits = 1
SPECIFICATION Spec
INVARIANTS
  HookNotLost
