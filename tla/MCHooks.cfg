CONSTANTS
  d1 = d1
  d2 = d2
  v1 = v1
  v2 = v2
  t1 = t1
  t2 = t2
  Invalid = Invalid
  Foreign = Foreign
  Defs <- TwoDefs
  Values <- MCValues
  Definitions <- OnlyHooked
  Templates <- OneTemplate
  MaxRevision = 2
  MaxFaults = 2
  MaxEdits = 0
SPECIFICATION Spec
INVARIANTS
  HookNotLost
PROPERTIES
  EventuallyHooked
