CONSTANTS
  d1 = d1
  d2 = d2
  v1 = v1
  v2 = v2
  t1 = t1
  t2 = t2
  Invalid = Invalid
  Foreign = Foreign
  Defs <- OneDef
  Values <- MCValues
  Definitions <- QuietOrOpen
  Templates <- TwoTemplates
  MaxRevision = 2
  MaxFaults = 2
  MaxEdits = 2
SPECIFICATION Spec
INVARIANTS
  JournalNamesWhatItHolds
  HookRanForEntry
PROPERTIES
  FailureKeepsDeployment
  EventuallyInStep
