CONSTANTS
  p1 = p1
  p2 = p2
  u1 = u1
  u2 = u2
  u3 = u3
  e1 = e1
  k1 = k1
  Free = Free
  Processes <- MCProcesses
  Updaters <- MCUpdaters
  Exporters <- MCExporters
  Home <- MCHome
  Keys <- MCKeys
  MaxRevision = 2
  MaxId = 3
  Batch = 2
SPECIFICATION Spec
INVARIANTS
  TypeOK
  ScanIsComplete
PROPERTIES
  ImplementsAtomicRecords
  UpdatesEnd
