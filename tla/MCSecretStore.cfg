CONSTANTS
  p1 = p1
  p2 = p2
  v1 = v1
  v2 = v2
  k1 = k1
  k2 = k2
  mShort = mShort
  mOld = mOld
  mNew = mNew
  NoKey = NoKey
  Paths <- MCPaths
  Values <- MCValues
  Keys <- MCKeys
  Masters <- MCMasters
  StrongMasters <- MCStrongMasters
  MaxRevision = 3
SYMMETRY Symmetry
SPECIFICATION Spec
INVARIANTS
  TypeOK
  VaultHoldsDataKey
  SecretsRecoverable
  RevisionCountsWrites
  RevisionNamesValue
PROPERTIES
  ReadsNeverGoBack
  ImplementsVersionedValues
