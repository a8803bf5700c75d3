CONSTANTS
  r1 = r1
  r2 = r2
  r3 = r3
  None = None
  Requests <- MCRequests
  MaxFaults = 2
SYMMETRY Symmetry
SPECIFICATION Spec
INVARIANTS
  AnswersAreTruthful
  AuditIsTruthful
  EffectsAreAudited
  OpenVaultIsAudited
