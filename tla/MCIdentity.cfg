CONSTANTS
  Rules <- MCRules
  Probes <- MCProbes
  MaxDraws = 5
  MaxTime = 2
  MaxTTL = 2
SPECIFICATION Spec
INVARIANTS
  CredentialIndexExact
  WriterIndexExact
  EnrollmentsHaveAgents
  OneCredentialEach
  TokensHaveOnePurpose
  AccessFollowsRules
PROPERTIES
  RefusedStaysRefused
  RevocationIsFinal
CHECK_DEADLOCK FALSE
