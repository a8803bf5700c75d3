CONSTANTS
  ann = ann
  bob = bob
  old = old
  new = new
  Names <- MCNames
  Passwords <- MCPasswords
  SessionTTL = 2
  Limit = 2
  Window = 1
  MaxAttempts = 3
  MaxVersions = 4
  MaxDraws = 6
  MaxTime = 4
SYMMETRY Symmetry
SPECIFICATION Spec
INVARIANTS
  TypeOK
  AlwaysAnAdministrator
  SessionsAreCurrent
  AttemptsBounded
PROPERTIES
  RefusedSessionStaysRefused
