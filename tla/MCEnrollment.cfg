CONSTANTS
  service = service
  once = once
  None = None
  Processes <- MCProcesses
  Service = service
  MaxTokens = 2
  MaxSaves = 2
  MaxFaults = 2
  MaxStarts = 2
SPECIFICATION Spec
INVARIANTS
  TypeOK
  CredentialIsStored
PROPERTIES
  LostStaysLost
  EnrollmentSettles
