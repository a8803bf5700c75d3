CONSTANTS
  service = service
  once = once
  None = None
  Processes <- MCProcesses
  Service = service
  MaxTokens = 1
  MaxSaves = 2
  MaxFaults = 1
  MaxStarts = 1
SPECIFICATION Spec
PROPERTIES
  JournalNeverGoesBack
