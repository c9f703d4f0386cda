SPECIFICATION Spec
CONSTANTS
  Transfers <- MCTransfers
  RequestQueue = 1
  StatusQueue = 1
  LogLength = 2
  MaxControls = 2
  MaxFaults = 2
INVARIANTS
  EvidenceIsTrue
PROPERTIES
  EntrySleeps
  AutoEntry
  WindowSleeps
CHECK_DEADLOCK FALSE
