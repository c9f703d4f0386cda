SPECIFICATION ChainSpec
CONSTANTS
  Backdate = 1
  PressureGate = 2
  DeploymentDeadline = 2
  PowerCutoff = 3
  MaxEpoch = 1
  MaxTime = 3
  MaxResets = 1
  QueueCapacity = 2
  MayStall = {"safety", "parachute", "mission"}
INVARIANTS
  AutomaticMove
  SafetyRequestIsKept
PROPERTIES
  CutoffHolds
