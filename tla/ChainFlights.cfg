SPECIFICATION ChainSpec
CONSTANTS
  Backdate = 1
  PressureGate = 2
  DeploymentDeadline = 2
  PowerCutoff = 3
  MaxEpoch = 2
  MaxTime = 3
  MaxResets = 0
  QueueCapacity = 2
  MayStall = {}
INVARIANTS
  FlightsAreApart
