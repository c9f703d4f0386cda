SPECIFICATION SafetyAloneSpec
CONSTANTS
  Backdate = 0
  PressureGate = 1
  DeploymentDeadline = 1
  PowerCutoff = 2
  MaxEpoch = 1
  MaxTime = 2
  MaxResets = 0
  QueueCapacity = 1
  MayStall = {"parachute", "mission"}
PROPERTIES
  PowerIsCut
  RequestIsServedIfFair
