SPECIFICATION Spec
CONSTANTS
  Backdate = 1
  ControlGate = 2
  PressureGate = 2
  DeploymentDeadline = 3
  PowerCutoff = 4
  MaxEpoch = 2
  ReadinessChoices <- MCReadinessChoices
  SensorInputs <- MCSensorInputs
  MaxTime = 5
  MaxResets = 1
INVARIANTS
  StateIsSound
  FinsAreAuthorized
  ClockIsTrue
PROPERTIES
  FlightGoesForward
  BrakeIsLatched
  ImplementsFlight
