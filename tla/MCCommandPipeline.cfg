CONSTANTS
  CacheSize = 4
  c1 = c1  c2 = c2
  Ids = {c1, c2}
  Commands = {"start_sequence", "cancel_sequence", "fin_move_relative",
              "para_open", "run_preflight_calibration"}
  Payloads = {"zero"}
  Contexts <- RuntimeContexts
  Failures = {"busy", "invalid_state", "device_unavailable", "not_configured",
              "timeout"}
  TransitionQueue = 1
  ParachuteQueue = 1
  HoldQueue = 1
  EmergencyQueue = 1
  MaxSends = 3
  MaxEmergencies = 2
SYMMETRY Symmetric
SPECIFICATION PipelineSpec
INVARIANTS OwnershipIsSound OnlyInterruptedGoOn
PROPERTIES ImplementsExecutor FlightBeginsAtRest
