SPECIFICATION Spec
CONSTANTS
    MaxAttempts = 2
    ZeroSamples = 2
    RestartFaults = 2
    Fresh = 2
    Upsets = 1
INVARIANTS
    AirspeedIsReadAgain
PROPERTIES
    ReadinessIsOfLastAttempt
    SensorComesBack
CHECK_DEADLOCK FALSE
