SPECIFICATION Spec
CONSTANTS
    Runs = 2
    Records = 4
    RingDepth = 2
    StageDepth = 3
    Batch = 2
    Failures = 2
INVARIANTS
    LogIsSound
    AcceptedFileIsWhole
PROPERTIES
    DrainEnds
CHECK_DEADLOCK FALSE
