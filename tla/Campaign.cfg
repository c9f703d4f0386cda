SPECIFICATION Spec
CONSTANTS
    Sessions = 2
    Resets = 3
    Failures = 1
INVARIANTS
    DriveIsQualified
    SessionIsKept
    StopHolds
PROPERTIES
    StopEnds
CHECK_DEADLOCK FALSE
