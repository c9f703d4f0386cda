SPECIFICATION Spec
CONSTANTS
    Records = 4
    SdQueue = 2
    FlashQueue = 1
    Decimation = 2
    Capacity = 3
    Batch = 2
    FrameQueue = 1
    Transfers = 2
    Failures = 1
    Resets = 1
INVARIANTS
    LogIsTheFlight
PROPERTIES
    FlushIsWhole
    FlushEnds
CHECK_DEADLOCK FALSE
