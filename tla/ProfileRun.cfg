SPECIFICATION RunSpec
CONSTANTS
    Epochs = 3
    Horizon = 6
    TickDepth = 4
    SampleDepth = 3
    Buckets = 4
    Faults = 1
INVARIANTS
    EvidenceIsWhole
PROPERTIES
    
    RunFinishes
CHECK_DEADLOCK FALSE
