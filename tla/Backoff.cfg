CONSTANTS
    Max = 50
    Time = 600
    Factors = {750, 1000, 1250}
SPECIFICATION Spec
CHECK_DEADLOCK FALSE
INVARIANT WaitsAsLongAsAsked
PROPERTY EveryWaitCounts
