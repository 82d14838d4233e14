CONSTANTS
    Blocks = 2
    Ring = 2
    MaxLoads = 2
    Patient = FALSE
SPECIFICATION FairSpec
CHECK_DEADLOCK FALSE
INVARIANT ReleasedNeverUsed
