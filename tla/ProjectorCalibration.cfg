CONSTANTS
    MinRays = 2
    MaxRays = 3
    Needed = 2
    MaxPoints = 3
    MaxInbox = 1
    Apart = TRUE
SPECIFICATION FairSpec
INVARIANTS
    TypeOK
    EnoughToSolve
    DistinctRays
    SolvedFromAll
PROPERTIES
    CalibrationEnds
