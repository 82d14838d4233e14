CONSTANTS
    MinRays = 2
    MaxRays = 3
    Needed = 3
    MaxPoints = 4
    MaxInbox = 1
    Apart = FALSE
SPECIFICATION Spec
INVARIANTS
    EnoughToSolve
