CONSTANTS
    Cue = {c1, c2, c3}
    MaxDepth = 2
    MaxWires = 2
    MaxStray = 2
SPECIFICATION FairSpec
INVARIANTS
    TypeOK
    NextCueExists
PROPERTIES
    
    FiringReturns
CHECK_DEADLOCK FALSE
