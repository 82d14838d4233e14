CONSTANTS
    Blocks = 2
    Ring = 2
    MaxLoads = 3
    Patient = TRUE
SPECIFICATION FairSpec
INVARIANTS
    TypeOK
    ReleasedNeverUsed
    NoBlockSkipped
PROPERTIES
    LoadReturns
    NewTrackTaken
