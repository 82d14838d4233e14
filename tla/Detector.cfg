CONSTANTS
    MaxFrame = 5
    Torn = Torn
SPECIFICATION FairSpec
CHECK_DEADLOCK FALSE
INVARIANTS
    TypeOK
    NewestImageNotLost
    DetectOnWholeObject
    ResultsNotLost
PROPERTIES
    StopReturns
    ImageDetected
