SPECIFICATION FairSpec
CONSTANTS
    MaxAttempts = 2
    MaxClientUpsets = 1
    MaxCrashes = 1
    MaxFaults = 1
INVARIANTS
    FencePassed
    DispositionTrue
    StartingIsAttended
PROPERTIES
    LaterSessionsSurvive
    RollbackSparesTurns
    EveryBootstrapAnswered
    RecordSettles
CHECK_DEADLOCK FALSE
