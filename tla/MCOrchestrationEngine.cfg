SPECIFICATION FairSpec
CONSTANTS
    CommandIds = {c1, c2}
    Aggregates = {a1, a2}
    MaxDispatch = 2
    MaxPlan = 2
    MaxCrashes = 1
    ReadLimit = 2
INVARIANTS
    AppliedOnce
    ReadModelCaughtUp
    PublishedGapFree
    PublishedIsVisible
    AnswersAreTrue
PROPERTIES
    SnapshotStillCurrent
    ImplementsCommandLog
    EveryDispatchAnswered
CHECK_DEADLOCK FALSE
