SPECIFICATION FairSpec
CONSTANTS
    Keys = {k1, k2}
    MaxEnqueues = 3
INVARIANTS
    NoKeyStranded
    QueuedOnce
    DrainedMeansNewestHandled
PROPERTIES
    HandledInOrder
    DrainReturns
CHECK_DEADLOCK FALSE
