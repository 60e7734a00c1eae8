SPECIFICATION FairSpec
CONSTANTS
    Calls = {c1}
    MaxEvents = 4
    MaxItems = 2
    MaxPending = 2
    MaxReplay = 3
    MaxInbox = 0
    MaxUpsets = 2
INVARIANTS
    TypeOK
    NothingMissing
    AppliedInOrder
PROPERTIES
    MarkerTrue
    Synchronized
CHECK_DEADLOCK FALSE
