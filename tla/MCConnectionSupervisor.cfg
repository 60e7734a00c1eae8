SPECIFICATION FairSpec
CONSTANTS
    MaxUpsets = 3
    MaxFaults = 3
INVARIANTS
    IntentIsHeard
PROPERTIES
    RetriesArePaced
    GenerationsAreFresh
    FollowsIntent
    DeadSessionReplaced
CHECK_DEADLOCK FALSE
