SPECIFICATION FairSpec
CONSTANTS
    MaxAttempts = 1
    MaxClientUpsets = 0
    MaxCrashes = 1
    MaxFaults = 0
PROPERTIES
    StartedSetupsSettleDone
CHECK_DEADLOCK FALSE
