SPECIFICATION Spec
CONSTANTS
    MaxEvents = 5
    MaxFiles = 2
    MaxCrashes = 2
    MaxResets = 1
    MaxFailures = 1
INVARIANTS
    RowsMatchLog
    OrphansAreRetried
PROPERTIES
    SparesReferenced
CHECK_DEADLOCK FALSE
