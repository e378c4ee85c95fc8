SPECIFICATION Spec
CONSTANTS
    Count <- TwoAndOne
    Errors = {"resource", "sameState", "other"}
    MaxHandles = 1
    MaxPending = 1
    MaxBusy = 3
    MaxFaults = 1
INVARIANTS
    TypeOK
    NoDuplicateEvents
    CleanShutdown
PROPERTIES
    FreedIsBack
CHECK_DEADLOCK FALSE
