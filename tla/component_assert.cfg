SPECIFICATION Spec
CONSTANTS
    Count <- OneEach
    Errors = {}
    MaxHandles = 1
    MaxPending = 1
    MaxBusy = 3
    MaxFaults = 0
INVARIANTS
    AssertHolds
CHECK_DEADLOCK FALSE
