SPECIFICATION Spec
CONSTANTS
    Count <- OneEach
    Errors = {"sameState"}
    MaxHandles = 2
    MaxPending = 1
    MaxBusy = 2
    MaxFaults = 1
INVARIANTS
    BufferOwnership
PROPERTIES
    ImplementsPool
    WaitMeansDone
CHECK_DEADLOCK FALSE
