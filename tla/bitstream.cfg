SPECIFICATION Spec
CONSTANTS
    Streams <- SomeStreams
    MaxPackets = 3
INVARIANTS
    UnitsAreKept
    FreedOnce
CHECK_DEADLOCK FALSE
