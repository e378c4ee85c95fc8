SPECIFICATION FairSpec
CONSTANTS
    Parts <- PartsOfThree
    DecInputs = 2
    EncCount <- TwoOutOneIn
    MaxFaults = 2
    MaxChanges = 2
    MaxResets = 1
INVARIANTS
    TypeOK
    FramesInOrder
    PartsInOrder
    TrueMeansWhole
    StartTimeIsFirst
    OneEncoder
    DecoderBuffersKept
PROPERTIES
    DecodeReturns
CHECK_DEADLOCK FALSE
