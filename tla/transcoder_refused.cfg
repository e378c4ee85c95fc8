SPECIFICATION Spec
CONSTANTS
    Inputs <- VideoInputs
    QueueLimit = 2
    EncBuffers = 2
    MaxSets = 2
    MaxUnfilled = 1
INVARIANTS
    FrameWrittenOnce
