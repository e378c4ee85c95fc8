SPECIFICATION FairSpec
CONSTANTS
    Inputs <- MixedInputs
    QueueLimit = 2
    EncBuffers = 2
    MaxSets = 3
    MaxUnfilled = 2
INVARIANTS
    TypeOK
    BuffersKept
    HeaderFirst
    PacketFate
    AudioInOrder
PROPERTIES
    NothingDroppedOnceBegun
    InputIsRead
    CallbackReturns
