SPECIFICATION FairSpec
CONSTANTS
    Sources <- SomeSources
    MaxStreams = 3
    Timeout = 1
    MaxOpens = 2
INVARIANTS
    TypeOK
    ReleasedOnce
    ExactlyOneActive
    PromptIsKept
PROPERTIES
    NetworkCallReturns
