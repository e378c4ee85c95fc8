SPECIFICATION FairSpec
CONSTANTS
    Sources <- SomeSources
    MaxStreams = 3
    Timeout = 1
    MaxOpens = 1
PROPERTIES
    StalledCallReturns
