SPECIFICATION FairSpec
CONSTANTS
    NumPackets = 3
    Size <- OversizeSecond
    QueueLimit = 5
    FifoSize = 2
    Calls = {"open", "add", "flush", "reset", "close", "reopen"}
PROPERTIES
    CallReturns
    AcceptedIsFreed
