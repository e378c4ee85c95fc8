SPECIFICATION Spec
CONSTANTS
    NumPackets = 3
    Size <- MixedSizes
    QueueLimit = 4
    FifoSize = 2
    Calls = {"open", "add", "reset"}
PROPERTIES
    NoStaleDecode
