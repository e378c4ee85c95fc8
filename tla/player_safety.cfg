SPECIFICATION Spec
CONSTANTS
    NumPackets = 3
    Size <- MixedSizes
    QueueLimit = 4
    FifoSize = 2
    Calls = {"open", "add", "flush", "close", "reopen"}
INVARIANTS
    TypeOK
    DecoderSafe
    PacketAccounting
    CachedExact
    DecodedInOrder
    AtMostOneLostPerFlush
PROPERTIES
    NoStaleDecode
    ImplementsChannel
