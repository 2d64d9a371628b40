SPECIFICATION FairSenderSpec
CONSTANTS
    a1 = a1
    a2 = a2
    a3 = a3
    quic = quic
    long = long
    short = short
    Packets = {a1, a2, a3, long, short}
    Workloads <- AllPackets
    Kind <- MCKind
    Size <- MCSize
    Compression = FALSE
    BATCH_SIZE = 2
    SHARDS_PER_PARITY = 2
    BATCH_CHANNEL_SIZE = 1
    MAX_GROUPS = 1
    FlagFlips <- FlipsUpTo3
PROPERTIES
    EveryPacketProtected
CHECK_DEADLOCK FALSE
