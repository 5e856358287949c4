SPECIFICATION FairSpec
CONSTANTS
    Packets <- ShortPackets
    MaxNodes = 3
    Chan = {"net"}
    FirstChan = "net"
    MaxSize <- OneByte
    Datagram = TRUE
    BufferSize = 16384
    Placement = "Aggressive"
    MinCutoff = 1
    HavocRuns = 2
    FilterRuns = 2
    NoFindLimit = 0
    MaxQueue = 2
    Fatal <- EmptyPacket
    Nondet = FALSE
INVARIANTS NoPanic NothingSkipped
PROPERTIES SnapshotDeleted
