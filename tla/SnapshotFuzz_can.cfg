SPECIFICATION Spec
CONSTANTS
    Packets <- ShortPackets
    MaxNodes = 2
    Chan = {"net", "can"}
    FirstChan = "net"
    MaxSize <- OneByte
    Datagram = FALSE
    BufferSize = 16384
    Placement = "Balanced"
    MinCutoff = 1
    HavocRuns = 1
    FilterRuns = 1
    NoFindLimit = 1
    MaxQueue = 2
    Fatal <- NoPackets
    Nondet = TRUE
INVARIANTS TypeOK ConsumedIsPrefix ChannelStream CorpusReplays RootBetweenIterations
PROPERTY UsesSnapshots
