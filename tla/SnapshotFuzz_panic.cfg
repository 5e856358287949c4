SPECIFICATION Spec
CONSTANTS
    Packets <- ShortPackets
    MaxNodes = 4
    Chan = {"net"}
    FirstChan = "net"
    MaxSize <- OneByte
    Datagram = FALSE
    BufferSize = 16384
    Placement = "Aggressive"
    MinCutoff = 2
    HavocRuns = 1
    FilterRuns = 1
    NoFindLimit = 1
    MaxQueue = 1
    Fatal <- NoPackets
    Nondet = TRUE
INVARIANTS NoPanic
