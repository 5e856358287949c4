SPECIFICATION Spec
CONSTANTS
    Pages <- MCPages
    Values = {0, 1}
    PageUnits = 2
    RestoreRate = 2
    HeapBits = {2}
    Sectors <- MCSectors
    DiskValues = {0, 1}
    ChunkSectors = 2
    CowSize = 2
    PrimarySize = 2
    Setups <- PassSetups
    Configs <- PassConfigs
    Folders <- PassFolders
    BootMemory <- ZeroMemory
    BootImage <- ZeroDisk
    BootDevices = 0
    RingSize = 1
    NoSnapshot = NoSnapshot
INVARIANTS
    TypeOK
    DirtyPagesKnown
    DirtyBitsBacked
    TmpFlagsAgree
    DiskCoherent
    CoverageOfPath
PROPERTIES
    PersistentPages
    ImplementsRecorded
CHECK_DEADLOCK FALSE
