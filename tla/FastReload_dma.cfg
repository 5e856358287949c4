SPECIFICATION Spec
CONSTANTS
    Pages <- MCPages
    Values = {0, 1}
    PageUnits = 2
    RestoreRate = 2
    HeapBits = {}
    Sectors <- MCSectors
    DiskValues = {0, 1}
    ChunkSectors = 2
    CowSize = 2
    PrimarySize = 2
    Setups <- CrossSetup
    Configs <- PassConfigs
    Folders = {}
    BootMemory <- ZeroMemory
    BootImage <- ZeroDisk
    BootDevices = 0
    RingSize = 1
    NoSnapshot = NoSnapshot
PROPERTIES
    ImplementsSnapshots
CHECK_DEADLOCK FALSE
