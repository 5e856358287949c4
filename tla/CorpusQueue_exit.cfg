SPECIFICATION FairSpec
CONSTANTS
    Threads = {t0, t1}
    Importer = t0
    Packets = {1, 2}
    MaxLen = 2
    Bits = {1}
    Slots = {}
    Outcomes <- Det
    Files <- OneSeed
    ExitAfterCrash = TRUE
    HavocRuns = 1
    MinIters = 1
    MaxFailures = 1
PROPERTIES CrashEnds
CHECK_DEADLOCK FALSE
