SPECIFICATION Spec
CONSTANTS
    Threads = {t0}
    Importer = t0
    Packets = {1, 2}
    MaxLen = 3
    Bits = {1, 2}
    Slots = {}
    Outcomes <- Det
    Files <- OneSeed
    ExitAfterCrash = FALSE
    HavocRuns = 1
    MinIters = 2
    MaxFailures = 1
INVARIANTS EntryReplays
