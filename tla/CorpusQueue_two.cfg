SPECIFICATION Spec
CONSTANTS
    Threads = {t0, t1}
    Importer = t0
    Packets = {1, 2}
    MaxLen = 2
    Bits = {1, 2}
    Slots = {}
    Outcomes <- Quiet
    Files <- NoFiles
    ExitAfterCrash = FALSE
    HavocRuns = 1
    MinIters = 1
    MaxFailures = 1
INVARIANTS TypeOK MinExample ClaimedOnce CoverageKept
