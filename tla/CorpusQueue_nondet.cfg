SPECIFICATION Spec
CONSTANTS
    Threads = {t0}
    Importer = t0
    Packets = {1, 2}
    MaxLen = 2
    Bits = {1, 2}
    Slots = {1}
    Outcomes <- Nondet
    Files <- OneImport
    ExitAfterCrash = FALSE
    HavocRuns = 2
    MinIters = 1
    MaxFailures = 2
INVARIANTS MinExample MinimizerSound FavCovers
