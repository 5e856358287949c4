SPECIFICATION Spec
CONSTANTS
    f1 = f1  f2 = f2  f3 = f3  f4 = f4
    Fd = {f1, f2, f3, f4}
    Builds = {"CAN", "UDP", "CLIENT"}
    TargetPort = 1
    MAX_CONNECTIONS = 3
    MaxSockets = 3
    Calls = {"dup", "dup2", "dup3", "other"}
SYMMETRY Symmetry
CHECK_DEADLOCK FALSE
INVARIANTS TypeOK ActiveCountExact SelectExact CacheMatchesKernel OnlyFullAsserts NeverIdle
PROPERTY ReleaseIsLast
