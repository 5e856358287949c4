SPECIFICATION Spec
CONSTANTS
    f1 = f1  f2 = f2  f3 = f3  f4 = f4
    Fd = {f1, f2, f3, f4}
    Builds = {"CAN"}
    TargetPort = 1
    MAX_CONNECTIONS = 2
    MaxSockets = 8
    Calls = {}
SYMMETRY Symmetry
CHECK_DEADLOCK FALSE
INVARIANTS SlotInBounds
