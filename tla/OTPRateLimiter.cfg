SPECIFICATION Spec
CONSTANTS
    Keys = {k1, k2}
    Window = 3
    Max = 2
    MaxTime = 7
    MaxCalls = 7
    MaxRestarts = 1
SYMMETRY KeySymmetry
CHECK_DEADLOCK FALSE
INVARIANTS
    TypeOK
    AtMostMaxPerWindow
PROPERTIES
    RefinesSlidingWindow
