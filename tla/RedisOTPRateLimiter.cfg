SPECIFICATION Spec
CONSTANTS
    k1 = k1
    Keys <- OneKey
    Window = 2
    Max = 2
    MaxAttempts = 2
    MaxTime = 4
    MaxCalls = 5
CHECK_DEADLOCK FALSE
INVARIANTS
    TypeOK
    AtMostTwoCountersPerWindow
    DenialHasReason
