SPECIFICATION Spec
CONSTANTS
    Calls = {c1, c2, c3, c4}
    NoToken = NoToken
    Backends = {"memory", "redis"}
    RefreshTTL = 2
    TicksPerSecond = 2
    MaxTime = 3
    MaxRestarts = 1
SYMMETRY CallSymmetry
CHECK_DEADLOCK FALSE
INVARIANTS
    TypeOK
    RefusalHasReason
    RevokedTokenIsRefused
