SPECIFICATION Spec
CONSTANTS
    Calls = {c1, c2, c3}
    NoToken = NoToken
    Backends = {"memory", "redis"}
    RefreshTTL = 2
    TicksPerSecond = 2
    MaxTime = 3
    MaxRestarts = 2
SYMMETRY CallSymmetry
CHECK_DEADLOCK FALSE
INVARIANT RevokedTokenIsRefused
