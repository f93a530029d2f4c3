SPECIFICATION Spec
CONSTANTS
    RawIntensities <- GateIntensities
    RawCategories = {"NEUTRAL", "ALEGRIA", "IRA", "FURIA", "Extreme"}
    ContentSignals = {FALSE}
    Profiles <- SomeProfiles
    TenseBonds = {TRUE, FALSE}
    SeedWeights = {0, 1, 6}
    MaxTurns = 3
CHECK_DEADLOCK FALSE
INVARIANTS
    TypeOK
    TenseTurnIsRemembered
    TensionHasRoots
    OnlySeedsAreHighImpact
    StrongerMessageStrongerMemory
    InstabilityAmplifies
