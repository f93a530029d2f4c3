SPECIFICATION Spec
CONSTANTS
    Requests = {r1, r2}
    s1 = s1
    NoSession = NoSession
    Sessions <- OneSession
    Blanks = {TRUE, FALSE}
    ContextWindow = 2
    Traits = {"neuroticism"}
    OtherNames = {}
    Values = {120}
    Reports <- NeuroticReport
    Emotions <- TwoEmotions
    NoWriter = NoWriter
    MaxCrashes = 1
SYMMETRY RequestSymmetry
CHECK_DEADLOCK FALSE
INVARIANTS
    TypeOK
    ResponseMatchesStore
    RejectedPostLeavesNothing
    ContextIsRecent
    LaterAnalysisPrevails
PROPERTIES
    UpdatedAtGoesBackOnlyByOverlap
    AnalysesRunApart
