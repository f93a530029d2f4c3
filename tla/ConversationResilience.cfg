SPECIFICATION Spec
CONSTANTS
    Requests = {r1, r2}
    s1 = s1
    NoSession = NoSession
    Sessions <- OneSession
    Blanks = {FALSE}
    ContextWindow = 2
    Traits = {"neuroticism"}
    OtherNames = {}
    Values = {120}
    Reports <- NeuroticReport
    Emotions <- TwoEmotions
    NoWriter = NoWriter
    MaxCrashes = 0
CHECK_DEADLOCK FALSE
INVARIANT ResilienceFollowsTraits
