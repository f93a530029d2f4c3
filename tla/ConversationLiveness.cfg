SPECIFICATION FairSpec
CONSTANTS
    Requests = {r1}
    s1 = s1
    NoSession = NoSession
    Sessions <- WithAndWithout
    Blanks = {TRUE, FALSE}
    ContextWindow = 2
    Traits = {"neuroticism", "openness"}
    OtherNames = {"humor"}
    Values = {80, 120}
    Reports <- MixedReports
    Emotions <- TwoEmotions
    NoWriter = NoWriter
    MaxCrashes = 1
CHECK_DEADLOCK FALSE
INVARIANT LastItemPrevails
PROPERTIES
    RequestsAreAnswered
    StoredPostsAreAnalysed
