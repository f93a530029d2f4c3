SPECIFICATION Spec
CONSTANTS
    rain = rain
    friends = friends
    Clones = {c1, c2}
    NoClone = NoClone
    Messages <- SomeMessages
    Answers <- SomeAnswers
    Scenes <- SomeScenes
    Characters <- SomeCharacters
    Similarities = {10, 40, 70}
    DaysAgo = {0, 30}
    SearchLimit = 3
    WorkingMemoryLimit = 1
    MaxJudge = 1
    ContextLimit = 2
    MaxTurns = 4
SYMMETRY CloneSymmetry
CHECK_DEADLOCK FALSE
INVARIANTS
    TypeOK
    BetterClaimPrevails
    SeedsAreRecalled
    DirectivesAgree
PROPERTY ImplementsEmotionalLoop
