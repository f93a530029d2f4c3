SPECIFICATION Spec
CONSTANTS
    rain = rain
    friends = friends
    Clones = {c1}
    NoClone = NoClone
    Messages <- SomeMessages
    Answers <- SomeAnswers
    Scenes <- SomeScenes
    Characters <- SomeCharacters
    Similarities = {10, 40, 70}
    DaysAgo = {0, 30}
    SearchLimit = 3
    WorkingMemoryLimit = 1
    MaxJudge = 1
    ContextLimit = 2
    MaxTurns = 1
CHECK_DEADLOCK FALSE
INVARIANT MonologueIsNeverReturned
