SPECIFICATION AgentSpec
CONSTANTS
    None = None
    SourceIds = {s1, s2}
    EventIds = {e1}
    Objects = {}
    FrameCount = 1
    Callers = {c1, c2}
    MaxWriters = 2
    Loaded <- SavedWithEvent
    MaxIterations = 5
    MaxRetries = 1
INVARIANTS AnswerMatchesEffect EarlierEditsHold
PROPERTIES RunEnds EditsOfTheAnswer
CHECK_DEADLOCK FALSE
