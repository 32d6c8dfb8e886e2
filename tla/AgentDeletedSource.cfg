SPECIFICATION AgentSpec
CONSTANTS
    None = None
    SourceIds = {s1, s2}
    EventIds = {e1}
    Objects = {}
    FrameCount = 1
    Callers = {c1, c2}
    MaxWriters = 2
    Loaded <- Saved
    MaxIterations = 8
    MaxRetries = 1
SYMMETRY Symmetry
INVARIANTS DeletedSourceGone
CHECK_DEADLOCK FALSE
