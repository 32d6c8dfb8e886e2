SPECIFICATION Spec
CONSTANTS
    None = None
    p1 = p1
    p2 = p2
    FrameCount = 5
    Prompts <- TwoPrompts
    Propagations <- Found
    Requests <- NoRequests
    MaxRequests = 5
    MaxCrashes = 1
    Clients = {c1}
    Scenes <- FourScenes
    Selections <- Chosen
    MaxRuns = 2
INVARIANTS TracksBelongToTheirScene WholeCalls
PROPERTIES CallsReturn
CHECK_DEADLOCK FALSE
