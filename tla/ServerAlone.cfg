SPECIFICATION ServerSpec
CONSTANTS
    None = None
    FrameCount = 3
    Prompts = {p}
    Propagations <- Found
    Requests <- AnyRequest
    MaxRequests = 2
    MaxCrashes = 1
INVARIANTS IdleHoldsNothing
PROPERTIES RequestsAreHandled
CHECK_DEADLOCK FALSE
