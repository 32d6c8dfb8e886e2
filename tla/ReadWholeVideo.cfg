SPECIFICATION Spec
CONSTANTS
    FrameCount = 4
    SceneLists <- Lists
    EventSets <- Sets
    PageLimit = 2
    EventLimit = 2
    None = None
INVARIANTS EveryEventSeen 
