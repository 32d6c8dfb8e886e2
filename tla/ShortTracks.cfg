SPECIFICATION EventsSpec
CONSTANTS
    Frames <- SixFrames
    Overlaps <- Shares
    MinShared = 2
    NoMask = NoMask
    Masks <- SixMasks
    MaxPoints = 6
    Diagonal = 20
    Scenes <- TwoScenes
    Shapes <- ShapesOfScene
    MaxFound = 2
    MaxIds = 4
    MaxBuilds = 2
    None = None
INVARIANTS DirectionAgrees
CHECK_DEADLOCK FALSE
