SPECIFICATION Spec
CONSTANTS
    mov = mov
    mp4 = mp4
    other = other
    clip = clip
    scene = scene
    Raws <- RawVideos
    Stems = {clip, scene}
    Stem <- StemOf
    Length <- LengthOf
    MaxCalls = 3
    Absent = Absent
    Unreadable = Unreadable
INVARIANTS AssetsAligned FaultlessCallsReturn
CHECK_DEADLOCK FALSE
