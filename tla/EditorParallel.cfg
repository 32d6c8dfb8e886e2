SPECIFICATION Spec
CONSTANTS
    None = None
    SourceIds = {s1, s2}
    EventIds = {e1}
    Objects = {}
    FrameCount = 1
    Callers = {c1, c2}
    MaxWriters = 2
    Loaded <- Saved
SYMMETRY Symmetry
INVARIANTS TimelineConsistent
