SPECIFICATION InspectAndReviewSpec
CONSTANTS
    Tracks = {t1}
    e1 = e1
    e2 = e2
    e3 = e3
    b1 = b1
    s1 = s1
    s2 = s2
    Events = {e1, e2, e3}
    Beds = {b1}
    Sources = {s1, s2}
    SourceOf <- Owner
    Groupings <- TwoGroups
    IssueIds = {i1}
    MaxEdits = 4
    clip = clip
    spaced = spaced
    broken = broken
    Files = {clip, broken}
    NameOf <- Names
    SafeName <- Letters
    Acceptable = {clip}
    Sessions = {a, b}
    Slots = 1
    MaxDirs = 4
    MaxRevisions = 2
    Nothing = Nothing
INVARIANTS DerivedFromCurrentTracks ResolutionIsEarned TraceTellsTheRun
    EveryEventInOneGroup DescriptionsTellTheirGroup
    SlotsAreAccountedFor ResultsAreOfTheVideo
PROPERTIES InspectionEnds
CHECK_DEADLOCK FALSE
