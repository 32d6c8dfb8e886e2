SPECIFICATION StagesSpec
CONSTANTS
    FrameCounts <- Videos
    CutLists <- Cuts
    KeyframeCaps <- Caps
    SceneCounts <- ZeroToFive
    BatchSize = 2
    MaxRuns = 2
    Durations <- ProbedDurations
    Periods <- FramePeriods
    Differences <- FrameDifferences
    MaxFrames = 9
    MaxDensifyings = 2
    Labels <- Written
    Normal <- Stripped
    Blank = ""
    None = None
    Changes <- WindowChanges
    Answers <- ProposerAnswers
    Payloads <- GrounderPayloads
    ScoreTables <- LabelScores
    TrackLists <- EntityTracks
    Similarities <- LooksAlike
    Interpretations <- InterpreterAnswers
    Routes = {"VTA"}
    ImageSize = 20
    NoAnswer = NoAnswer
INVARIANTS ScenesPartitionVideo ScenesFollowCuts KeyframesSpread OneClient EveryScene
    CutsSummariseProposals WindowsPartitionVideo WindowsListTheirFrames
    SeedsCanBeExtracted LossesAreReported
    SourcesAreLinkedTracks SoundsFollowTheirSources CropsShowTheirTracks
CHECK_DEADLOCK FALSE
