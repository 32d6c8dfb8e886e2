----------------------------- MODULE VideoStages -----------------------------
(***************************************************************************)
(* VideoStages: the stages that turn a prepared video into something to    *)
(* ask a model about.  Two are the live pipeline's, the split into scenes  *)
(* (InitialScenes) and their analysis (SceneAnalysis); three the retired   *)
(* one's, the windows (EvidenceWindows), what to look for in them          *)
(* (ProposalGrounding) and what was found (SourceIdentity).  A stage takes *)
(* what it needs as arguments and shares no state with another, so each is *)
(* run by itself, over inputs of its own.                                  *)
(***************************************************************************)
EXTENDS InitialScenes, SceneAnalysis, EvidenceWindows, ProposalGrounding, SourceIdentity

VARIABLE atWork  \* the stage that runs

stageVars == <<vars, analysisVars, windowVars, groundingVars, identityVars, atWork>>

NoScenes ==
    /\ frameCount = 0 /\ cuts = <<>> /\ next = 1 /\ scenes = <<>> /\ pc = "detect"
    /\ cap = 1 /\ keyframes = <<>> /\ selected = <<>> /\ index = 1

NoAnalysis ==
    /\ count = 0 /\ enabled = FALSE /\ client = "unset" /\ built = 0
    /\ runs = 0 /\ main = "idle" /\ from = 0 /\ step = <<>> /\ results = <<>>

NoWindows ==
    /\ duration = 0 /\ period = 1 /\ differences = <<>> /\ candidateCuts = <<>>
    /\ windows = <<>> /\ batches = <<>> /\ densifyings = 0 /\ stage = "cuts"

NoGrounding ==
    /\ changes = <<>> /\ window = 1 /\ regions = <<>> /\ proposals = <<>>
    /\ grounded = <<>> /\ lastError = FALSE /\ warnings = {} /\ vocabulary = {}
    /\ groundingStage = "regions"

NoIdentity ==
    /\ tracks = <<>> /\ similarity = <<>> /\ crops = <<>> /\ edges = {}
    /\ lookAlikes = <<>> /\ sources = <<>> /\ events = <<>> /\ beds = {}
    /\ groups = {} /\ routes = <<>> /\ identityStage = "crop"

StagesInit ==
    \/ atWork = "scenes"    /\ Init /\ NoAnalysis /\ NoWindows /\ NoGrounding /\ NoIdentity
    \/ atWork = "analysis"  /\ AnalysisInit /\ NoScenes /\ NoWindows /\ NoGrounding /\ NoIdentity
    \/ atWork = "windows"   /\ WindowInit /\ NoScenes /\ NoAnalysis /\ NoGrounding /\ NoIdentity
    \/ atWork = "grounding" /\ GroundingInit /\ NoScenes /\ NoAnalysis /\ NoWindows /\ NoIdentity
    \/ atWork = "identity"  /\ IdentityInit /\ NoScenes /\ NoAnalysis /\ NoWindows /\ NoGrounding

StagesNext ==
    \/ /\ atWork = "scenes" /\ Next
       /\ UNCHANGED <<analysisVars, windowVars, groundingVars, identityVars, atWork>>
    \/ /\ atWork = "analysis" /\ AnalysisNext
       /\ UNCHANGED <<vars, windowVars, groundingVars, identityVars, atWork>>
    \/ /\ atWork = "windows" /\ WindowNext
       /\ UNCHANGED <<vars, analysisVars, groundingVars, identityVars, atWork>>
    \/ /\ atWork = "grounding" /\ GroundingNext
       /\ UNCHANGED <<vars, analysisVars, windowVars, identityVars, atWork>>
    \/ /\ atWork = "identity" /\ IdentityNext
       /\ UNCHANGED <<vars, analysisVars, windowVars, groundingVars, atWork>>

StagesSpec == StagesInit /\ [][StagesNext]_stageVars
=============================================================================
