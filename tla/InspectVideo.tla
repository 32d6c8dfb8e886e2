---------------------------- MODULE InspectVideo ----------------------------
(***************************************************************************)
(* InspectVideo: one run of the retired pipeline (old/).  Stages fill the  *)
(* state of the inspection, each from what the stages before have left;    *)
(* then, in agentic mode, a planner looks for issues in an interim bundle, *)
(* a judge may accept an issue or pick the tool against it, the tool runs  *)
(* and the stages it invalidates run again, three times at most.  The run  *)
(* ends with a final bundle or with the exception of a stage.              *)
(*                                                                         *)
(* Models and the inference server are external: a stage may find anything *)
(* that its input allows, or raise.  Data is what the stages tell apart:   *)
(* tracks, which of them have crops, embeddings, labels and sources, and   *)
(* how many frames a window was sampled with.                              *)
(***************************************************************************)
EXTENDS Integers, Sequences, FiniteSets

CONSTANT Tracks  \* the tracks an extraction may find

\* run_agentic_tool_loop(max_actions), RetryBudget.foreground_recovery_limit
MaxActions == 3
RetryLimit == 3

VARIABLES mode,       \* options.pipeline_mode
          lasting,    \* the video is longer than a second
          at,         \* the stage that runs next
          state,      \* InspectState
          issues,     \* planner_state.issues: id -> attempts and status
          chosen,     \* the issue the planner's action is about
          decisions,  \* agent_review_decisions
          trace,      \* the agent's trace file
          actions,    \* actions_run
          judged,     \* the judge has not failed yet
          bundle,     \* multitrack_bundle
          disk        \* bundle.json in the run directory

loopVars == <<issues, chosen, decisions, trace, actions, judged>>
runVars == <<mode, lasting, at, state, loopVars, bundle, disk>>

Missing == [kind |-> "none"]

EmptyState ==
    [frames |-> 0, windows |-> 0, proposed |-> FALSE,
     seeds |-> FALSE, uncertain |-> FALSE,
     tracks |-> {}, crops |-> {}, embeddings |-> {}, labels |-> {},
     sources |-> {}, rich |-> FALSE, beds |-> FALSE, groups |-> FALSE,
     recovery |-> <<>>, terminal |-> "none"]

InspectInit ==
    /\ mode \in {"tool_first_foundation", "agentic_tool_first"}
    /\ lasting \in BOOLEAN
    /\ at = "overview"
    /\ state = EmptyState
    /\ issues = <<>> /\ chosen = "none"
    /\ decisions = <<>> /\ trace = <<>>
    /\ actions = 0 /\ judged = TRUE
    /\ bundle = Missing /\ disk = Missing

-----------------------------------------------------------------------------
(***************************************************************************)
(* The stages of _run_tool_first_pipeline.  The agent's rebuilds run them  *)
(* again, from the proposals or from the crops on.                         *)
(***************************************************************************)
\* A stage has its place in the order and writes nothing but the state.
Stage(from, to, next) ==
    /\ at = from
    /\ state' = next
    /\ at' = to
    /\ UNCHANGED <<mode, lasting, loopVars, bundle, disk>>

StructuralOverview ==
    Stage("overview", "propose", [state EXCEPT !.frames = 2, !.windows = 2])

ProposeSourceHypotheses ==
    \E p \in BOOLEAN : Stage("propose", "verify", [state EXCEPT !.proposed = p])

\* Without a proposal nothing is verified, seeded or left open.
VerifySceneHypotheses ==
    \E s, u \in IF state.proposed THEN BOOLEAN ELSE {FALSE} :
        Stage("verify", "extract", [state EXCEPT !.seeds = s, !.uncertain = u])

ExtractEntities ==
    \E found \in SUBSET Tracks : Stage("extract", "crop", [state EXCEPT !.tracks = found])

\* A track whose frame cannot be read has no crop.
CropTracks ==
    \E cropped \in SUBSET state.tracks :
        Stage("crop", "embed", [state EXCEPT !.crops = cropped])

\* Mutant: without a crop the embeddings of the stage's last run are kept.
EmbedTrackCropsIfAny ==
    Stage("embed", "label",
          [state EXCEPT !.embeddings = IF state.crops # {} THEN state.crops ELSE @])

EmbedTrackCrops ==
    Stage("embed", "label", [state EXCEPT !.embeddings = state.crops])

\* Without a phrase of a proposal there is no label to score.
ScoreTrackLabels ==
    Stage("label", "refine",
          [state EXCEPT !.labels = IF state.proposed THEN state.crops ELSE {}])

RefineCandidateCuts ==
    Stage("refine", "semantics", [state EXCEPT !.windows = state.frames])

\* Every track belongs to a source; events and beds come from sources, and
\* groups from both.
BuildSourceSemantics ==
    \E r, b, e \in IF state.tracks = {} THEN {FALSE} ELSE BOOLEAN :
        Stage("semantics", IF actions = 0 /\ chosen = "none" THEN "bundle" ELSE "decide",
              [state EXCEPT !.sources = state.tracks, !.rich = r, !.beds = b, !.groups = b \/ e])

\* An exception that nothing catches: what the run knew is gone, its files stay.
Raise ==
    /\ at' = "raised"
    /\ state' = EmptyState
    /\ issues' = <<>> /\ chosen' = "none" /\ decisions' = <<>>
    /\ actions' = 0 /\ judged' = TRUE
    /\ bundle' = Missing
    /\ UNCHANGED <<mode, lasting, trace, disk>>

\* The writer of descriptions, at "bundle", is as free to raise as the stages are.
StageRaises ==
    /\ at \in {"overview", "propose", "verify", "extract", "crop", "embed", "label",
               "refine", "semantics", "bundle"}
    /\ Raise

-----------------------------------------------------------------------------
(***************************************************************************)
(* Bundles.                                                                *)
(***************************************************************************)
\* An interim bundle has only groups with a description, and no stage writes one.
BundleOf(st, kind) ==
    [kind |-> kind, sources |-> st.sources, beds |-> st.beds,
     groups |-> st.groups /\ kind = "final", resolution |-> st.terminal]

\* The code asks besides that the beds cover .85 of the video.  That is left out: a
\* bed is made of a source, so no bundle gets past the first test to the last.
LooksLikeAcceptedAmbienceOnly(b) == b.sources = {} /\ b.beds /\ b.groups

\* validate_bundle, then the outcome of the recovery.
Issues(b) ==
    (IF b.groups THEN {} ELSE {"empty_generation_groups"})
    \cup (IF /\ b.resolution = "accepted_ambience_only"
             /\ LooksLikeAcceptedAmbienceOnly(b)
          THEN {"accepted_ambience_only"} ELSE {})
    \cup (IF b.resolution = "recovery_exhausted" /\ b.sources = {}
          THEN {"recovery_exhausted"} ELSE {})

BuildBundle(st, kind) ==
    [kind |-> kind, sources |-> st.sources, resolution |-> st.terminal,
     validation |-> Issues(BundleOf(st, kind))]

\* The end of _run_tool_first_pipeline: the file is written in both modes.
PersistFirstBundle ==
    /\ at = "bundle"
    /\ bundle' = BuildBundle(state, IF mode = "agentic_tool_first" THEN "interim" ELSE "final")
    /\ disk' = bundle'
    /\ at' = IF mode = "agentic_tool_first" THEN "begin" ELSE "return"
    /\ UNCHANGED <<mode, lasting, state, loopVars>>

\* run_local_inspect_raw adds what it knows of the server and writes the file again.
Return ==
    /\ at = "return"
    /\ disk' = bundle
    /\ at' = "returned"
    /\ UNCHANGED <<mode, lasting, state, loopVars, bundle>>

-----------------------------------------------------------------------------
(***************************************************************************)
(* The agent.                                                              *)
(***************************************************************************)
\* _build_issues.  The others it knows need windows, sources or described groups
\* missing from an interim bundle in a way that no stage leaves behind.
CurrentIssues(st) ==
    (IF lasting /\ st.tracks = {} THEN {"foreground_collapse"} ELSE {})
    \cup (IF st.uncertain /\ ~st.rich THEN {"hypothesis_conflict"} ELSE {})

\* An issue that was there before keeps its attempts and its status.
Refresh(old, latest) ==
    [i \in latest |-> IF i \in DOMAIN old THEN old[i] ELSE [attempts |-> 0, status |-> "open"]]

BeginLoop ==
    /\ at = "begin"
    /\ issues' = Refresh(issues, CurrentIssues(state))
    /\ at' = "plan"
    /\ UNCHANGED <<mode, lasting, state, chosen, decisions, trace, actions, judged, bundle, disk>>

Retryable == {i \in DOMAIN issues : issues[i].status = "open" /\ issues[i].attempts < RetryLimit}

\* plan_next_action takes the open issue of the highest priority.
NextIssue ==
    IF "foreground_collapse" \in Retryable THEN "foreground_collapse" ELSE "hypothesis_conflict"

Plans == at = "plan" /\ actions < MaxActions /\ Retryable # {}

\* _tool_for_issue
PlannedTool(i) ==
    IF i = "hypothesis_conflict" THEN "propose_source_hypotheses"
    ELSE IF issues[i].attempts = 0 /\ state.frames < 6 THEN "densify_window_sampling"
    ELSE IF state.seeds THEN "extract_entities"
    ELSE "propose_source_hypotheses"

\* What the judge may pick, and what the payload of an issue lets run.
JudgeTools ==
    {"refine_candidate_cuts", "densify_window_sampling", "propose_source_hypotheses",
     "verify_scene_hypotheses", "extract_entities", "build_source_semantics",
     "rerun_description_writer", "validate_bundle"}

Runnable(i) ==
    {"propose_source_hypotheses", "extract_entities",
     IF i = "foreground_collapse" THEN "densify_window_sampling" ELSE "verify_scene_hypotheses"}

Attempted(i) == [issues EXCEPT ![i].attempts = @ + 1]

\* Mutant: the agent's own trace does not get the decision.
AcceptIssueSilently ==
    LET i == NextIssue
        accepted == [state EXCEPT !.terminal =
                        IF i = "foreground_collapse" THEN "accepted_ambience_only" ELSE @]
    IN  /\ Plans /\ judged
        /\ state' = accepted
        /\ decisions' = Append(decisions, [issue |-> i, decision |-> "accept", by |-> "judge"])
        /\ issues' = Refresh([Attempted(i) EXCEPT ![i].status = "resolved"], CurrentIssues(accepted))
        /\ actions' = actions + 1
        /\ UNCHANGED <<mode, lasting, at, trace, chosen, judged, bundle, disk>>

\* The judge lets the bundle stand: run_agentic_tool_loop up to its continue.
AcceptIssue ==
    LET i == NextIssue
        accepted == [state EXCEPT !.terminal =
                        IF i = "foreground_collapse" THEN "accepted_ambience_only" ELSE @]
    IN  /\ Plans /\ judged
        /\ state' = accepted
        /\ decisions' = Append(decisions, [issue |-> i, decision |-> "accept", by |-> "judge"])
        /\ trace' = Append(trace, [kind |-> "decision", issue |-> i, what |-> "accept"])
        /\ issues' = Refresh([Attempted(i) EXCEPT ![i].status = "resolved"], CurrentIssues(accepted))
        /\ actions' = actions + 1
        /\ UNCHANGED <<mode, lasting, at, chosen, judged, bundle, disk>>

\* _apply_action_result.  What a new proposal or verification found is replaced
\* at once by the rebuild, which asks again.
Apply(tool) ==
    CASE tool = "densify_window_sampling" ->
            /\ state' = [state EXCEPT !.frames = @ + 2, !.windows = state.frames + 2,
                                      !.recovery = Append(@, tool)]
            /\ at' = "propose"
      [] tool = "propose_source_hypotheses" ->
            /\ state' = [state EXCEPT !.recovery = Append(@, tool)]
            /\ at' = "propose"
      [] tool = "verify_scene_hypotheses" -> at' = "propose" /\ UNCHANGED state
      [] tool = "extract_entities" ->
            /\ \E found \in SUBSET Tracks :
                 state' = [state EXCEPT !.tracks = @ \cup found, !.recovery = Append(@, tool)]
            /\ at' = "crop"

\* The planned tool, or the one the judge picks; a judge that fails is not asked
\* again.
PickedTools(i) == {PlannedTool(i)} \cup (IF judged THEN JudgeTools ELSE {})

RunTool ==
    LET i == NextIssue
    IN  /\ Plans
        /\ \E tool \in PickedTools(i) \cap Runnable(i) :
             /\ judged' \in (IF tool = PlannedTool(i) THEN {FALSE, judged} ELSE {judged})
             /\ Apply(tool)
             /\ trace' = Append(trace, [kind |-> "call", issue |-> i, what |-> tool])
        /\ chosen' = i
        /\ issues' = Attempted(i)
        /\ UNCHANGED <<mode, lasting, decisions, actions, bundle, disk>>

\* The payload lacks an argument of the tool the judge picked, or the tool raises.
ToolRaises == Plans /\ Raise

\* Mutant: an acceptance stands whatever the tools that follow bring.
AfterDecisionAccepted(terminal, decision) == terminal

\* A decision to go on takes an acceptance back.
AfterDecision(terminal, decision) ==
    IF decision = "retry" /\ terminal = "accepted_ambience_only" THEN "none" ELSE terminal

\* The stages are done: the issue is gone, or it is still there.
Decide ==
    LET decision == IF chosen \in CurrentIssues(state) THEN "retry" ELSE "accept"
    IN  /\ at = "decide"
        /\ bundle' = BuildBundle(state, "interim")
        /\ state' = [state EXCEPT !.terminal = AfterDecision(@, decision)]
        /\ decisions' = Append(decisions, [issue |-> chosen, decision |-> decision, by |-> "tool"])
        /\ trace' = Append(trace, [kind |-> "decision", issue |-> chosen, what |-> decision])
        /\ issues' = Refresh(issues, CurrentIssues(state))
        /\ actions' = actions + 1
        /\ chosen' = "none"
        /\ at' = "plan"
        /\ UNCHANGED <<mode, lasting, judged, disk>>

\* _finalize_terminal_resolution
FinalResolution ==
    IF state.terminal = "accepted_ambience_only" THEN state.terminal
    ELSE IF \E i \in DOMAIN issues \cap {"foreground_collapse"} :
              issues[i].status = "open" /\ issues[i].attempts >= RetryLimit
    THEN "recovery_exhausted"
    ELSE "none"

\* Mutant: nothing ends the loop when there is nothing left to plan.
EndLoopAfterAllActions ==
    /\ at = "plan" /\ actions = MaxActions
    /\ state' = [state EXCEPT !.terminal = FinalResolution]
    /\ bundle' = BuildBundle(state', "final")
    /\ at' = "persist"
    /\ UNCHANGED <<mode, lasting, loopVars, disk>>

\* The writer may raise too.
EndLoop ==
    /\ at = "plan" /\ ~Plans
    /\ \/ /\ state' = [state EXCEPT !.terminal = FinalResolution]
          /\ bundle' = BuildBundle(state', "final")
          /\ at' = "persist"
          /\ UNCHANGED <<mode, lasting, loopVars, disk>>
       \/ Raise

\* The end of _run_agentic_tool_first_pipeline.
PersistFinalBundle ==
    /\ at = "persist"
    /\ disk' = bundle
    /\ at' = "return"
    /\ UNCHANGED <<mode, lasting, state, loopVars, bundle>>

InspectNext ==
    \/ StructuralOverview \/ ProposeSourceHypotheses \/ VerifySceneHypotheses
    \/ ExtractEntities \/ CropTracks \/ EmbedTrackCrops \/ ScoreTrackLabels
    \/ RefineCandidateCuts \/ BuildSourceSemantics \/ StageRaises
    \/ PersistFirstBundle \/ Return
    \/ BeginLoop \/ AcceptIssue \/ RunTool \/ ToolRaises \/ Decide \/ EndLoop
    \/ PersistFinalBundle

\* One thread runs it all.
InspectSpec == InspectInit /\ [][InspectNext]_runVars /\ WF_runVars(InspectNext)

-----------------------------------------------------------------------------
(***************************************************************************)
(* Properties.                                                             *)
(***************************************************************************)
\* Between two actions of the agent, and in the final bundle, all that is derived
\* is derived from the tracks and frames there are now: whichever tool ran, no
\* stage whose input it changed was passed over, and none kept an older result
\* because there was nothing to do.
DerivedFromCurrentTracks ==
    at \in {"plan", "decide", "persist", "return", "returned"} =>
        /\ state.embeddings = state.crops /\ state.crops \subseteq state.tracks
        /\ state.labels \subseteq state.crops
        /\ state.sources = state.tracks
        /\ state.windows = state.frames
        /\ at \in {"persist", "return", "returned"} => bundle.sources = state.tracks

\* The decisions to try the foreground once more.
Retried ==
    {k \in DOMAIN decisions : /\ decisions[k].issue = "foreground_collapse"
                              /\ decisions[k].decision = "retry"}

\* A judge let the foreground stand, and no later decision went on.
AcceptedByJudge ==
    \E k \in DOMAIN decisions :
        /\ decisions[k].issue = "foreground_collapse" /\ decisions[k].by = "judge"
        /\ \A j \in k..Len(decisions) : decisions[j].decision # "retry"

\* The outcome of the recovery that a run publishes, in the file its caller finds,
\* is earned.  Exhausted: the foreground was tried three times, each time in vain,
\* and nobody accepted it.  Accepted: a judge has said so, and no later decision
\* went on.  A run that raises leaves no final bundle to be taken for a result.
ResolutionIsEarned ==
    /\ at = "raised" => disk.kind # "final"
    /\ at = "returned" =>
            /\ disk.kind = "final"
            /\ disk.resolution = "recovery_exhausted" <=> Cardinality(Retried) = RetryLimit
            /\ "recovery_exhausted" \in disk.validation <=> Cardinality(Retried) = RetryLimit
            /\ disk.resolution = "accepted_ambience_only" => AcceptedByJudge

\* The ways to number the lines of a set from 1 to n in their order: one or none.
Numberings(lines, n) ==
    {line \in [1..n -> lines] : /\ \A j, k \in 1..n : j < k => line[j] < line[k]
                                /\ \A l \in lines : \E k \in 1..n : line[k] = l}

DecisionLines == {l \in DOMAIN trace : trace[l].kind = "decision"}
RecoveryLines ==
    {l \in DOMAIN trace : trace[l].kind = "call" /\ trace[l].what # "verify_scene_hypotheses"}

\* The trace file can be replayed: it has the decisions of the state in their
\* order, a decision of a tool comes right after the call, and its calls are the
\* recovery actions of the bundle.
TraceTellsTheRun ==
    at # "raised" =>
        /\ Len(decisions) = actions
        /\ \E line \in Numberings(DecisionLines, Len(decisions)) :
              \A k \in DOMAIN decisions : /\ trace[line[k]].issue = decisions[k].issue
                                          /\ trace[line[k]].what = decisions[k].decision
        /\ \E line \in Numberings(RecoveryLines, Len(state.recovery)) :
              \A k \in DOMAIN state.recovery : trace[line[k]].what = state.recovery[k]
        /\ \A l \in 1..(Len(trace) - 1) :
              trace[l].kind = "call" =>
                  trace[l + 1].kind = "decision" /\ trace[l + 1].issue = trace[l].issue

\* A run ends, whatever the judge says and the tools find.
InspectionEnds == at = "overview" ~> at \in {"returned", "raised"}
=============================================================================
