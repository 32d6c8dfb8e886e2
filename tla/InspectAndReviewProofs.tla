----------------------- MODULE InspectAndReviewProofs -----------------------
(***************************************************************************)
(* Proofs about the retired pipeline from a user's side.  For any tracks,  *)
(* what a run derives is derived from the tracks there are, the outcome it *)
(* publishes is earned and the trace file tells the run.  For any events,  *)
(* sources and first groups, and for any number and order of edits, every  *)
(* event stays in exactly one group, and a description that is not marked  *)
(* stale tells its group.  For any number of sessions, files, slots and    *)
(* temporary directories, slots are neither lost nor given twice, and a    *)
(* result belongs to the video of its session and is the file in its       *)
(* directory.                                                              *)
(***************************************************************************)
EXTENDS InspectVideo, BundleReview, ReviewSessions, TLAPS, FiniteSetTheorems

-----------------------------------------------------------------------------
(***************************************************************************)
(* Types.                                                                  *)
(***************************************************************************)
Stages == {"overview", "propose", "verify", "extract", "crop", "embed", "label",
           "refine", "semantics"}
Loop == {"plan", "decide"}
Ends == {"persist", "return", "returned"}
IssueNames == {"foreground_collapse", "hypothesis_conflict"}
Terminals == {"none", "accepted_ambience_only", "recovery_exhausted"}

StateRecord ==
    [frames : Nat, windows : Nat, proposed : BOOLEAN,
     seeds : BOOLEAN, uncertain : BOOLEAN,
     tracks : SUBSET Tracks, crops : SUBSET Tracks, embeddings : SUBSET Tracks,
     labels : SUBSET Tracks, sources : SUBSET Tracks,
     rich : BOOLEAN, beds : BOOLEAN, groups : BOOLEAN,
     recovery : Seq(JudgeTools), terminal : Terminals]

IssueRecord == [attempts : Nat, status : {"open", "resolved"}]
Verdicts == {"accept", "retry"}
DecisionRecord == [issue : IssueNames, decision : Verdicts, by : {"judge", "tool"}]
LineRecord == [kind : {"call", "decision"}, issue : IssueNames, what : JudgeTools \cup Verdicts]

InspectTypeOK ==
    /\ at \in Stages \cup {"bundle", "begin", "raised"} \cup Loop \cup Ends
    /\ state \in StateRecord
    /\ DOMAIN issues \subseteq IssueNames
    /\ issues \in [DOMAIN issues -> IssueRecord]
    /\ chosen \in IssueNames \cup {"none"}
    /\ decisions \in Seq(DecisionRecord)
    /\ trace \in Seq(LineRecord)
    /\ actions \in 0..MaxActions
    /\ Len(decisions) = actions

-----------------------------------------------------------------------------
(***************************************************************************)
(* Invariants.                                                             *)
(***************************************************************************)
\* Where the loop is: the first pass has no issue and no action behind it, and an
\* issue is chosen from the call of its tool to the decision about it.
FlowInv ==
    /\ at \in Stages \cup {"bundle", "begin"} /\ chosen = "none" =>
            actions = 0 /\ DOMAIN issues = {}
    /\ at \in {"bundle", "begin", "plan"} \cup Ends => chosen = "none"
    /\ at = "decide" => chosen # "none"
    /\ chosen # "none" => /\ at \in Stages \cup {"decide"}
                          /\ actions < MaxActions
                          /\ chosen \in DOMAIN issues

\* What each stage relies on of the ones before: from the stage after theirs on
\* the crops, embeddings, labels, windows and sources are up to date.
DerivedInv ==
    /\ at \in {"embed", "label", "refine", "semantics", "bundle", "begin"} \cup Loop \cup Ends =>
            state.crops \subseteq state.tracks
    /\ at \in {"label", "refine", "semantics", "bundle", "begin"} \cup Loop \cup Ends =>
            state.embeddings = state.crops
    /\ at \in {"refine", "semantics", "bundle", "begin"} \cup Loop \cup Ends =>
            state.labels \subseteq state.crops
    /\ at \in {"semantics", "bundle", "begin"} \cup Loop \cup Ends =>
            state.windows = state.frames
    /\ at \in {"bundle", "begin"} \cup Loop \cup Ends => state.sources = state.tracks
    /\ at \in Ends => bundle.sources = state.tracks

\* The attempts at an issue are the actions so far, and the one under way, at most.
Ahead(i) == IF chosen = i THEN 1 ELSE 0
AlwaysTried(i) ==
    /\ i \in DOMAIN issues
    /\ issues[i].status = "open" /\ issues[i].attempts = actions + Ahead(i)

RetriesForeground(d) == d.issue = "foreground_collapse" /\ d.decision = "retry"
AllRetry == \A k \in DOMAIN decisions : RetriesForeground(decisions[k])

\* What the outcome hangs on: the foreground is open with an attempt in every
\* action if and only if every decision is to try it once more, an acceptance
\* stands on a judge's decision, and a bundle is final at the end only.
RetriesInv ==
    /\ \A i \in DOMAIN issues : issues[i].attempts <= actions + Ahead(i)
    /\ AlwaysTried("foreground_collapse") => AllRetry
    /\ AllRetry /\ (actions > 0 \/ chosen = "foreground_collapse") =>
            /\ AlwaysTried("foreground_collapse")
            /\ state.terminal # "accepted_ambience_only"
    /\ actions = 0 /\ at \notin Ends => state.terminal = "none"
    /\ at \notin Ends => state.terminal # "recovery_exhausted"
    /\ state.terminal = "accepted_ambience_only" => AcceptedByJudge
    /\ at = "plan" /\ "foreground_collapse" \in DOMAIN issues => state.tracks = {}

\* A bundle with an earned outcome.
Earned(b) ==
    /\ b.kind = "final"
    /\ b.resolution = "recovery_exhausted" <=> Cardinality(Retried) = RetryLimit
    /\ "recovery_exhausted" \in b.validation <=> Cardinality(Retried) = RetryLimit
    /\ b.resolution = "accepted_ambience_only" => AcceptedByJudge

PublishedInv ==
    /\ at \in Ends => Earned(bundle)
    /\ at = "returned" => disk = bundle
    /\ at \notin {"return", "returned"} => disk.kind # "final"

\* The trace between two steps: a call is the last line if and only if its
\* decision is still to come.
TraceInv ==
    /\ TraceTellsTheRun
    /\ at # "raised" =>
            IF chosen = "none"
            THEN trace # <<>> => trace[Len(trace)].kind = "decision"
            ELSE /\ trace # <<>> /\ trace[Len(trace)].kind = "call"
                 /\ trace[Len(trace)].issue = chosen

InspectInv == InspectTypeOK /\ FlowInv /\ DerivedInv /\ RetriesInv /\ PublishedInv /\ TraceInv

LEMMA InitInspectInv == ASSUME InspectInit PROVE InspectInv
<1> USE DEF InspectInit
<1>1. InspectTypeOK
  BY DEF InspectTypeOK, EmptyState, StateRecord, Stages, Terminals, IssueNames, IssueRecord,
         DecisionRecord, LineRecord, MaxActions
<1>2. FlowInv /\ DerivedInv
  BY DEF FlowInv, DerivedInv, Stages, Loop, Ends
<1>3. RetriesInv /\ PublishedInv
  BY DEF RetriesInv, PublishedInv, AlwaysTried, Ahead, EmptyState, Ends, Missing
<1>4. TraceInv
  <2>1. DecisionLines = {} /\ RecoveryLines = {}
    BY DEF DecisionLines, RecoveryLines
  <2>2. <<>> \in Numberings({}, 0)
    BY DEF Numberings
  <2> QED  BY <2>1, <2>2 DEF TraceInv, TraceTellsTheRun, EmptyState
<1> QED
  BY <1>1, <1>2, <1>3, <1>4 DEF InspectInv

-----------------------------------------------------------------------------
(***************************************************************************)
(* The stages.                                                             *)
(***************************************************************************)
StageStep ==
    \/ StructuralOverview \/ ProposeSourceHypotheses \/ VerifySceneHypotheses
    \/ ExtractEntities \/ CropTracks \/ EmbedTrackCrops \/ ScoreTrackLabels
    \/ RefineCandidateCuts \/ BuildSourceSemantics

\* What the loop sees of a stage: the next place, and a state of the same outcome
\* and recovery.
StageEffect ==
    /\ at \in Stages /\ at' \in Stages \cup {"bundle", "decide"}
    /\ at' = "bundle" => actions = 0 /\ chosen = "none"
    /\ at' = "decide" => actions # 0 \/ chosen # "none"
    /\ state' \in StateRecord
    /\ state'.terminal = state.terminal /\ state'.recovery = state.recovery
    /\ UNCHANGED <<loopVars, bundle, disk>>

LEMMA StageSteps == ASSUME InspectTypeOK, StageStep PROVE StageEffect
<1> state \in StateRecord
  BY DEF InspectTypeOK
<1> USE DEF Stage, StageEffect, Stages, StateRecord
<1>1. CASE StructuralOverview BY <1>1 DEF StructuralOverview
<1>2. CASE ProposeSourceHypotheses BY <1>2 DEF ProposeSourceHypotheses
<1>3. CASE VerifySceneHypotheses
  <2>1. PICK s \in BOOLEAN, u \in BOOLEAN :
            Stage("verify", "extract", [state EXCEPT !.seeds = s, !.uncertain = u])
    <3> DEFINE open == IF state.proposed THEN BOOLEAN ELSE {FALSE}
    <3>1. \E s, u \in open :
              Stage("verify", "extract", [state EXCEPT !.seeds = s, !.uncertain = u])
      BY <1>3 DEF VerifySceneHypotheses
    <3>2. open \subseteq BOOLEAN
      OBVIOUS
    <3> HIDE DEF open, Stage
    <3> QED  BY <3>1, <3>2
  <2> QED  BY <2>1
<1>4. CASE ExtractEntities BY <1>4 DEF ExtractEntities
<1>5. CASE CropTracks BY <1>5 DEF CropTracks
<1>6. CASE EmbedTrackCrops BY <1>6 DEF EmbedTrackCrops
<1>7. CASE ScoreTrackLabels BY <1>7 DEF ScoreTrackLabels
<1>8. CASE RefineCandidateCuts BY <1>8 DEF RefineCandidateCuts
<1>9. CASE BuildSourceSemantics
  <2>1. PICK r \in BOOLEAN, b \in BOOLEAN, e \in BOOLEAN :
            Stage("semantics", IF actions = 0 /\ chosen = "none" THEN "bundle" ELSE "decide",
                  [state EXCEPT !.sources = state.tracks, !.rich = r, !.beds = b,
                                !.groups = b \/ e])
    BY <1>9 DEF BuildSourceSemantics
  <2> PICK g \in BOOLEAN : g = (b \/ e)
    OBVIOUS
  <2> QED  BY <2>1
<1> QED
  BY <1>1, <1>2, <1>3, <1>4, <1>5, <1>6, <1>7, <1>8, <1>9 DEF StageStep

\* Every stage brings up to date what it is there for and leaves the rest.
LEMMA StagesDerive == ASSUME InspectTypeOK, DerivedInv, StageStep PROVE DerivedInv'
<1> state \in StateRecord
  BY DEF InspectTypeOK
<1> USE DEF Stage, DerivedInv, StateRecord, Loop, Ends
<1>1. CASE StructuralOverview BY <1>1 DEF StructuralOverview
<1>2. CASE ProposeSourceHypotheses BY <1>2 DEF ProposeSourceHypotheses
<1>3. CASE VerifySceneHypotheses
  <2>1. PICK s \in BOOLEAN, u \in BOOLEAN :
            Stage("verify", "extract", [state EXCEPT !.seeds = s, !.uncertain = u])
    <3> DEFINE open == IF state.proposed THEN BOOLEAN ELSE {FALSE}
    <3>1. \E s, u \in open :
              Stage("verify", "extract", [state EXCEPT !.seeds = s, !.uncertain = u])
      BY <1>3 DEF VerifySceneHypotheses
    <3>2. open \subseteq BOOLEAN
      OBVIOUS
    <3> HIDE DEF open, Stage
    <3> QED  BY <3>1, <3>2
  <2> QED  BY <2>1
<1>4. CASE ExtractEntities BY <1>4 DEF ExtractEntities
<1>5. CASE CropTracks BY <1>5 DEF CropTracks
<1>6. CASE EmbedTrackCrops BY <1>6 DEF EmbedTrackCrops
<1>7. CASE ScoreTrackLabels BY <1>7 DEF ScoreTrackLabels
<1>8. CASE RefineCandidateCuts BY <1>8 DEF RefineCandidateCuts
<1>9. CASE BuildSourceSemantics
  <2>1. PICK r \in BOOLEAN, b \in BOOLEAN, e \in BOOLEAN :
            Stage("semantics", IF actions = 0 /\ chosen = "none" THEN "bundle" ELSE "decide",
                  [state EXCEPT !.sources = state.tracks, !.rich = r, !.beds = b,
                                !.groups = b \/ e])
    BY <1>9 DEF BuildSourceSemantics
  <2> PICK g \in BOOLEAN : g = (b \/ e)
    OBVIOUS
  <2> QED  BY <2>1
<1> QED
  BY <1>1, <1>2, <1>3, <1>4, <1>5, <1>6, <1>7, <1>8, <1>9 DEF StageStep

\* A step that neither calls nor decides.
LEMMA TraceStands ==
    ASSUME TraceInv, at # "raised", UNCHANGED <<chosen, decisions, trace, actions>>,
           state'.recovery = state.recovery
    PROVE  TraceInv'
<1>1. DecisionLines' = DecisionLines /\ RecoveryLines' = RecoveryLines
  BY DEF DecisionLines, RecoveryLines
<1> QED
  BY <1>1 DEF TraceInv, TraceTellsTheRun

LEMMA StagesKeep == ASSUME InspectInv, StageStep PROVE InspectInv'
<1>1. StageEffect
  BY StageSteps DEF InspectInv
<1> USE <1>1 DEF InspectInv, StageEffect, loopVars
<1>2. InspectTypeOK'
  BY DEF InspectTypeOK, Loop
<1>3. FlowInv'
  BY DEF FlowInv, Stages, Ends
<1>4. DerivedInv'
  BY StagesDerive
<1>5. RetriesInv'
  <2>1. AllRetry' = AllRetry /\ AcceptedByJudge' = AcceptedByJudge
    BY DEF AllRetry, AcceptedByJudge
  <2>2. AlwaysTried("foreground_collapse")' = AlwaysTried("foreground_collapse")
    BY DEF AlwaysTried, Ahead
  <2> QED  BY <2>1, <2>2 DEF RetriesInv, Stages, Ends, Ahead
<1>6. PublishedInv'
  BY DEF PublishedInv, Stages, Ends
<1>7. TraceInv'
  BY TraceStands DEF Stages
<1> QED
  BY <1>2, <1>3, <1>4, <1>5, <1>6, <1>7

-----------------------------------------------------------------------------
(***************************************************************************)
(* Ends, of the run and of its first pass.                                 *)
(***************************************************************************)
\* What a run that raises forgets is true of nothing, and it leaves no result.
LEMMA RaiseKeeps ==
    ASSUME InspectInv, Raise, at \in Stages \cup {"bundle", "plan"} PROVE InspectInv'
<1> USE DEF InspectInv, Raise
<1>1. InspectTypeOK'
  BY DEF InspectTypeOK, EmptyState, StateRecord, Terminals, IssueNames, IssueRecord,
         DecisionRecord, LineRecord, MaxActions
<1>2. FlowInv' /\ DerivedInv'
  BY DEF FlowInv, DerivedInv, Stages, Loop, Ends
<1>3. RetriesInv'
  BY DEF RetriesInv, AlwaysTried, Ahead, EmptyState, Ends
<1>4. PublishedInv'
  BY DEF PublishedInv, Stages, Ends
<1>5. TraceInv'
  BY DEF TraceInv, TraceTellsTheRun
<1> QED
  BY <1>1, <1>2, <1>3, <1>4, <1>5

\* What a bundle takes from the state.
LEMMA BundleTells ==
    ASSUME NEW st \in StateRecord, NEW kind \in {"interim", "final"}
    PROVE  LET b == BuildBundle(st, kind)
           IN  /\ b.kind = kind /\ b.sources = st.sources /\ b.resolution = st.terminal
               /\ "recovery_exhausted" \in b.validation <=>
                      st.terminal = "recovery_exhausted" /\ st.sources = {}
BY DEF BuildBundle, BundleOf, Issues

LEMMA NoneRetried == ASSUME decisions = <<>> PROVE Cardinality(Retried) # RetryLimit
<1>1. Retried = {}
  BY DEF Retried
<1> QED
  BY <1>1, FS_EmptySet DEF RetryLimit

LEMMA PersistFirstKeeps == ASSUME InspectInv, PersistFirstBundle PROVE InspectInv'
<1> USE DEF InspectInv, PersistFirstBundle, loopVars
<1> DEFINE kind == IF mode = "agentic_tool_first" THEN "interim" ELSE "final"
<1>1. InspectTypeOK'
  BY DEF InspectTypeOK, Ends
<1>2. /\ chosen = "none" /\ actions = 0 /\ decisions = <<>> /\ state \in StateRecord
      /\ state.terminal = "none"
  BY DEF InspectTypeOK, FlowInv, RetriesInv, Ends
<1>3. /\ bundle' = BuildBundle(state, kind) /\ kind \in {"interim", "final"}
      /\ disk' = bundle' /\ at' = IF kind = "interim" THEN "begin" ELSE "return"
  OBVIOUS
<1> HIDE DEF kind
<1>4. /\ bundle'.kind = kind /\ bundle'.sources = state.sources
      /\ bundle'.resolution = "none" /\ "recovery_exhausted" \notin bundle'.validation
  BY <1>2, <1>3, BundleTells
<1>5. FlowInv' /\ DerivedInv'
  BY <1>3, <1>4 DEF FlowInv, DerivedInv, Stages, Loop, Ends
<1>6. AllRetry' = AllRetry /\ AcceptedByJudge' = AcceptedByJudge /\ Retried' = Retried
  BY DEF AllRetry, AcceptedByJudge, Retried
<1>7. RetriesInv'
  BY <1>2, <1>3, <1>6 DEF RetriesInv, AlwaysTried, Ahead, Ends
<1>8. PublishedInv'
  BY <1>2, <1>3, <1>4, <1>6, NoneRetried DEF PublishedInv, Earned, Ends
<1>9. TraceInv'
  BY TraceStands
<1> QED
  BY <1>1, <1>5, <1>7, <1>8, <1>9

\* Writing the file changes no more than where the run is.
LEMMA WritingKeeps ==
    ASSUME InspectInv, Return \/ PersistFinalBundle PROVE InspectInv'
<1> USE DEF InspectInv, Return, PersistFinalBundle, loopVars
<1>1. InspectTypeOK'
  BY DEF InspectTypeOK, Ends
<1>2. FlowInv' /\ DerivedInv'
  BY DEF FlowInv, DerivedInv, Stages, Loop, Ends
<1>3. AllRetry' = AllRetry /\ AcceptedByJudge' = AcceptedByJudge /\ Retried' = Retried
  BY DEF AllRetry, AcceptedByJudge, Retried
<1>4. RetriesInv'
  BY <1>3 DEF RetriesInv, AlwaysTried, Ahead, Ends
<1>5. PublishedInv'
  BY <1>3 DEF PublishedInv, Earned, Ends
<1>6. TraceInv'
  BY TraceStands
<1> QED
  BY <1>1, <1>2, <1>4, <1>5, <1>6

-----------------------------------------------------------------------------
(***************************************************************************)
(* The issues.                                                             *)
(***************************************************************************)
LEMMA CurrentIssuesAre ==
    ASSUME NEW st \in StateRecord
    PROVE  /\ CurrentIssues(st) \subseteq IssueNames
           /\ "foreground_collapse" \in CurrentIssues(st) => st.tracks = {}
BY DEF CurrentIssues, IssueNames

\* The issues there are now, the old ones as they were.
RefreshOf(new, old, latest) ==
    /\ new \in [DOMAIN new -> IssueRecord] /\ DOMAIN new = latest
    /\ \A i \in latest : IF i \in DOMAIN old THEN new[i] = old[i]
                         ELSE new[i].attempts = 0 /\ new[i].status = "open"

LEMMA Refreshed ==
    ASSUME NEW old, NEW latest, latest \subseteq IssueNames, old \in [DOMAIN old -> IssueRecord]
    PROVE  RefreshOf(Refresh(old, latest), old, latest)
BY DEF Refresh, RefreshOf, IssueRecord

\* What the planner picks, and what the attempt does to it.
LEMMA PlanPicks ==
    ASSUME InspectInv, Plans
    PROVE  /\ at = "plan" /\ chosen = "none" /\ actions < MaxActions
           /\ NextIssue \in DOMAIN issues
           /\ issues[NextIssue].status = "open" /\ issues[NextIssue].attempts < RetryLimit
<1>1. at = "plan" /\ chosen = "none" /\ actions < MaxActions
  BY DEF Plans, InspectInv, FlowInv
<1>2. NextIssue \in Retryable
  BY DEF Plans, NextIssue, Retryable, InspectInv, InspectTypeOK, IssueNames
<1> QED
  BY <1>1, <1>2 DEF Retryable

LEMMA AttemptCounts ==
    ASSUME issues \in [DOMAIN issues -> IssueRecord], NEW i \in DOMAIN issues
    PROVE  /\ DOMAIN Attempted(i) = DOMAIN issues
           /\ Attempted(i) \in [DOMAIN issues -> IssueRecord]
           /\ Attempted(i)[i].attempts = issues[i].attempts + 1
           /\ Attempted(i)[i].status = issues[i].status
           /\ \A j \in DOMAIN issues \ {i} : Attempted(i)[j] = issues[j]
BY DEF Attempted, IssueRecord

LEMMA BeginKeeps == ASSUME InspectInv, BeginLoop PROVE InspectInv'
<1> USE DEF InspectInv, BeginLoop
<1>1. /\ chosen = "none" /\ actions = 0 /\ decisions = <<>> /\ state \in StateRecord
      /\ DOMAIN issues = {} /\ issues \in [DOMAIN issues -> IssueRecord]
  BY DEF InspectTypeOK, FlowInv, RetriesInv, Ends
<1>2. /\ issues' \in [DOMAIN issues' -> IssueRecord]
      /\ DOMAIN issues' = CurrentIssues(state) /\ CurrentIssues(state) \subseteq IssueNames
      /\ \A i \in DOMAIN issues' : issues'[i].attempts = 0 /\ issues'[i].status = "open"
  <2>1. CurrentIssues(state) \subseteq IssueNames
    BY <1>1, CurrentIssuesAre
  <2>2. RefreshOf(issues', issues, CurrentIssues(state))
    BY <1>1, <2>1, Refreshed
  <2> QED  BY <1>1, <2>1, <2>2 DEF RefreshOf
<1>3. InspectTypeOK'
  BY <1>2 DEF InspectTypeOK, Loop
<1>4. FlowInv' /\ DerivedInv'
  BY <1>1 DEF FlowInv, DerivedInv, Stages, Loop, Ends
<1>5. AllRetry' = AllRetry /\ AcceptedByJudge' = AcceptedByJudge /\ AllRetry
  BY <1>1 DEF AllRetry, AcceptedByJudge
<1>6. RetriesInv'
  BY <1>1, <1>2, <1>5, CurrentIssuesAre DEF RetriesInv, AlwaysTried, Ahead, Ends
<1>7. PublishedInv'
  BY DEF PublishedInv, Ends
<1>8. TraceInv'
  BY TraceStands
<1> QED
  BY <1>3, <1>4, <1>6, <1>7, <1>8

-----------------------------------------------------------------------------
(***************************************************************************)
(* Decisions and the lines of the trace.                                   *)
(***************************************************************************)
LEMMA NumberingExtends ==
    ASSUME NEW m \in Nat, NEW lines \in SUBSET (1..m), NEW n \in Nat,
           NEW line \in Numberings(lines, n)
    PROVE  [k \in 1..(n + 1) |-> IF k <= n THEN line[k] ELSE m + 1]
               \in Numberings(lines \cup {m + 1}, n + 1)
<1> DEFINE next == [k \in 1..(n + 1) |-> IF k <= n THEN line[k] ELSE m + 1]
<1>1. line \in [1..n -> lines] /\ \A j, k \in 1..n : j < k => line[j] < line[k]
  BY DEF Numberings
<1>2. \A l \in lines : \E k \in 1..n : line[k] = l
  BY DEF Numberings
<1>3. \A k \in 1..n : k \in 1..(n + 1) /\ next[k] = line[k] /\ line[k] \in 1..m
  <2> TAKE k \in 1..n
  <2>1. k \in 1..(n + 1) /\ k <= n
    OBVIOUS
  <2>2. line[k] \in lines
    BY <1>1
  <2> QED  BY <2>1, <2>2
<1>4. (n + 1) \in 1..(n + 1) /\ next[n + 1] = m + 1
  OBVIOUS
<1>5. \A k \in 1..(n + 1) : k \in 1..n \/ k = n + 1
  OBVIOUS
<1>6. next \in [1..(n + 1) -> lines \cup {m + 1}]
  BY <1>1
<1> HIDE DEF next
<1>7. \A j, k \in 1..(n + 1) : j < k => next[j] < next[k]
  <2> TAKE j, k \in 1..(n + 1)
  <2> HAVE j < k
  <2>1. j \in 1..n
    OBVIOUS
  <2>2. CASE k \in 1..n BY <1>1, <1>3, <2>1, <2>2
  <2>3. CASE k = n + 1 BY <1>3, <1>4, <2>1, <2>3
  <2> QED  BY <1>5, <2>2, <2>3
<1>8. \A l \in lines \cup {m + 1} : \E k \in 1..(n + 1) : next[k] = l
  BY <1>2, <1>3, <1>4
<1> QED
  BY <1>6, <1>7, <1>8 DEF Numberings, next

\* What one more decision does to what is said of all of them.
LEMMA DecisionAdded ==
    ASSUME decisions \in Seq(DecisionRecord), NEW d \in DecisionRecord,
           decisions' = Append(decisions, d)
    PROVE  /\ AllRetry' <=> AllRetry /\ RetriesForeground(d)
           /\ AcceptedByJudge /\ d.decision # "retry" => AcceptedByJudge'
           /\ (/\ d.issue = "foreground_collapse" /\ d.by = "judge"
               /\ d.decision # "retry") => AcceptedByJudge'
<1> DEFINE n == Len(decisions)
<1>1. n \in Nat /\ DOMAIN decisions = 1..n
  OBVIOUS
<1>2. /\ Len(decisions') = n + 1 /\ DOMAIN decisions' = 1..(n + 1)
      /\ decisions'[n + 1] = d
      /\ \A k \in 1..n : decisions'[k] = decisions[k]
  OBVIOUS
<1> HIDE DEF n
<1>3. \A k \in 1..(n + 1) : k \in 1..n \/ k = n + 1
  BY <1>1
<1>4. \A k \in 1..n : k \in 1..(n + 1)
  BY <1>1
<1>5. (n + 1) \in 1..(n + 1)
  BY <1>1
<1>6. AllRetry' <=> AllRetry /\ RetriesForeground(d)
  BY <1>1, <1>2, <1>3, <1>4, <1>5 DEF AllRetry
<1>7. ASSUME AcceptedByJudge, d.decision # "retry" PROVE AcceptedByJudge'
  <2>1. PICK k \in 1..n :
            /\ decisions[k].issue = "foreground_collapse" /\ decisions[k].by = "judge"
            /\ \A j \in k..n : decisions[j].decision # "retry"
    BY <1>1, <1>7 DEF AcceptedByJudge, n
  <2>2. \A j \in k..(n + 1) : decisions'[j].decision # "retry"
    <3> TAKE j \in k..(n + 1)
    <3>1. (j \in k..n /\ j \in 1..n) \/ j = n + 1
      BY <1>1
    <3> QED  BY <1>2, <1>7, <2>1, <3>1
  <2> QED  BY <1>2, <1>4, <2>1, <2>2 DEF AcceptedByJudge
<1>8. ASSUME d.issue = "foreground_collapse", d.by = "judge", d.decision # "retry"
      PROVE  AcceptedByJudge'
  <2>1. \A j \in (n + 1)..(n + 1) : decisions'[j].decision # "retry"
    BY <1>1, <1>2, <1>8
  <2> QED  BY <1>2, <1>5, <1>8, <2>1 DEF AcceptedByJudge
<1> QED
  BY <1>6, <1>7, <1>8

\* The lines of a kind after one more line.
LEMMA LineAdded ==
    ASSUME trace \in Seq(LineRecord), NEW l \in LineRecord, trace' = Append(trace, l)
    PROVE  /\ Len(trace) \in Nat /\ Len(trace') = Len(trace) + 1
           /\ trace' # <<>> /\ trace'[Len(trace')] = l
           /\ \A k \in 1..Len(trace) : trace'[k] = trace[k]
           /\ DecisionLines \subseteq 1..Len(trace) /\ RecoveryLines \subseteq 1..Len(trace)
           /\ DecisionLines' = DecisionLines \cup
                  (IF l.kind = "decision" THEN {Len(trace) + 1} ELSE {})
           /\ RecoveryLines' = RecoveryLines \cup
                  (IF l.kind = "call" /\ l.what # "verify_scene_hypotheses"
                   THEN {Len(trace) + 1} ELSE {})
<1> DEFINE m == Len(trace)
<1>1. m \in Nat /\ DOMAIN trace = 1..m
  OBVIOUS
<1>2. /\ Len(trace') = m + 1 /\ DOMAIN trace' = 1..(m + 1) /\ trace'[m + 1] = l
      /\ \A k \in 1..m : trace'[k] = trace[k]
  OBVIOUS
<1>3. trace' # <<>>
  BY <1>1, <1>2
<1> HIDE DEF m
<1>4. \A k \in 1..(m + 1) : k \in 1..m \/ k = m + 1
  BY <1>1
<1>5. (\A k \in 1..m : k \in 1..(m + 1)) /\ (m + 1) \in 1..(m + 1)
  BY <1>1
<1>6. DecisionLines' = DecisionLines \cup (IF l.kind = "decision" THEN {m + 1} ELSE {})
  BY <1>1, <1>2, <1>4, <1>5 DEF DecisionLines
<1>7. RecoveryLines' = RecoveryLines \cup
          (IF l.kind = "call" /\ l.what # "verify_scene_hypotheses" THEN {m + 1} ELSE {})
  BY <1>1, <1>2, <1>4, <1>5 DEF RecoveryLines
<1>8. DecisionLines \subseteq 1..m /\ RecoveryLines \subseteq 1..m
  BY <1>1 DEF DecisionLines, RecoveryLines
<1> QED
  BY <1>1, <1>2, <1>3, <1>6, <1>7, <1>8 DEF m

\* TraceTellsTheRun by its parts.
DecisionsTold ==
    \E line \in Numberings(DecisionLines, Len(decisions)) :
        \A k \in DOMAIN decisions : /\ trace[line[k]].issue = decisions[k].issue
                                    /\ trace[line[k]].what = decisions[k].decision
RecoveryTold ==
    \E line \in Numberings(RecoveryLines, Len(state.recovery)) :
        \A k \in DOMAIN state.recovery : trace[line[k]].what = state.recovery[k]
CallsAnswered ==
    \A l \in 1..(Len(trace) - 1) :
        trace[l].kind = "call" =>
            trace[l + 1].kind = "decision" /\ trace[l + 1].issue = trace[l].issue

LEMMA DecisionsStayTold ==
    ASSUME trace \in Seq(LineRecord), NEW l \in LineRecord, trace' = Append(trace, l),
           decisions \in Seq(DecisionRecord), DecisionsTold,
           \/ l.kind # "decision" /\ UNCHANGED decisions
           \/ \E d \in DecisionRecord :
                /\ l.kind = "decision" /\ decisions' = Append(decisions, d)
                /\ d.issue = l.issue /\ d.decision = l.what
    PROVE  DecisionsTold'
<1> DEFINE m == Len(trace)
           n == Len(decisions)
<1>1. PICK line \in Numberings(DecisionLines, n) :
          \A k \in DOMAIN decisions : /\ trace[line[k]].issue = decisions[k].issue
                                      /\ trace[line[k]].what = decisions[k].decision
  BY DEF DecisionsTold
<1>2. n \in Nat /\ DOMAIN decisions = 1..n
  OBVIOUS
<1>3. line \in [1..n -> DecisionLines]
  BY <1>1 DEF Numberings
<1>4. /\ m \in Nat /\ DecisionLines \subseteq 1..m /\ trace'[m + 1] = l
      /\ \A k \in 1..m : trace'[k] = trace[k]
  BY LineAdded
<1>5. \A k \in 1..n : line[k] \in 1..m
  BY <1>3, <1>4
<1>6. CASE l.kind # "decision" /\ UNCHANGED decisions
  <2>1. DecisionLines' = DecisionLines
    BY <1>6, LineAdded
  <2>2. \A k \in DOMAIN decisions' : /\ trace'[line[k]].issue = decisions'[k].issue
                                     /\ trace'[line[k]].what = decisions'[k].decision
    BY <1>1, <1>2, <1>4, <1>5, <1>6
  <2>3. line \in Numberings(DecisionLines', Len(decisions'))
    BY <1>1, <1>6, <2>1
  <2> QED  BY <2>2, <2>3 DEF DecisionsTold
<1>7. CASE \E d \in DecisionRecord :
             /\ l.kind = "decision" /\ decisions' = Append(decisions, d)
             /\ d.issue = l.issue /\ d.decision = l.what
  <2>1. PICK d \in DecisionRecord :
            /\ l.kind = "decision" /\ decisions' = Append(decisions, d)
            /\ d.issue = l.issue /\ d.decision = l.what
    BY <1>7
  <2>2. /\ Len(decisions') = n + 1 /\ DOMAIN decisions' = 1..(n + 1)
        /\ decisions'[n + 1] = d /\ \A k \in 1..n : decisions'[k] = decisions[k]
    BY <2>1
  <2>3. DecisionLines' = DecisionLines \cup {m + 1}
    BY <2>1, LineAdded
  <2> DEFINE next == [k \in 1..(n + 1) |-> IF k <= n THEN line[k] ELSE m + 1]
  <2> HIDE DEF m, n
  <2>4. next \in Numberings(DecisionLines', n + 1)
    BY <1>1, <1>2, <1>4, <2>3, NumberingExtends
  <2>5. /\ \A k \in 1..n : k \in 1..(n + 1) /\ next[k] = line[k]
        /\ next[n + 1] = m + 1
    <3>1. \A k \in 1..n : k \in 1..(n + 1) /\ k <= n
      BY <1>2
    <3>2. (n + 1) \in 1..(n + 1) /\ ~(n + 1 <= n)
      BY <1>2
    <3> QED  BY <3>1, <3>2
  <2>6. \A k \in 1..(n + 1) : k \in 1..n \/ k = n + 1
    BY <1>2
  <2> HIDE DEF next
  <2>7. \A k \in DOMAIN decisions' : /\ trace'[next[k]].issue = decisions'[k].issue
                                     /\ trace'[next[k]].what = decisions'[k].decision
    <3> TAKE k \in DOMAIN decisions'
    <3>1. CASE k \in 1..n
      <4>1. next[k] = line[k] /\ trace'[line[k]] = trace[line[k]]
        BY <1>4, <1>5, <2>5, <3>1
      <4>2. decisions'[k] = decisions[k] /\ k \in DOMAIN decisions
        BY <1>2, <2>2, <3>1
      <4> QED  BY <1>1, <4>1, <4>2
    <3>2. CASE k = n + 1 BY <1>4, <2>1, <2>2, <2>5, <3>2
    <3> QED  BY <2>2, <2>6, <3>1, <3>2
  <2> QED  BY <2>2, <2>4, <2>7 DEF DecisionsTold
<1> QED
  BY <1>6, <1>7

LEMMA RecoveryStaysTold ==
    ASSUME trace \in Seq(LineRecord), NEW l \in LineRecord, trace' = Append(trace, l),
           state.recovery \in Seq(JudgeTools), RecoveryTold,
           IF l.kind = "call" /\ l.what # "verify_scene_hypotheses"
           THEN state'.recovery = Append(state.recovery, l.what)
           ELSE state'.recovery = state.recovery
    PROVE  RecoveryTold'
<1> DEFINE m == Len(trace)
           n == Len(state.recovery)
<1>1. PICK line \in Numberings(RecoveryLines, n) :
          \A k \in DOMAIN state.recovery : trace[line[k]].what = state.recovery[k]
  BY DEF RecoveryTold
<1>2. n \in Nat /\ DOMAIN state.recovery = 1..n
  OBVIOUS
<1>3. line \in [1..n -> RecoveryLines]
  BY <1>1 DEF Numberings
<1>4. /\ m \in Nat /\ RecoveryLines \subseteq 1..m /\ trace'[m + 1] = l
      /\ \A k \in 1..m : trace'[k] = trace[k]
  BY LineAdded
<1>5. \A k \in 1..n : line[k] \in 1..m
  BY <1>3, <1>4
<1>6. CASE /\ ~(l.kind = "call" /\ l.what # "verify_scene_hypotheses")
           /\ state'.recovery = state.recovery
  <2>1. RecoveryLines' = RecoveryLines
    BY <1>6, LineAdded
  <2>2. \A k \in DOMAIN state'.recovery : trace'[line[k]].what = state'.recovery[k]
    BY <1>1, <1>2, <1>4, <1>5, <1>6
  <2>3. line \in Numberings(RecoveryLines', Len(state'.recovery))
    BY <1>1, <1>6, <2>1
  <2> QED  BY <2>2, <2>3 DEF RecoveryTold
<1>7. CASE /\ l.kind = "call" /\ l.what # "verify_scene_hypotheses"
           /\ state'.recovery = Append(state.recovery, l.what)
  <2>1. /\ Len(state'.recovery) = n + 1 /\ DOMAIN state'.recovery = 1..(n + 1)
        /\ state'.recovery[n + 1] = l.what /\ \A k \in 1..n : state'.recovery[k] = state.recovery[k]
    BY <1>7
  <2>2. RecoveryLines' = RecoveryLines \cup {m + 1}
    BY <1>7, LineAdded
  <2> DEFINE next == [k \in 1..(n + 1) |-> IF k <= n THEN line[k] ELSE m + 1]
  <2> HIDE DEF m, n
  <2>3. next \in Numberings(RecoveryLines', n + 1)
    BY <1>1, <1>2, <1>4, <2>2, NumberingExtends
  <2>4. /\ \A k \in 1..n : k \in 1..(n + 1) /\ next[k] = line[k]
        /\ next[n + 1] = m + 1
    <3>1. \A k \in 1..n : k \in 1..(n + 1) /\ k <= n
      BY <1>2
    <3>2. (n + 1) \in 1..(n + 1) /\ ~(n + 1 <= n)
      BY <1>2
    <3> QED  BY <3>1, <3>2
  <2>5. \A k \in 1..(n + 1) : k \in 1..n \/ k = n + 1
    BY <1>2
  <2> HIDE DEF next
  <2>6. \A k \in DOMAIN state'.recovery : trace'[next[k]].what = state'.recovery[k]
    <3> TAKE k \in DOMAIN state'.recovery
    <3>1. CASE k \in 1..n BY <1>1, <1>2, <1>4, <1>5, <2>1, <2>4, <3>1
    <3>2. CASE k = n + 1 BY <1>4, <2>1, <2>4, <3>2
    <3> QED  BY <2>1, <2>5, <3>1, <3>2
  <2> QED  BY <2>1, <2>3, <2>6 DEF RecoveryTold
<1> QED
  BY <1>6, <1>7

\* A call is written when no other waits for its decision.
LEMMA CallWritten ==
    ASSUME trace \in Seq(LineRecord), decisions \in Seq(DecisionRecord),
           state.recovery \in Seq(JudgeTools), TraceInv, at # "raised", chosen = "none",
           NEW l \in LineRecord, l.kind = "call", trace' = Append(trace, l),
           chosen' = l.issue, l.issue # "none", UNCHANGED <<decisions, actions>>,
           state'.recovery = IF l.what # "verify_scene_hypotheses"
                             THEN Append(state.recovery, l.what) ELSE state.recovery
    PROVE  TraceInv'
<1>1. DecisionsTold /\ RecoveryTold /\ CallsAnswered /\ Len(decisions) = actions
  BY DEF TraceInv, TraceTellsTheRun, DecisionsTold, RecoveryTold, CallsAnswered
<1>2. DecisionsTold'
  BY <1>1, DecisionsStayTold
<1>3. RecoveryTold'
  BY <1>1, RecoveryStaysTold
<1>4. /\ Len(trace) \in Nat /\ Len(trace') = Len(trace) + 1 /\ Len(trace') - 1 = Len(trace)
      /\ trace' # <<>> /\ trace'[Len(trace')] = l
      /\ \A k \in 1..Len(trace) : trace'[k] = trace[k]
  BY LineAdded
<1>5. CallsAnswered'
  <2> SUFFICES ASSUME NEW k \in 1..Len(trace), trace'[k].kind = "call"
               PROVE  /\ trace'[k + 1].kind = "decision"
                      /\ trace'[k + 1].issue = trace'[k].issue
    BY <1>4 DEF CallsAnswered
  <2>1. trace # <<>> => trace[Len(trace)].kind = "decision"
    BY DEF TraceInv
  <2>2. trace # <<>>
    OBVIOUS
  <2>3. k \in 1..(Len(trace) - 1)
    BY <1>4, <2>1, <2>2
  <2>4. k \in 1..Len(trace) /\ (k + 1) \in 1..Len(trace)
    BY <1>4, <2>3
  <2> QED  BY <1>1, <1>4, <2>3, <2>4 DEF CallsAnswered
<1> QED
  BY <1>1, <1>2, <1>3, <1>4, <1>5
  DEF TraceInv, TraceTellsTheRun, DecisionsTold, RecoveryTold, CallsAnswered

\* A decision is the answer to the call before it, if there is one.
LEMMA DecisionWritten ==
    ASSUME trace \in Seq(LineRecord), decisions \in Seq(DecisionRecord),
           state.recovery \in Seq(JudgeTools), TraceInv, at # "raised", actions \in Nat,
           NEW l \in LineRecord, l.kind = "decision", trace' = Append(trace, l),
           NEW d \in DecisionRecord, decisions' = Append(decisions, d),
           d.issue = l.issue, d.decision = l.what,
           chosen \in {"none", l.issue}, chosen' = "none", actions' = actions + 1,
           state'.recovery = state.recovery
    PROVE  TraceInv'
<1>1. DecisionsTold /\ RecoveryTold /\ CallsAnswered /\ Len(decisions) = actions
  BY DEF TraceInv, TraceTellsTheRun, DecisionsTold, RecoveryTold, CallsAnswered
<1>2. DecisionsTold'
  BY <1>1, DecisionsStayTold
<1>3. RecoveryTold'
  BY <1>1, RecoveryStaysTold
<1>4. /\ Len(trace) \in Nat /\ Len(trace') = Len(trace) + 1 /\ Len(trace') - 1 = Len(trace)
      /\ trace' # <<>> /\ trace'[Len(trace')] = l
      /\ \A k \in 1..Len(trace) : trace'[k] = trace[k]
  BY LineAdded
<1>5. CallsAnswered'
  <2> SUFFICES ASSUME NEW k \in 1..Len(trace), trace'[k].kind = "call"
               PROVE  /\ trace'[k + 1].kind = "decision"
                      /\ trace'[k + 1].issue = trace'[k].issue
    BY <1>4 DEF CallsAnswered
  <2>1. CASE k = Len(trace)
    <3>1. trace # <<>> /\ trace[Len(trace)].kind = "call"
      BY <1>4, <2>1
    <3>2. trace[Len(trace)].issue = l.issue
      BY <3>1 DEF TraceInv
    <3> QED  BY <1>4, <2>1, <3>2
  <2>2. CASE k \in 1..(Len(trace) - 1)
    <3>1. k \in 1..Len(trace) /\ (k + 1) \in 1..Len(trace)
      BY <1>4, <2>2
    <3> QED  BY <1>1, <1>4, <2>2, <3>1 DEF CallsAnswered
  <2>3. Len(trace) \in Nat
    OBVIOUS
  <2>4. k = Len(trace) \/ k \in 1..(Len(trace) - 1)
    BY <2>3
  <2> QED  BY <2>1, <2>2, <2>4
<1>6. Len(decisions') = actions'
  BY <1>1
<1> QED
  BY <1>2, <1>3, <1>4, <1>5, <1>6
  DEF TraceInv, TraceTellsTheRun, DecisionsTold, RecoveryTold, CallsAnswered

-----------------------------------------------------------------------------
(***************************************************************************)
(* The loop.                                                               *)
(***************************************************************************)
\* The judge's acceptance: the issue is resolved, one more action is done.
LEMMA AcceptKeeps == ASSUME InspectInv, AcceptIssue PROVE InspectInv'
<1> DEFINE i == NextIssue
           d == [issue |-> i, decision |-> "accept", by |-> "judge"]
           l == [kind |-> "decision", issue |-> i, what |-> "accept"]
           done == [Attempted(i) EXCEPT ![i].status = "resolved"]
<1>1. /\ Plans
      /\ decisions' = Append(decisions, d) /\ trace' = Append(trace, l)
      /\ state' = [state EXCEPT !.terminal =
                      IF i = "foreground_collapse" THEN "accepted_ambience_only" ELSE @]
      /\ issues' = Refresh(done, CurrentIssues(state'))
      /\ actions' = actions + 1
      /\ UNCHANGED <<mode, lasting, at, chosen, judged, bundle, disk>>
  BY DEF AcceptIssue
<1>2. /\ at = "plan" /\ chosen = "none" /\ actions < MaxActions
      /\ i \in DOMAIN issues
      /\ issues[i].status = "open" /\ issues[i].attempts < RetryLimit
  BY <1>1, PlanPicks
<1>3. /\ state \in StateRecord /\ DOMAIN issues \subseteq IssueNames
      /\ issues \in [DOMAIN issues -> IssueRecord] /\ actions \in 0..MaxActions
      /\ trace \in Seq(LineRecord) /\ decisions \in Seq(DecisionRecord)
      /\ Len(decisions) = actions
  BY DEF InspectInv, InspectTypeOK
<1>4. i \in IssueNames /\ d \in DecisionRecord /\ l \in LineRecord
  <2>1. i \in IssueNames
    BY <1>2, <1>3
  <2> HIDE DEF i
  <2> QED  BY <2>1 DEF DecisionRecord, LineRecord, Verdicts
<1>5. d.issue = i /\ d.decision = "accept" /\ d.by = "judge" /\ ~RetriesForeground(d)
  BY DEF RetriesForeground
<1>6. l.kind = "decision" /\ l.issue = i /\ l.what = "accept"
  OBVIOUS
<1>7. /\ state' \in StateRecord /\ state'.recovery = state.recovery
      /\ state'.tracks = state.tracks /\ state'.sources = state.sources
      /\ state'.crops = state.crops /\ state'.embeddings = state.embeddings
      /\ state'.labels = state.labels
      /\ state'.frames = state.frames /\ state'.windows = state.windows
      /\ state'.terminal = IF i = "foreground_collapse" THEN "accepted_ambience_only"
                           ELSE state.terminal
  BY <1>1, <1>3 DEF StateRecord, Terminals
<1>8. /\ DOMAIN done = DOMAIN issues /\ done \in [DOMAIN done -> IssueRecord]
      /\ done[i].attempts = issues[i].attempts + 1 /\ done[i].status = "resolved"
      /\ \A j \in DOMAIN issues \ {i} : done[j] = issues[j]
  BY <1>2, <1>3, AttemptCounts DEF IssueRecord
<1> HIDE DEF i, d, l, done
<1>9. RefreshOf(issues', done, CurrentIssues(state')) /\ CurrentIssues(state') \subseteq IssueNames
  BY <1>1, <1>7, <1>8, CurrentIssuesAre, Refreshed
<1>10. InspectTypeOK'
  <2>1. DOMAIN issues' \subseteq IssueNames /\ issues' \in [DOMAIN issues' -> IssueRecord]
    BY <1>9 DEF RefreshOf
  <2>2. decisions' \in Seq(DecisionRecord) /\ Len(decisions') = actions'
    BY <1>1, <1>3, <1>4
  <2>3. trace' \in Seq(LineRecord) /\ actions' \in 0..MaxActions
    BY <1>1, <1>2, <1>3, <1>4 DEF MaxActions
  <2> QED  BY <1>1, <1>7, <2>1, <2>2, <2>3 DEF InspectInv, InspectTypeOK
<1>11. FlowInv'
  BY <1>1, <1>2 DEF InspectInv, FlowInv, Stages, Ends
<1>12. DerivedInv'
  BY <1>1, <1>2, <1>7 DEF InspectInv, DerivedInv, Loop, Ends
<1>13. \A j \in DOMAIN issues : issues[j].attempts \in Nat /\ issues[j].attempts <= actions
  BY <1>2, <1>3 DEF InspectInv, RetriesInv, Ahead, IssueRecord, IssueNames
<1>14. \A j \in DOMAIN issues' :
           /\ issues'[j].attempts <= actions'
           /\ issues'[j].status = "open" => issues'[j].attempts < actions'
  <2> TAKE j \in DOMAIN issues'
  <2> DEFINE new == issues'[j]
  <2>1. j \in CurrentIssues(state')
    BY <1>9 DEF RefreshOf
  <2>2. CASE j \in DOMAIN issues
    <3>1. new = done[j]
      BY <1>8, <1>9, <2>1, <2>2 DEF RefreshOf
    <3>2. j # i => new = issues[j]
      BY <1>8, <2>2, <3>1
    <3> QED  BY <1>1, <1>3, <1>8, <1>13, <2>2, <3>1, <3>2
  <2>3. CASE j \notin DOMAIN issues
    <3>1. new.attempts = 0
      BY <1>8, <1>9, <2>1, <2>3 DEF RefreshOf
    <3> QED  BY <1>1, <1>3, <3>1
  <2> QED  BY <2>2, <2>3
<1>15. \A j \in IssueNames : Ahead(j)' = 0
  BY <1>1, <1>2, <1>3 DEF Ahead, IssueNames
<1>16. ~AlwaysTried("foreground_collapse")'
  BY <1>10, <1>14, <1>15 DEF AlwaysTried, InspectTypeOK
<1>17. \A j \in DOMAIN issues' : issues'[j].attempts <= actions' + Ahead(j)'
  BY <1>10, <1>14, <1>15 DEF InspectTypeOK
<1>18. ~AllRetry'
  BY <1>1, <1>3, <1>4, <1>5, DecisionAdded
<1>19. state'.terminal = "accepted_ambience_only" => AcceptedByJudge'
  BY <1>1, <1>3, <1>4, <1>5, <1>7, DecisionAdded DEF InspectInv, RetriesInv
<1>20. "foreground_collapse" \in DOMAIN issues' => state'.tracks = {}
  <2>1. "foreground_collapse" \in CurrentIssues(state') => state'.tracks = {}
    BY <1>7, CurrentIssuesAre
  <2> QED  BY <1>9, <2>1 DEF RefreshOf
<1>21. RetriesInv'
  <2>1. actions' # 0 /\ at' \notin Ends
    BY <1>1, <1>2, <1>3 DEF Ends
  <2>2. state'.terminal # "recovery_exhausted"
    BY <1>2, <1>7 DEF InspectInv, RetriesInv, Ends
  <2> QED  BY <1>18, <1>19, <1>20, <1>16, <1>17, <2>1, <2>2 DEF RetriesInv
<1>22. PublishedInv'
  BY <1>1, <1>2 DEF InspectInv, PublishedInv, Ends
<1>23. TraceInv'
  BY <1>1, <1>2, <1>3, <1>4, <1>5, <1>6, <1>7, DecisionWritten DEF InspectInv, StateRecord
<1> QED
  BY <1>10, <1>11, <1>12, <1>21, <1>22, <1>23 DEF InspectInv

\* What a tool does to the state: the outcome stays, and stages will follow that
\* derive anew what it makes stale.
LEMMA ApplyDoes ==
    ASSUME state \in StateRecord, NEW i, NEW tool \in Runnable(i), Apply(tool)
    PROVE  /\ tool \in JudgeTools /\ at' \in {"propose", "crop"} /\ state' \in StateRecord
           /\ state'.terminal = state.terminal
           /\ state'.recovery = IF tool # "verify_scene_hypotheses"
                                THEN Append(state.recovery, tool) ELSE state.recovery
<1> USE DEF StateRecord
<1>1. tool \in {"densify_window_sampling", "propose_source_hypotheses",
                "verify_scene_hypotheses", "extract_entities"}
  BY DEF Runnable
<1>2. tool \in JudgeTools
  BY <1>1 DEF JudgeTools
<1>3. Append(state.recovery, tool) \in Seq(JudgeTools)
  BY <1>2
<1>4. CASE tool = "densify_window_sampling"
  <2>1. /\ state' = [state EXCEPT !.frames = @ + 2, !.windows = state.frames + 2,
                                  !.recovery = Append(@, tool)]
        /\ at' = "propose"
    BY <1>4 DEF Apply
  <2> DEFINE more == state.frames + 2
             tried == Append(state.recovery, tool)
  <2>2. more \in Nat /\ tried \in Seq(JudgeTools)
    BY <1>3
  <2>3. state' = [state EXCEPT !.frames = more, !.windows = more, !.recovery = tried]
    BY <2>1
  <2> HIDE DEF more, tried
  <2>4. state' \in StateRecord /\ state'.terminal = state.terminal /\ state'.recovery = tried
    BY <2>2, <2>3
  <2> QED  BY <1>2, <1>4, <2>1, <2>4 DEF tried
<1>5. CASE tool = "propose_source_hypotheses"
  <2>1. state' = [state EXCEPT !.recovery = Append(@, tool)] /\ at' = "propose"
    BY <1>5 DEF Apply
  <2> QED  BY <1>2, <1>3, <1>5, <2>1
<1>6. CASE tool = "verify_scene_hypotheses"
  <2>1. at' = "propose" /\ state' = state
    BY <1>6 DEF Apply
  <2> QED  BY <1>2, <1>6, <2>1
<1>7. CASE tool = "extract_entities"
  <2>1. /\ \E found \in SUBSET Tracks :
             state' = [state EXCEPT !.tracks = @ \cup found, !.recovery = Append(@, tool)]
        /\ at' = "crop"
    BY <1>7 DEF Apply
  <2>2. PICK found \in SUBSET Tracks :
            state' = [state EXCEPT !.tracks = @ \cup found, !.recovery = Append(@, tool)]
    BY <2>1
  <2> QED  BY <1>2, <1>3, <1>7, <2>1, <2>2
<1> QED
  BY <1>1, <1>4, <1>5, <1>6, <1>7

\* The call of a tool: one more attempt at its issue, and the stages to run again.
LEMMA ToolKeeps == ASSUME InspectInv, RunTool PROVE InspectInv'
<1> DEFINE i == NextIssue
<1>1. /\ Plans /\ chosen' = i /\ issues' = Attempted(i)
      /\ UNCHANGED <<mode, lasting, decisions, actions, bundle, disk>>
  BY DEF RunTool
<1>2. PICK tool \in Runnable(i) :
          Apply(tool) /\ trace' = Append(trace, [kind |-> "call", issue |-> i, what |-> tool])
  BY DEF RunTool
<1> DEFINE l == [kind |-> "call", issue |-> i, what |-> tool]
<1>3. /\ at = "plan" /\ chosen = "none" /\ actions < MaxActions
      /\ i \in DOMAIN issues
      /\ issues[i].status = "open" /\ issues[i].attempts < RetryLimit
  BY <1>1, PlanPicks
<1>4. /\ state \in StateRecord /\ DOMAIN issues \subseteq IssueNames
      /\ issues \in [DOMAIN issues -> IssueRecord] /\ actions \in 0..MaxActions
      /\ trace \in Seq(LineRecord) /\ decisions \in Seq(DecisionRecord)
      /\ Len(decisions) = actions
  BY DEF InspectInv, InspectTypeOK
<1> HIDE DEF i
<1>5. /\ tool \in JudgeTools /\ at' \in {"propose", "crop"} /\ state' \in StateRecord
      /\ state'.terminal = state.terminal
      /\ state'.recovery = IF tool # "verify_scene_hypotheses"
                           THEN Append(state.recovery, tool) ELSE state.recovery
  BY <1>2, <1>4, ApplyDoes
<1>6. l \in LineRecord /\ l.kind = "call" /\ l.issue = i /\ l.what = tool
  BY <1>3, <1>4, <1>5 DEF LineRecord
<1>7. trace' = Append(trace, l)
  BY <1>2
<1> HIDE DEF l
<1>8. /\ DOMAIN issues' = DOMAIN issues /\ issues' \in [DOMAIN issues -> IssueRecord]
      /\ issues'[i].attempts = issues[i].attempts + 1 /\ issues'[i].status = "open"
      /\ \A j \in DOMAIN issues \ {i} : issues'[j] = issues[j]
  BY <1>1, <1>3, <1>4, AttemptCounts
<1>9. \A j \in IssueNames : Ahead(j) = 0 /\ Ahead(j)' = IF j = i THEN 1 ELSE 0
  BY <1>1, <1>3 DEF Ahead, IssueNames
<1>10. InspectTypeOK'
  <2>1. trace' \in Seq(LineRecord)
    BY <1>4, <1>6, <1>7
  <2>2. at' \in Stages /\ chosen' \in IssueNames
    BY <1>1, <1>3, <1>4, <1>5 DEF Stages
  <2> QED  BY <1>1, <1>4, <1>5, <1>8, <2>1, <2>2 DEF InspectTypeOK
<1>11. FlowInv'
  <2>1. chosen' \in IssueNames /\ chosen' # "none"
    BY <1>1, <1>3, <1>4 DEF IssueNames
  <2> QED  BY <1>1, <1>3, <1>5, <1>8, <2>1 DEF FlowInv, Stages, Ends
<1>12. DerivedInv'
  BY <1>5 DEF DerivedInv, Loop, Ends
<1>13. \A j \in DOMAIN issues : issues[j].attempts \in Nat /\ issues[j].attempts <= actions
  BY <1>4, <1>9 DEF InspectInv, RetriesInv, IssueRecord
<1>14. \A j \in DOMAIN issues' : issues'[j].attempts <= actions' + Ahead(j)'
  <2> TAKE j \in DOMAIN issues'
  <2>1. CASE j = i BY <1>1, <1>3, <1>4, <1>8, <1>9, <1>13, <2>1
  <2>2. CASE j # i BY <1>1, <1>4, <1>8, <1>9, <1>13, <2>2
  <2> QED  BY <2>1, <2>2
<1>15. AlwaysTried("foreground_collapse")' <=> AlwaysTried("foreground_collapse")
  <2>1. "foreground_collapse" \in IssueNames
    BY DEF IssueNames
  <2>2. CASE i = "foreground_collapse"
    BY <1>1, <1>3, <1>4, <1>8, <1>9, <1>13, <2>1, <2>2 DEF AlwaysTried
  <2>3. CASE i # "foreground_collapse"
    BY <1>1, <1>3, <1>4, <1>8, <1>9, <1>13, <2>1, <2>3 DEF AlwaysTried
  <2> QED  BY <2>2, <2>3
<1>16. AllRetry' = AllRetry /\ AcceptedByJudge' = AcceptedByJudge
  BY <1>1 DEF AllRetry, AcceptedByJudge
<1>17. actions = 0 => state.terminal = "none"
  BY <1>3 DEF InspectInv, RetriesInv, Ends
<1>18. actions = 0 /\ i = "foreground_collapse" => AlwaysTried("foreground_collapse")
  BY <1>3, <1>4, <1>9, <1>13 DEF AlwaysTried
<1>19. RetriesInv'
  <2>1. AllRetry /\ (actions > 0 \/ i = "foreground_collapse") =>
            /\ AlwaysTried("foreground_collapse")
            /\ state.terminal # "accepted_ambience_only"
    BY <1>4, <1>17, <1>18 DEF InspectInv, RetriesInv
  <2>2. at' # "plan" /\ at' \notin Ends /\ at \notin Ends
    BY <1>3, <1>5 DEF Ends
  <2> QED  BY <1>1, <1>5, <1>14, <1>15, <1>16, <1>17, <2>1, <2>2 DEF InspectInv, RetriesInv
<1>20. PublishedInv'
  BY <1>1, <1>3, <1>5 DEF InspectInv, PublishedInv, Ends
<1>21. TraceInv'
  <2>1. i # "none"
    BY <1>3, <1>4 DEF IssueNames
  <2> QED  BY <1>1, <1>3, <1>4, <1>5, <1>6, <1>7, <2>1, CallWritten DEF InspectInv, StateRecord
<1> QED
  BY <1>10, <1>11, <1>12, <1>19, <1>20, <1>21 DEF InspectInv

\* The tool's decision: the issue is still there, or it is gone.
LEMMA DecideKeeps == ASSUME InspectInv, Decide PROVE InspectInv'
<1> DEFINE decision == IF chosen \in CurrentIssues(state) THEN "retry" ELSE "accept"
           d == [issue |-> chosen, decision |-> decision, by |-> "tool"]
           l == [kind |-> "decision", issue |-> chosen, what |-> decision]
           fc == "foreground_collapse"
<1>1. /\ at = "decide" /\ at' = "plan" /\ chosen' = "none" /\ actions' = actions + 1
      /\ bundle' = BuildBundle(state, "interim")
      /\ state' = [state EXCEPT !.terminal = AfterDecision(@, decision)]
      /\ decisions' = Append(decisions, d) /\ trace' = Append(trace, l)
      /\ issues' = Refresh(issues, CurrentIssues(state))
      /\ UNCHANGED <<mode, lasting, judged, disk>>
  BY DEF Decide
<1>2. chosen \in IssueNames /\ chosen \in DOMAIN issues /\ actions < MaxActions
  BY <1>1 DEF InspectInv, FlowInv, InspectTypeOK
<1>3. /\ state \in StateRecord /\ DOMAIN issues \subseteq IssueNames
      /\ issues \in [DOMAIN issues -> IssueRecord] /\ actions \in 0..MaxActions
      /\ trace \in Seq(LineRecord) /\ decisions \in Seq(DecisionRecord)
      /\ Len(decisions) = actions
  BY DEF InspectInv, InspectTypeOK
<1>4. d \in DecisionRecord /\ l \in LineRecord
  BY <1>2 DEF DecisionRecord, LineRecord, Verdicts
<1>5. /\ d.issue = chosen /\ d.decision = decision /\ d.by = "tool"
      /\ l.kind = "decision" /\ l.issue = chosen /\ l.what = decision
  OBVIOUS
<1>6. RetriesForeground(d) <=> chosen = fc /\ fc \in CurrentIssues(state)
  BY <1>5 DEF RetriesForeground
<1>7. decision # "retry" \/ decision = "retry"
  OBVIOUS
<1> HIDE DEF d, l, decision
<1>8. /\ state' \in StateRecord /\ state'.recovery = state.recovery
      /\ state'.tracks = state.tracks /\ state'.sources = state.sources
      /\ state'.crops = state.crops /\ state'.embeddings = state.embeddings
      /\ state'.labels = state.labels
      /\ state'.frames = state.frames /\ state'.windows = state.windows
      /\ state'.terminal = IF decision = "retry" /\ state.terminal = "accepted_ambience_only"
                           THEN "none" ELSE state.terminal
  BY <1>1, <1>3 DEF StateRecord, Terminals, AfterDecision
<1>9. /\ RefreshOf(issues', issues, CurrentIssues(state))
      /\ CurrentIssues(state) \subseteq IssueNames
  BY <1>1, <1>3, CurrentIssuesAre, Refreshed
<1>10. InspectTypeOK'
  <2>1. DOMAIN issues' \subseteq IssueNames /\ issues' \in [DOMAIN issues' -> IssueRecord]
    BY <1>9 DEF RefreshOf
  <2>2. decisions' \in Seq(DecisionRecord) /\ Len(decisions') = actions'
    BY <1>1, <1>3, <1>4
  <2>3. trace' \in Seq(LineRecord) /\ actions' \in 0..MaxActions
    BY <1>1, <1>2, <1>3, <1>4 DEF MaxActions
  <2> QED  BY <1>1, <1>8, <2>1, <2>2, <2>3 DEF InspectTypeOK, Loop
<1>11. FlowInv'
  BY <1>1 DEF FlowInv, Stages, Ends
<1>12. DerivedInv'
  BY <1>1, <1>8 DEF InspectInv, DerivedInv, Loop, Ends
<1>13. \A j \in DOMAIN issues :
           /\ issues[j].attempts \in Nat
           /\ issues[j].attempts <= actions + 1
           /\ j # chosen => issues[j].attempts <= actions
  BY <1>3 DEF InspectInv, RetriesInv, Ahead, IssueRecord
<1>14. \A j \in IssueNames : Ahead(j)' = 0
  BY <1>1 DEF Ahead, IssueNames
<1>15. \A j \in DOMAIN issues' :
           IF j \in DOMAIN issues THEN issues'[j] = issues[j] ELSE issues'[j].attempts = 0
  BY <1>9 DEF RefreshOf
<1>16. \A j \in DOMAIN issues' : issues'[j].attempts <= actions' + Ahead(j)'
  BY <1>1, <1>3, <1>10, <1>13, <1>14, <1>15 DEF InspectTypeOK
<1>17. DOMAIN issues' = CurrentIssues(state) /\ fc \in IssueNames
  BY <1>9 DEF RefreshOf, IssueNames
<1>18. AllRetry' <=> AllRetry /\ RetriesForeground(d)
  BY <1>1, <1>3, <1>4, DecisionAdded
<1>19. ASSUME AlwaysTried(fc)' PROVE AllRetry'
  <2>1. /\ fc \in DOMAIN issues' /\ issues'[fc].status = "open"
        /\ issues'[fc].attempts = actions + 1
    BY <1>1, <1>3, <1>14, <1>17, <1>19 DEF AlwaysTried
  <2>2. fc \in DOMAIN issues /\ issues'[fc] = issues[fc]
    BY <1>3, <1>15, <2>1
  <2>3. chosen = fc
    BY <1>3, <1>13, <2>1, <2>2
  <2>4. AlwaysTried(fc)
    BY <2>1, <2>2, <2>3 DEF AlwaysTried, Ahead
  <2>5. AllRetry
    BY <2>4 DEF InspectInv, RetriesInv
  <2> QED  BY <1>6, <1>17, <1>18, <2>1, <2>3, <2>5
<1>20. ASSUME AllRetry' PROVE AlwaysTried(fc)' /\ state'.terminal # "accepted_ambience_only"
  <2>1. AllRetry /\ chosen = fc /\ fc \in DOMAIN issues'
    BY <1>6, <1>17, <1>18, <1>20
  <2>2. AlwaysTried(fc) /\ state.terminal # "accepted_ambience_only"
    BY <2>1 DEF InspectInv, RetriesInv
  <2>3. fc \in DOMAIN issues /\ issues[fc].status = "open" /\ issues[fc].attempts = actions + 1
    BY <2>1, <2>2 DEF AlwaysTried, Ahead
  <2>4. issues'[fc] = issues[fc]
    BY <1>15, <2>1, <2>3
  <2>5. issues'[fc].attempts = actions' + Ahead(fc)'
    BY <1>1, <1>3, <1>14, <1>17, <2>3, <2>4
  <2> QED  BY <1>8, <2>1, <2>2, <2>3, <2>4, <2>5 DEF AlwaysTried
<1>21. state'.terminal = "accepted_ambience_only" => AcceptedByJudge'
  BY <1>1, <1>3, <1>4, <1>5, <1>8, DecisionAdded DEF InspectInv, RetriesInv
<1>22. fc \in DOMAIN issues' => state'.tracks = {}
  BY <1>3, <1>8, <1>17, CurrentIssuesAre
<1>23. RetriesInv'
  <2>1. actions' # 0 /\ at' \notin Ends
    BY <1>1, <1>3 DEF Ends
  <2>2. state'.terminal # "recovery_exhausted"
    BY <1>1, <1>8 DEF InspectInv, RetriesInv, Ends
  <2> QED  BY <1>16, <1>19, <1>20, <1>21, <1>22, <2>1, <2>2 DEF RetriesInv
<1>24. PublishedInv'
  BY <1>1 DEF InspectInv, PublishedInv, Ends
<1>25. TraceInv'
  BY <1>1, <1>3, <1>4, <1>5, <1>8, DecisionWritten DEF InspectInv, StateRecord
<1> QED
  BY <1>10, <1>11, <1>12, <1>23, <1>24, <1>25 DEF InspectInv

\* Every action was a retry of the foreground, as many as may be, if and only if
\* the foreground is open and has no attempt left.
LEMMA ThreeRetries ==
    ASSUME InspectInv, at = "plan"
    PROVE  Cardinality(Retried) = RetryLimit <=>
               /\ "foreground_collapse" \in DOMAIN issues
               /\ issues["foreground_collapse"].status = "open"
               /\ issues["foreground_collapse"].attempts >= RetryLimit
<1> DEFINE fc == "foreground_collapse"
<1>1. /\ actions \in 0..MaxActions /\ Len(decisions) = actions
      /\ decisions \in Seq(DecisionRecord) /\ issues \in [DOMAIN issues -> IssueRecord]
      /\ chosen = "none"
  BY DEF InspectInv, InspectTypeOK, FlowInv
<1>2. DOMAIN decisions = 1..actions /\ actions \in Nat /\ actions <= 3
  BY <1>1 DEF MaxActions
<1>3. IsFiniteSet(1..actions) /\ Cardinality(1..actions) = actions
  <2>1. Cardinality(1..actions) = IF 1 > actions THEN 0 ELSE actions - 1 + 1
    BY <1>2, FS_Interval
  <2>2. IsFiniteSet(1..actions)
    BY <1>2, FS_Interval
  <2> QED  BY <1>2, <2>1, <2>2
<1>4. /\ Retried \subseteq 1..actions
      /\ AllRetry <=> Retried = 1..actions
  BY <1>2 DEF Retried, AllRetry, RetriesForeground
<1>5. /\ Cardinality(Retried) \in Nat /\ Cardinality(Retried) <= actions
      /\ Cardinality(Retried) = actions => Retried = 1..actions
  <2>1. IsFiniteSet(Retried)
    BY <1>3, <1>4, FS_Subset
  <2> QED  BY <1>3, <1>4, <2>1, FS_Subset, FS_CardinalityType
<1>6. Cardinality(Retried) = RetryLimit <=> AllRetry /\ actions = 3
  BY <1>2, <1>3, <1>4, <1>5 DEF RetryLimit
<1>7. Ahead(fc) = 0
  BY <1>1 DEF Ahead
<1>8. ASSUME AllRetry, actions = 3
      PROVE  fc \in DOMAIN issues /\ issues[fc].status = "open" /\ issues[fc].attempts >= RetryLimit
  <2>1. AlwaysTried(fc)
    BY <1>8 DEF InspectInv, RetriesInv
  <2> QED  BY <1>7, <1>8, <2>1 DEF AlwaysTried, RetryLimit
<1>9. ASSUME fc \in DOMAIN issues, issues[fc].status = "open", issues[fc].attempts >= RetryLimit
      PROVE  AllRetry /\ actions = 3
  <2>1. issues[fc].attempts \in Nat /\ issues[fc].attempts <= actions
    BY <1>1, <1>2, <1>7, <1>9 DEF InspectInv, RetriesInv, IssueRecord
  <2>2. actions = 3 /\ issues[fc].attempts = actions + Ahead(fc)
    BY <1>2, <1>7, <1>9, <2>1 DEF RetryLimit
  <2>3. AlwaysTried(fc)
    BY <1>9, <2>2 DEF AlwaysTried
  <2> QED  BY <2>2, <2>3 DEF InspectInv, RetriesInv
<1> QED
  BY <1>6, <1>8, <1>9

LEMMA EndKeeps == ASSUME InspectInv, EndLoop PROVE InspectInv'
<1>1. CASE Raise
  BY <1>1, RaiseKeeps DEF EndLoop
<1>2. CASE /\ at = "plan" /\ state' = [state EXCEPT !.terminal = FinalResolution]
           /\ bundle' = BuildBundle(state', "final")
           /\ at' = "persist"
           /\ UNCHANGED <<mode, lasting, loopVars, disk>>
  <2> DEFINE exhausted == Cardinality(Retried) = RetryLimit
             fc == "foreground_collapse"
  <2>1. chosen = "none" /\ state \in StateRecord
    BY <1>2 DEF InspectInv, FlowInv, InspectTypeOK
  <2>2. /\ FinalResolution \in Terminals
        /\ FinalResolution = "accepted_ambience_only" <=> state.terminal = "accepted_ambience_only"
    BY DEF FinalResolution, Terminals
  <2>3. /\ state' \in StateRecord /\ state'.recovery = state.recovery
        /\ state'.tracks = state.tracks /\ state'.sources = state.sources
        /\ state'.crops = state.crops /\ state'.embeddings = state.embeddings
        /\ state'.labels = state.labels
        /\ state'.frames = state.frames /\ state'.windows = state.windows
        /\ state'.terminal = FinalResolution
    BY <1>2, <2>1, <2>2 DEF StateRecord
  <2>4. /\ bundle'.kind = "final" /\ bundle'.sources = state.sources
        /\ bundle'.resolution = FinalResolution
        /\ "recovery_exhausted" \in bundle'.validation <=>
               FinalResolution = "recovery_exhausted" /\ state.sources = {}
    BY <1>2, <2>3, BundleTells
  <2>5. UNCHANGED <<issues, chosen, decisions, trace, actions>>
    BY <1>2 DEF loopVars
  <2>6. AllRetry' = AllRetry /\ AcceptedByJudge' = AcceptedByJudge /\ Retried' = Retried
    BY <2>5 DEF AllRetry, AcceptedByJudge, Retried
  <2>7. exhausted <=> /\ fc \in DOMAIN issues /\ issues[fc].status = "open"
                      /\ issues[fc].attempts >= RetryLimit
    BY <1>2, ThreeRetries
  <2>8. exhausted => state.terminal # "accepted_ambience_only" /\ state.sources = {}
    <3> SUFFICES ASSUME exhausted
                 PROVE  state.terminal # "accepted_ambience_only" /\ state.sources = {}
      OBVIOUS
    <3>1. state.tracks = {} /\ state.sources = state.tracks
      BY <1>2, <2>7 DEF InspectInv, RetriesInv, DerivedInv, Loop
    <3>2. actions > 0 /\ AllRetry
      <4>1. actions \in 0..MaxActions /\ issues[fc].attempts <= actions
        BY <2>1, <2>7 DEF InspectInv, InspectTypeOK, RetriesInv, Ahead
      <4>2. issues[fc].attempts \in Nat
        BY <2>7 DEF InspectInv, InspectTypeOK, IssueRecord
      <4>3. actions = 3 /\ issues[fc].attempts = 3
        BY <2>7, <4>1, <4>2 DEF MaxActions, RetryLimit
      <4>4. AlwaysTried(fc)
        BY <2>1, <2>7, <4>3 DEF AlwaysTried, Ahead
      <4> QED  BY <4>3, <4>4 DEF InspectInv, RetriesInv
    <3> QED  BY <3>1, <3>2 DEF InspectInv, RetriesInv
  <2>9. FinalResolution = "recovery_exhausted" <=> exhausted
    BY <2>7, <2>8 DEF FinalResolution
  <2>10. InspectTypeOK'
    BY <1>2, <2>3, <2>5 DEF InspectInv, InspectTypeOK, Ends
  <2>11. FlowInv'
    BY <1>2, <2>1, <2>5 DEF FlowInv, Stages, Ends
  <2>12. DerivedInv'
    BY <1>2, <2>3, <2>4 DEF InspectInv, DerivedInv, Loop, Ends
  <2>13. AlwaysTried(fc)' <=> AlwaysTried(fc)
    BY <2>5 DEF AlwaysTried, Ahead
  <2>14. RetriesInv'
    BY <1>2, <2>2, <2>3, <2>5, <2>6, <2>13 DEF InspectInv, RetriesInv, Ahead, Ends
  <2>15. Earned(bundle)'
    BY <2>2, <2>4, <2>6, <2>8, <2>9 DEF Earned, InspectInv, RetriesInv
  <2>16. PublishedInv'
    BY <1>2, <2>15 DEF InspectInv, PublishedInv, Ends
  <2>17. TraceInv'
    BY <1>2, <2>3, <2>5, TraceStands DEF InspectInv
  <2> QED  BY <2>10, <2>11, <2>12, <2>14, <2>16, <2>17 DEF InspectInv
<1> QED
  BY <1>1, <1>2 DEF EndLoop

-----------------------------------------------------------------------------
(***************************************************************************)
(* The theorems.                                                           *)
(***************************************************************************)
LEMMA InspectStepKeeps == ASSUME InspectInv, [InspectNext]_runVars PROVE InspectInv'
<1>1. CASE StageStep
  BY <1>1, StagesKeep
<1>2. CASE StageRaises
  BY <1>2, RaiseKeeps DEF StageRaises, Stages
<1>3. CASE PersistFirstBundle
  BY <1>3, PersistFirstKeeps
<1>4. CASE Return \/ PersistFinalBundle
  BY <1>4, WritingKeeps
<1>5. CASE BeginLoop
  BY <1>5, BeginKeeps
<1>6. CASE AcceptIssue
  BY <1>6, AcceptKeeps
<1>7. CASE RunTool
  BY <1>7, ToolKeeps
<1>8. CASE ToolRaises
  BY <1>8, RaiseKeeps DEF ToolRaises, Plans
<1>9. CASE Decide
  BY <1>9, DecideKeeps
<1>10. CASE EndLoop
  BY <1>10, EndKeeps
<1>11. CASE UNCHANGED runVars
  <2> USE <1>11 DEF InspectInv, runVars, loopVars
  <2>1. InspectTypeOK' /\ FlowInv' /\ DerivedInv'
    BY DEF InspectTypeOK, FlowInv, DerivedInv
  <2>2. AllRetry' = AllRetry /\ AcceptedByJudge' = AcceptedByJudge /\ Retried' = Retried
    BY DEF AllRetry, AcceptedByJudge, Retried
  <2>3. RetriesInv' /\ PublishedInv'
    BY <2>2 DEF RetriesInv, AlwaysTried, Ahead, PublishedInv, Earned
  <2>4. DecisionLines' = DecisionLines /\ RecoveryLines' = RecoveryLines
    BY DEF DecisionLines, RecoveryLines
  <2>5. TraceInv'
    BY <2>4 DEF TraceInv, TraceTellsTheRun
  <2> QED  BY <2>1, <2>3, <2>5
<1> QED
  BY <1>1, <1>2, <1>3, <1>4, <1>5, <1>6, <1>7, <1>8, <1>9, <1>10, <1>11
  DEF InspectNext, StageStep

LEMMA InspectInvariant == InspectSpec => []InspectInv
<1>1. InspectInit => InspectInv
  BY InitInspectInv
<1>2. InspectInv /\ [InspectNext]_runVars => InspectInv'
  BY InspectStepKeeps
<1> QED
  BY <1>1, <1>2, PTL DEF InspectSpec

\* Between two actions of the agent and at the end nothing derived is stale, whichever
\* tools ran: run_agentic_tool_loop and its rebuilds.
THEOREM NothingDerivedIsStale == InspectSpec => []DerivedFromCurrentTracks
<1>1. InspectInv => DerivedFromCurrentTracks
  BY DEF InspectInv, DerivedInv, DerivedFromCurrentTracks, Loop, Ends
<1> QED
  BY <1>1, InspectInvariant, PTL

\* The outcome in the file that a run leaves is earned: _finalize_terminal_resolution
\* counts what the decisions say.
THEOREM OutcomesAreEarned == InspectSpec => []ResolutionIsEarned
<1>1. InspectInv => ResolutionIsEarned
  BY DEF InspectInv, PublishedInv, Earned, ResolutionIsEarned, Ends
<1> QED
  BY <1>1, InspectInvariant, PTL

\* The trace file tells the decisions and the recovery actions in their order, each
\* decision of a tool right after its call: _append_trace.
THEOREM TracesTellTheirRuns == InspectSpec => []TraceTellsTheRun
<1>1. InspectInv => TraceTellsTheRun
  BY DEF InspectInv, TraceInv
<1> QED
  BY <1>1, InspectInvariant, PTL

-----------------------------------------------------------------------------
(***************************************************************************)
(* Edits of a bundle.  The difficult one is a split: that it does not      *)
(* overwrite a group needs that ids of splits end in a number below the    *)
(* length of the log, which is what SplitsAreNumbered keeps.               *)
(***************************************************************************)
Abouts == {About(events, names) : events \in SUBSET Events, names \in [Sources -> Nat]}

GroupRecord ==
    [events : SUBSET Events, beds : SUBSET Beds, route : {"gemini", "manual"},
     origin : {"writer", "none"}, stale : BOOLEAN, about : Abouts]

BundleRecord(groups) ==
    [groups : {groups}, names : [Sources -> Nat], reviewed : SUBSET IssueIds, edits : Nat]

BundleTypeOK ==
    /\ reviewBundle \in BundleRecord(Groups)
    /\ Ids \subseteq Seq(Nat)
    /\ Groups \in [Ids -> GroupRecord]

\* EveryEventInOneGroup of any groups.
Partition(groups) ==
    /\ \A e \in Events : \E id \in DOMAIN groups : e \in groups[id].events
    /\ \A i, j \in DOMAIN groups : i # j => groups[i].events \cap groups[j].events = {}
    /\ \A id \in DOMAIN groups : groups[id].events \cup groups[id].beds # {}

ReviewInv == BundleTypeOK /\ EveryEventInOneGroup /\ SplitsAreNumbered

-----------------------------------------------------------------------------
\* Marking groups stale changes nothing else about them.
LEMMA MarkStaleKeeps ==
    ASSUME NEW groups, NEW D, groups \in [D -> GroupRecord], NEW ids
    PROVE  /\ MarkStale(groups, ids) \in [D -> GroupRecord]
           /\ \A id \in D : /\ MarkStale(groups, ids)[id].events = groups[id].events
                            /\ MarkStale(groups, ids)[id].beds = groups[id].beds
<1>1. DOMAIN groups = D
  OBVIOUS
<1>2. ASSUME NEW id \in D
      PROVE  LET g == groups[id]
                 h == [g EXCEPT !.stale = @ \/ (id \in ids /\ g.origin = "writer")]
             IN  h \in GroupRecord /\ h.events = g.events /\ h.beds = g.beds
  <2>1. groups[id] \in GroupRecord
    BY <1>2
  <2> QED
    BY <2>1 DEF GroupRecord
<1> QED
  BY <1>1, <1>2 DEF MarkStale

\* A partition and its numbering stay so when groups only change in other ways
\* than their events and beds.
LEMMA SameMembers ==
    ASSUME NEW G, NEW H, DOMAIN H = DOMAIN G,
           \A id \in DOMAIN G : H[id].events = G[id].events /\ H[id].beds = G[id].beds,
           Partition(G)
    PROVE  Partition(H)
BY DEF Partition

\* The id of a split is new.
LEMMA SplitIdIsNew ==
    ASSUME ReviewInv, NEW g \in Ids
    PROVE  /\ SplitId(g) \in Seq(Nat) /\ SplitId(g) \notin Ids
           /\ Len(SplitId(g)) > 1
           /\ SplitId(g)[Len(SplitId(g))] = reviewBundle.edits
<1>1. g \in Seq(Nat) /\ Len(g) > 0 /\ reviewBundle.edits \in Nat
  BY DEF ReviewInv, BundleTypeOK, BundleRecord, SplitsAreNumbered
<1>2. /\ SplitId(g) \in Seq(Nat)
      /\ Len(SplitId(g)) = Len(g) + 1
      /\ SplitId(g)[Len(g) + 1] = reviewBundle.edits
  BY <1>1 DEF SplitId
<1>3. SplitId(g) \notin Ids
  BY <1>1, <1>2 DEF ReviewInv, SplitsAreNumbered
<1> QED
  BY <1>1, <1>2, <1>3

\* A split keeps the partition: some events, not all, move to a group of their own.
LEMMA SplitKeepsPartition ==
    ASSUME ReviewInv, NEW g \in Ids, NEW moved \in SUBSET Groups[g].events,
           moved # {}, moved # Groups[g].events
    PROVE  /\ SplitGroups(g, moved) \in [Ids \cup {SplitId(g)} -> GroupRecord]
           /\ Partition(SplitGroups(g, moved))
<1> DEFINE H == SplitGroups(g, moved)
           new == SplitId(g)
<1>1. Groups \in [Ids -> GroupRecord] /\ Partition(Groups) /\ new \notin Ids
  BY SplitIdIsNew DEF ReviewInv, BundleTypeOK, EveryEventInOneGroup, Partition, Groups, Ids
<1>2. Groups[g] \in GroupRecord /\ moved \subseteq Events
  BY <1>1 DEF GroupRecord
<1>3. DOMAIN H = Ids \cup {new} /\ g # new
  BY <1>1 DEF SplitGroups
<1>4. /\ H[new] \in GroupRecord /\ H[new].events = moved
      /\ H[new].beds = Groups[g].beds
  <2>1. H[new] = [Groups[g] EXCEPT !.events = moved, !.stale = TRUE]
    BY DEF SplitGroups
  <2> QED
    BY <2>1, <1>2 DEF GroupRecord
<1>5. /\ H[g] \in GroupRecord /\ H[g].events = Groups[g].events \ moved
      /\ H[g].beds = Groups[g].beds
  <2>1. H[g] = [Groups[g] EXCEPT !.events = @ \ moved]
    BY <1>3 DEF SplitGroups
  <2> QED
    BY <2>1, <1>2 DEF GroupRecord
<1>6. \A id \in Ids \ {g} : H[id] = Groups[id]
  BY <1>1 DEF SplitGroups
<1>7. H \in [Ids \cup {new} -> GroupRecord]
  <2>1. \A id \in Ids \cup {new} : H[id] \in GroupRecord
    BY <1>1, <1>4, <1>5, <1>6
  <2>2. H = [id \in Ids \cup {new} |-> H[id]]
    BY DEF SplitGroups
  <2> QED
    BY <2>1, <2>2
<1>8. ASSUME NEW e \in Events
      PROVE  \E id \in DOMAIN H : e \in H[id].events
  <2>1. PICK id \in Ids : e \in Groups[id].events
    BY <1>1 DEF Partition, Groups, Ids
  <2> QED
    BY <2>1, <1>3, <1>4, <1>5, <1>6
<1>9. ASSUME NEW i \in DOMAIN H, NEW j \in DOMAIN H, i # j
      PROVE  H[i].events \cap H[j].events = {}
  <2>1. \A a, b \in Ids : a # b => Groups[a].events \cap Groups[b].events = {}
    BY <1>1 DEF Partition, Groups, Ids
  <2>2. \A a \in Ids : H[a].events \subseteq Groups[a].events
    BY <1>5, <1>6
  <2>3. CASE i # new /\ j # new
    BY <2>1, <2>2, <2>3, <1>3, <1>9
  <2>4. ASSUME NEW a \in Ids
        PROVE  H[a].events \cap moved = {}
    BY <2>1, <1>5, <1>6
  <2>5. CASE i = new \/ j = new
    BY <2>4, <2>5, <1>3, <1>4, <1>9
  <2> QED
    BY <2>3, <2>5
<1>10. \A id \in DOMAIN H : H[id].events \cup H[id].beds # {}
  BY <1>1, <1>3, <1>4, <1>5, <1>6 DEF Partition, Groups, Ids
<1> HIDE DEF H
<1>11. Partition(H)
  BY <1>8, <1>9, <1>10 DEF Partition
<1> QED
  BY <1>7, <1>11 DEF H

\* A merge keeps the partition: the members of the others go to one of them.
LEMMA MergeKeepsPartition ==
    ASSUME ReviewInv, NEW picked \in SUBSET Ids, NEW primary \in picked
    PROVE  /\ MergedGroups(primary, picked) \in [(Ids \ picked) \cup {primary} -> GroupRecord]
           /\ Partition(MergedGroups(primary, picked))
<1> DEFINE H == MergedGroups(primary, picked)
           all == UNION {Groups[i].events : i \in picked}
           beds == UNION {Groups[i].beds : i \in picked}
<1>1. Groups \in [Ids -> GroupRecord] /\ Partition(Groups)
  BY DEF ReviewInv, BundleTypeOK, EveryEventInOneGroup, Partition, Groups, Ids
<1>2. \A id \in Ids : Groups[id].events \subseteq Events /\ Groups[id].beds \subseteq Beds
  BY <1>1 DEF GroupRecord
<1>3. DOMAIN H = (Ids \ picked) \cup {primary}
  BY DEF MergedGroups
<1>4. H[primary] \in GroupRecord /\ H[primary].events = all /\ H[primary].beds = beds
  <2>1. H[primary] = [Groups[primary] EXCEPT !.events = all, !.beds = beds]
    BY DEF MergedGroups
  <2>2. all \in SUBSET Events /\ beds \in SUBSET Beds
    BY <1>2
  <2>3. Groups[primary] \in GroupRecord
    BY <1>1
  <2> HIDE DEF all, beds, H
  <2> QED
    BY <2>1, <2>2, <2>3 DEF GroupRecord
<1>5. \A id \in Ids \ picked : H[id] = Groups[id]
  BY DEF MergedGroups
<1>6. H \in [(Ids \ picked) \cup {primary} -> GroupRecord]
  <2>1. \A id \in (Ids \ picked) \cup {primary} : H[id] \in GroupRecord
    BY <1>1, <1>4, <1>5
  <2>2. H = [id \in (Ids \ picked) \cup {primary} |-> H[id]]
    BY DEF MergedGroups
  <2> QED
    BY <2>1, <2>2
<1>7. \A e \in all : \E i \in picked : e \in Groups[i].events
  OBVIOUS
<1>8. \A i \in picked : Groups[i].events \subseteq all /\ Groups[i].beds \subseteq beds
  OBVIOUS
<1> HIDE DEF H, all, beds
<1>9. ASSUME NEW e \in Events
      PROVE  \E id \in DOMAIN H : e \in H[id].events
  <2>1. PICK id \in Ids : e \in Groups[id].events
    BY <1>1 DEF Partition, Groups, Ids
  <2> QED
    BY <2>1, <1>3, <1>4, <1>5, <1>8
<1>10. ASSUME NEW i \in DOMAIN H, NEW j \in DOMAIN H, i # j
       PROVE  H[i].events \cap H[j].events = {}
  <2>1. \A a, b \in Ids : a # b => Groups[a].events \cap Groups[b].events = {}
    BY <1>1 DEF Partition, Groups, Ids
  <2>2. ASSUME NEW a \in Ids \ picked
        PROVE  Groups[a].events \cap all = {}
    BY <2>1, <1>7
  <2> QED
    BY <2>1, <2>2, <1>3, <1>4, <1>5, <1>10
<1>11. \A id \in DOMAIN H : H[id].events \cup H[id].beds # {}
  <2>1. \A id \in Ids : Groups[id].events \cup Groups[id].beds # {}
    BY <1>1 DEF Partition, Groups, Ids
  <2> QED
    BY <2>1, <1>3, <1>4, <1>5, <1>8
<1>12. Partition(H)
  BY <1>9, <1>10, <1>11 DEF Partition
<1> QED
  BY <1>6, <1>12 DEF H

-----------------------------------------------------------------------------
\* What an edit has to show: groups with the members of a partition, ids that
\* were there or end in the number of this edit, and one more entry in the log.
LEMMA EditKeeps ==
    ASSUME ReviewInv, NEW D, D \in SUBSET Seq(Nat), NEW G \in [D -> GroupRecord], NEW ids,
           Partition(G),
           \A id \in D \ Ids : Len(id) > 1 /\ id[Len(id)] = reviewBundle.edits,
           NEW names \in [Sources -> Nat], NEW reviewed \in SUBSET IssueIds,
           \/ reviewBundle' = [groups |-> MarkStale(G, ids), names |-> names,
                               reviewed |-> reviewed, edits |-> reviewBundle.edits + 1]
           \/ reviewBundle' = [groups |-> G, names |-> names,
                               reviewed |-> reviewed, edits |-> reviewBundle.edits + 1]
    PROVE  ReviewInv'
<1>1. PICK H \in {G, MarkStale(G, ids)} :
        reviewBundle' = [groups |-> H, names |-> names,
                         reviewed |-> reviewed, edits |-> reviewBundle.edits + 1]
  OBVIOUS
<1>2. H \in [D -> GroupRecord] /\ Partition(H)
  <2>1. /\ MarkStale(G, ids) \in [D -> GroupRecord]
        /\ \A id \in D : /\ MarkStale(G, ids)[id].events = G[id].events
                         /\ MarkStale(G, ids)[id].beds = G[id].beds
    BY MarkStaleKeeps
  <2>2. DOMAIN G = D /\ DOMAIN MarkStale(G, ids) = D
    BY <2>1
  <2>3. Partition(MarkStale(G, ids))
    BY <2>1, <2>2, SameMembers
  <2> QED
    BY <2>1, <2>3
<1>3. Groups' = H /\ Ids' = D /\ (reviewBundle.edits)' = reviewBundle.edits + 1
  BY <1>1, <1>2 DEF Groups, Ids
<1>4. reviewBundle.edits \in Nat
  BY DEF ReviewInv, BundleTypeOK, BundleRecord
<1>5. BundleTypeOK'
  <2>1. reviewBundle' \in BundleRecord(H)
    BY <1>1, <1>4 DEF BundleRecord
  <2> QED
    BY <2>1, <1>2, <1>3 DEF BundleTypeOK, BundleRecord
<1>6. EveryEventInOneGroup'
  BY <1>2, <1>3 DEF EveryEventInOneGroup, Partition
<1>7. SplitsAreNumbered'
  <2> SUFFICES ASSUME NEW id \in D
               PROVE  Len(id) > 0 /\ (Len(id) > 1 => id[Len(id)] < reviewBundle.edits + 1)
    BY <1>3 DEF SplitsAreNumbered
  <2>1. id \in Seq(Nat)
    OBVIOUS
  <2>2. Len(id) > 1 => id[Len(id)] \in Nat
    BY <2>1
  <2>3. CASE id \in Ids
    BY <2>2, <2>3, <1>4 DEF ReviewInv, SplitsAreNumbered
  <2>4. CASE id \notin Ids
    BY <2>1, <2>4, <1>4
  <2> QED
    BY <2>3, <2>4
<1> QED
  BY <1>5, <1>6, <1>7 DEF ReviewInv

LEMMA InitKeeps ==
    ASSUME ReviewInit
    PROVE  ReviewInv
<1>0. PICK grouping \in Groupings : \E written \in SUBSET DOMAIN grouping :
        reviewBundle = NewBundle(grouping, written)
  BY DEF ReviewInit
<1>1. PICK written \in SUBSET DOMAIN grouping : reviewBundle = NewBundle(grouping, written)
  BY <1>0
<1> DEFINE D == DOMAIN grouping
<1>2. /\ D \subseteq Seq(Nat) /\ \A id \in D : Len(id) = 1
      /\ \A id \in D : /\ grouping[id].events \subseteq Events
                       /\ grouping[id].beds \subseteq Beds
                       /\ grouping[id].events \cup grouping[id].beds # {}
      /\ \A e \in Events : \E id \in D : e \in grouping[id].events
      /\ \A i, j \in D : i # j => grouping[i].events \cap grouping[j].events = {}
  BY ReviewAssumption
<1>3. /\ Ids = D
      /\ \A id \in D :
           Groups[id] = [events |-> grouping[id].events, beds |-> grouping[id].beds,
                         route |-> "gemini",
                         origin |-> IF id \in written THEN "writer" ELSE "none",
                         stale |-> FALSE,
                         about |-> About(grouping[id].events, [s \in Sources |-> 0])]
      /\ Groups = [id \in D |-> Groups[id]]
      /\ reviewBundle = [groups |-> Groups, names |-> [s \in Sources |-> 0],
                         reviewed |-> {}, edits |-> 0]
  BY <1>1 DEF NewBundle, Groups, Ids
<1>4. /\ \A id \in D : /\ Groups[id].events = grouping[id].events
                       /\ Groups[id].beds = grouping[id].beds
      /\ reviewBundle.edits = 0
  <2>1. ASSUME NEW id \in D
        PROVE  Groups[id].events = grouping[id].events /\ Groups[id].beds = grouping[id].beds
    <3>1. Groups[id] = [events |-> grouping[id].events, beds |-> grouping[id].beds,
                        route |-> "gemini",
                        origin |-> IF id \in written THEN "writer" ELSE "none",
                        stale |-> FALSE,
                        about |-> About(grouping[id].events, [s \in Sources |-> 0])]
      BY <1>3
    <3> QED
      BY <3>1
  <2>2. reviewBundle.edits = 0
    BY <1>1 DEF NewBundle
  <2> QED
    BY <2>1, <2>2
<1>5. ASSUME NEW id \in D
      PROVE  Groups[id] \in GroupRecord
  <2> DEFINE names == [s \in Sources |-> 0]
             about == About(grouping[id].events, names)
             origin == IF id \in written THEN "writer" ELSE "none"
  <2>1. names \in [Sources -> Nat] /\ grouping[id].events \in SUBSET Events
        /\ grouping[id].beds \in SUBSET Beds
    BY <1>2
  <2>2. Groups[id] = [events |-> grouping[id].events, beds |-> grouping[id].beds,
                      route |-> "gemini", origin |-> origin, stale |-> FALSE, about |-> about]
    BY <1>3
  <2>3. origin \in {"writer", "none"}
    OBVIOUS
  <2> HIDE DEF names, origin
  <2>4. about \in Abouts
    BY <2>1 DEF Abouts
  <2> HIDE DEF about
  <2> QED
    BY <2>1, <2>2, <2>3, <2>4 DEF GroupRecord
<1>6. BundleTypeOK
  <2>1. reviewBundle \in BundleRecord(Groups)
    BY <1>3 DEF BundleRecord
  <2>2. Groups \in [Ids -> GroupRecord]
    BY <1>3, <1>5
  <2> QED
    BY <2>1, <2>2, <1>2, <1>3 DEF BundleTypeOK
<1>7. Ids = D
  BY <1>3
<1> HIDE DEF D
<1>8. EveryEventInOneGroup
  BY <1>2, <1>4, <1>7 DEF EveryEventInOneGroup
<1>9. SplitsAreNumbered
  <2> SUFFICES ASSUME NEW id \in D
               PROVE  Len(id) > 0 /\ (Len(id) > 1 => id[Len(id)] < reviewBundle.edits)
    BY <1>7 DEF SplitsAreNumbered
  <2>1. Len(id) = 1
    BY <1>2
  <2> QED
    BY <2>1
<1> QED
  BY <1>6, <1>8, <1>9 DEF ReviewInv

LEMMA NextKeeps ==
    ASSUME ReviewInv, [ReviewNext]_reviewBundle
    PROVE  ReviewInv'
<1>1. /\ reviewBundle \in BundleRecord(Groups)
      /\ Ids \in SUBSET Seq(Nat) /\ Groups \in [Ids -> GroupRecord] /\ Partition(Groups)
  BY DEF ReviewInv, BundleTypeOK, EveryEventInOneGroup, Partition, Groups, Ids
<1>2. /\ reviewBundle.groups = Groups
      /\ reviewBundle.names \in [Sources -> Nat]
      /\ reviewBundle.reviewed \in SUBSET IssueIds
      /\ reviewBundle = [groups |-> Groups, names |-> reviewBundle.names,
                         reviewed |-> reviewBundle.reviewed, edits |-> reviewBundle.edits]
  BY <1>1 DEF BundleRecord, Groups
<1>3. ASSUME NEW g \in Ids, RouteOverride(g)
      PROVE  ReviewInv'
  <2> DEFINE G == [Groups EXCEPT ![g].route = "manual"]
  <2>1. Groups[g] \in GroupRecord
    BY <1>1
  <2>2. /\ [Groups[g] EXCEPT !.route = "manual"] \in GroupRecord
        /\ [Groups[g] EXCEPT !.route = "manual"].events = Groups[g].events
        /\ [Groups[g] EXCEPT !.route = "manual"].beds = Groups[g].beds
    BY <2>1 DEF GroupRecord
  <2>3. /\ G \in [Ids -> GroupRecord] /\ DOMAIN G = DOMAIN Groups
        /\ \A id \in DOMAIN Groups : G[id].events = Groups[id].events /\ G[id].beds = Groups[id].beds
    BY <1>1, <2>2
  <2>4. Partition(G)
    BY <1>1, <2>3, SameMembers
  <2>5. reviewBundle' = [groups |-> G, names |-> reviewBundle.names,
                         reviewed |-> reviewBundle.reviewed, edits |-> reviewBundle.edits + 1]
    BY <1>2, <1>3 DEF RouteOverride, Logged
  <2> HIDE DEF G
  <2> QED
    BY <1>1, <1>2, <2>3, <2>4, <2>5, EditKeeps
<1>4. ASSUME NEW g \in Ids, NEW picked \in SUBSET Events, Split(g, picked)
      PROVE  ReviewInv'
  <2> DEFINE moved == Groups[g].events \cap picked
             G == SplitGroups(g, moved)
             D == Ids \cup {SplitId(g)}
             marked == MarkStale(G, {g, SplitId(g)})
  <2>1. moved # {} /\ moved # Groups[g].events /\ moved \in SUBSET Groups[g].events
    BY <1>4 DEF Split
  <2>2. G \in [D -> GroupRecord] /\ Partition(G)
    BY <2>1, SplitKeepsPartition
  <2>3. /\ D \in SUBSET Seq(Nat)
        /\ \A id \in D \ Ids : Len(id) > 1 /\ id[Len(id)] = reviewBundle.edits
    BY <1>1, SplitIdIsNew
  <2>4. reviewBundle' = [groups |-> marked, names |-> reviewBundle.names,
                         reviewed |-> reviewBundle.reviewed, edits |-> reviewBundle.edits + 1]
    <3>1. reviewBundle' = Logged([reviewBundle EXCEPT !.groups = marked])
      BY <1>4 DEF Split
    <3> HIDE DEF marked
    <3> QED
      BY <3>1, <1>2 DEF Logged
  <2> HIDE DEF G, D, moved
  <2> QED
    BY <1>2, <2>2, <2>3, <2>4, EditKeeps
<1>5. ASSUME NEW picked \in SUBSET Ids, NEW primary \in picked, Merge(primary, picked)
      PROVE  ReviewInv'
  <2> DEFINE G == MergedGroups(primary, picked)
             D == (Ids \ picked) \cup {primary}
             marked == MarkStale(G, {primary})
  <2>1. G \in [D -> GroupRecord] /\ Partition(G)
    BY MergeKeepsPartition
  <2>2. D \in SUBSET Seq(Nat) /\ D \ Ids = {}
    BY <1>1
  <2>3. reviewBundle' = [groups |-> marked, names |-> reviewBundle.names,
                         reviewed |-> reviewBundle.reviewed, edits |-> reviewBundle.edits + 1]
    <3>1. reviewBundle' = Logged([reviewBundle EXCEPT !.groups = marked])
      BY <1>5 DEF Merge
    <3> HIDE DEF marked
    <3> QED
      BY <3>1, <1>2 DEF Logged
  <2> HIDE DEF G, D
  <2> QED
    BY <1>2, <2>1, <2>2, <2>3, EditKeeps
<1>6. ASSUME NEW s \in Sources, RenameSource(s)
      PROVE  ReviewInv'
  <2> DEFINE ids == {id \in Ids : \E e \in Groups[id].events : SourceOf[e] = s}
             marked == MarkStale(Groups, ids)
             names == [reviewBundle.names EXCEPT ![s] = @ + 1]
  <2>1. names \in [Sources -> Nat]
    BY <1>2
  <2>2. reviewBundle' = [groups |-> marked, names |-> names,
                         reviewed |-> reviewBundle.reviewed, edits |-> reviewBundle.edits + 1]
    <3>1. reviewBundle' = Logged([reviewBundle EXCEPT !.names = names, !.groups = marked])
      BY <1>2, <1>6 DEF RenameSource
    <3> HIDE DEF marked, names
    <3> QED
      BY <3>1, <1>2 DEF Logged
  <2>3. Ids \ Ids = {}
    OBVIOUS
  <2> HIDE DEF ids, names
  <2> QED
    BY <1>1, <1>2, <2>1, <2>2, <2>3, EditKeeps
<1>7. ASSUME NEW i \in IssueIds, ApproveIssue(i)
      PROVE  ReviewInv'
  <2> DEFINE reviewed == reviewBundle.reviewed \cup {i}
  <2>1. reviewed \in SUBSET IssueIds
    BY <1>2
  <2>2. reviewBundle' = [groups |-> Groups, names |-> reviewBundle.names,
                         reviewed |-> reviewed, edits |-> reviewBundle.edits + 1]
    BY <1>2, <1>7 DEF ApproveIssue, Logged
  <2>3. Ids \ Ids = {}
    OBVIOUS
  <2> HIDE DEF reviewed
  <2> QED
    BY <1>1, <1>2, <2>1, <2>2, <2>3, EditKeeps
<1>8. CASE UNCHANGED reviewBundle
  BY <1>8 DEF ReviewInv, BundleTypeOK, EveryEventInOneGroup, SplitsAreNumbered, Groups, Ids, BundleRecord
<1> QED
  BY <1>3, <1>4, <1>5, <1>6, <1>7, <1>8 DEF ReviewNext

-----------------------------------------------------------------------------
\* However often and in whatever order a person splits, merges, renames and
\* approves, every sound event of the result stays in exactly one group, no new
\* id hits an old one, and no group is empty (review.py).
THEOREM EventsStayInOneGroup == ReviewSpec => []EveryEventInOneGroup
<1>1. ReviewInv => EveryEventInOneGroup
  BY DEF ReviewInv
<1> QED
  BY <1>1, InitKeeps, NextKeeps, PTL DEF ReviewSpec

-----------------------------------------------------------------------------
(***************************************************************************)
(* Descriptions.                                                           *)
(***************************************************************************)
\* DescriptionsTellTheirGroup of one group, under the names sources have.
Tells(group, names) ==
    group.origin = "writer" /\ ~group.stale => group.about = About(group.events, names)

\* Marking is all that a description needs which an edit made untrue.
LEMMA MarkedTells ==
    ASSUME NEW D, NEW G \in [D -> GroupRecord], NEW ids, NEW names,
           \A id \in D \ ids : Tells(G[id], names)
    PROVE  \A id \in D : Tells(MarkStale(G, ids)[id], names)
<1> SUFFICES ASSUME NEW id \in D
             PROVE  Tells(MarkStale(G, ids)[id], names)
  OBVIOUS
<1>1. G[id] \in GroupRecord
  OBVIOUS
<1>2. MarkStale(G, ids)[id] = [G[id] EXCEPT !.stale = @ \/ (id \in ids /\ G[id].origin = "writer")]
  BY DEF MarkStale
<1>3. ASSUME NEW marked \in BOOLEAN
      PROVE  LET h == [G[id] EXCEPT !.stale = marked]
             IN  h.origin = G[id].origin /\ h.events = G[id].events /\ h.about = G[id].about
                 /\ h.stale = marked
  BY <1>1 DEF GroupRecord
<1>4. G[id].stale \in BOOLEAN
  BY <1>1 DEF GroupRecord
<1>5. CASE id \in ids
  BY <1>2, <1>3, <1>4, <1>5 DEF Tells
<1>6. CASE id \notin ids
  BY <1>2, <1>3, <1>4, <1>6 DEF Tells
<1> QED
  BY <1>5, <1>6

\* An edit after which descriptions tell their groups: groups that tell theirs,
\* or are marked.
LEMMA EditTells ==
    ASSUME NEW D, NEW G \in [D -> GroupRecord], NEW ids, NEW names,
           \A id \in D \ ids : Tells(G[id], names),
           reviewBundle'.groups = MarkStale(G, ids), reviewBundle'.names = names
    PROVE  DescriptionsTellTheirGroup'
<1> DEFINE H == MarkStale(G, ids)
<1>1. DOMAIN H = D
  BY DEF MarkStale
<1>2. \A id \in D : Tells(H[id], names)
  BY MarkedTells
<1>3. reviewBundle'.groups = H
  OBVIOUS
<1> HIDE DEF H
<1> QED
  BY <1>1, <1>2, <1>3 DEF DescriptionsTellTheirGroup, Tells, Groups, Ids

\* What a source is not named in does not change when it is renamed.
LEMMA RenamedElsewhere ==
    ASSUME NEW events \in SUBSET Events, NEW names \in [Sources -> Nat], NEW s \in Sources,
           \A e \in events : SourceOf[e] # s
    PROVE  About(events, [names EXCEPT ![s] = @ + 1]) = About(events, names)
<1>1. \A e \in events : SourceOf[e] \in Sources
  BY ReviewAssumption
<1>2. [e \in events |-> [names EXCEPT ![s] = @ + 1][SourceOf[e]]] = [e \in events |-> names[SourceOf[e]]]
  BY <1>1
<1> QED
  BY <1>2 DEF About

LEMMA InitTells ==
    ASSUME ReviewInit
    PROVE  DescriptionsTellTheirGroup
<1>1. PICK grouping \in Groupings : \E written \in SUBSET DOMAIN grouping :
        reviewBundle = NewBundle(grouping, written)
  BY DEF ReviewInit
<1>2. PICK written \in SUBSET DOMAIN grouping : reviewBundle = NewBundle(grouping, written)
  BY <1>1
<1> DEFINE names == [s \in Sources |-> 0]
<1>3. Ids = DOMAIN grouping /\ reviewBundle.names = names
  BY <1>2 DEF NewBundle, Ids
<1>4. ASSUME NEW id \in DOMAIN grouping
      PROVE  /\ Groups[id].events = grouping[id].events
             /\ Groups[id].about = About(grouping[id].events, names)
  <2>1. Groups[id] = [events |-> grouping[id].events, beds |-> grouping[id].beds,
                      route |-> "gemini",
                      origin |-> IF id \in written THEN "writer" ELSE "none",
                      stale |-> FALSE,
                      about |-> About(grouping[id].events, names)]
    BY <1>2 DEF NewBundle, Groups
  <2> QED
    BY <2>1
<1> QED
  BY <1>3, <1>4 DEF DescriptionsTellTheirGroup

LEMMA NextTells ==
    ASSUME ReviewInv, DescriptionsTellTheirGroup, [ReviewNext]_reviewBundle
    PROVE  DescriptionsTellTheirGroup'
<1> DEFINE names == reviewBundle.names
<1>1. /\ reviewBundle \in BundleRecord(Groups)
      /\ Groups \in [Ids -> GroupRecord]
      /\ names \in [Sources -> Nat]
      /\ reviewBundle = [groups |-> Groups, names |-> names,
                         reviewed |-> reviewBundle.reviewed, edits |-> reviewBundle.edits]
  BY DEF ReviewInv, BundleTypeOK, BundleRecord
<1>2. \A id \in Ids : Tells(Groups[id], names)
  BY DEF DescriptionsTellTheirGroup, Tells
<1> HIDE DEF names
<1>3. ASSUME NEW groups, NEW b, b = Logged([reviewBundle EXCEPT !.groups = groups])
      PROVE  b.groups = groups /\ b.names = names
  BY <1>1, <1>3 DEF Logged
<1>4. ASSUME NEW g \in Ids, RouteOverride(g)
      PROVE  DescriptionsTellTheirGroup'
  <2> DEFINE G == [Groups EXCEPT ![g].route = "manual"]
  <2>1. Groups[g] \in GroupRecord
    BY <1>1
  <2>2. LET h == [Groups[g] EXCEPT !.route = "manual"]
        IN  /\ h.events = Groups[g].events /\ h.about = Groups[g].about
            /\ h.origin = Groups[g].origin /\ h.stale = Groups[g].stale
    BY <2>1 DEF GroupRecord
  <2>3. DOMAIN G = Ids /\ \A id \in Ids : Tells(G[id], names)
    BY <1>1, <1>2, <2>2 DEF Tells
  <2>4. reviewBundle'.groups = G /\ reviewBundle'.names = names
    <3>0. reviewBundle.names = names /\ reviewBundle.groups = Groups
      BY DEF names, Groups
    <3>1. reviewBundle' = [groups |-> G, names |-> names,
                           reviewed |-> reviewBundle.reviewed, edits |-> reviewBundle.edits + 1]
      BY <1>1, <1>4, <3>0 DEF RouteOverride, Logged
    <3> HIDE DEF G
    <3> QED
      BY <3>1
  <2> HIDE DEF G
  <2> QED
    BY <2>3, <2>4 DEF DescriptionsTellTheirGroup, Tells, Groups, Ids
<1>5. ASSUME NEW g \in Ids, NEW picked \in SUBSET Events, Split(g, picked)
      PROVE  DescriptionsTellTheirGroup'
  <2> DEFINE moved == Groups[g].events \cap picked
             G == SplitGroups(g, moved)
             D == Ids \cup {SplitId(g)}
             ids == {g, SplitId(g)}
  <2>1. G \in [D -> GroupRecord]
    BY <1>5, SplitKeepsPartition DEF Split
  <2>2. \A id \in D \ ids : Tells(G[id], names)
    BY <1>2 DEF SplitGroups
  <2>3. reviewBundle' = Logged([reviewBundle EXCEPT !.groups = MarkStale(G, ids)])
    BY <1>5 DEF Split
  <2> HIDE DEF G, D, ids
  <2>4. reviewBundle'.groups = MarkStale(G, ids) /\ reviewBundle'.names = names
    BY <1>3, <2>3
  <2> QED
    BY <2>1, <2>2, <2>4, EditTells
<1>6. ASSUME NEW picked \in SUBSET Ids, NEW primary \in picked, Merge(primary, picked)
      PROVE  DescriptionsTellTheirGroup'
  <2> DEFINE G == MergedGroups(primary, picked)
             D == (Ids \ picked) \cup {primary}
  <2>1. G \in [D -> GroupRecord]
    BY MergeKeepsPartition
  <2>2. \A id \in D \ {primary} : Tells(G[id], names)
    BY <1>2 DEF MergedGroups
  <2>3. reviewBundle' = Logged([reviewBundle EXCEPT !.groups = MarkStale(G, {primary})])
    BY <1>6 DEF Merge
  <2> HIDE DEF G, D
  <2>4. reviewBundle'.groups = MarkStale(G, {primary}) /\ reviewBundle'.names = names
    BY <1>3, <2>3
  <2> QED
    BY <2>1, <2>2, <2>4, EditTells
<1>7. ASSUME NEW s \in Sources, RenameSource(s)
      PROVE  DescriptionsTellTheirGroup'
  <2> DEFINE ids == {id \in Ids : \E e \in Groups[id].events : SourceOf[e] = s}
             renamed == [names EXCEPT ![s] = @ + 1]
             marked == MarkStale(Groups, ids)
  <2>1. ASSUME NEW id \in Ids \ ids
        PROVE  Tells(Groups[id], renamed)
    <3>1. Groups[id].events \in SUBSET Events
      BY <1>1 DEF GroupRecord
    <3>2. \A e \in Groups[id].events : SourceOf[e] # s
      BY <2>1
    <3> QED
      BY <1>1, <1>2, <3>1, <3>2, RenamedElsewhere DEF Tells
  <2>2. reviewBundle'.groups = marked /\ reviewBundle'.names = renamed
    <3>0. reviewBundle.names = names /\ reviewBundle.groups = Groups
      BY DEF names, Groups
    <3>1. reviewBundle' = Logged([reviewBundle EXCEPT !.names = renamed, !.groups = marked])
      BY <1>1, <1>7, <3>0 DEF RenameSource
    <3> HIDE DEF marked, renamed
    <3> QED
      BY <3>1, <1>1 DEF Logged
  <2> HIDE DEF ids, renamed
  <2> QED
    BY <1>1, <2>1, <2>2, EditTells
<1>8. ASSUME NEW i \in IssueIds, ApproveIssue(i)
      PROVE  DescriptionsTellTheirGroup'
  <2>1. reviewBundle'.groups = Groups /\ reviewBundle'.names = names
    BY <1>1, <1>8 DEF ApproveIssue, Logged
  <2> QED
    BY <1>1, <1>2, <2>1 DEF DescriptionsTellTheirGroup, Tells, Groups, Ids
<1>9. CASE UNCHANGED reviewBundle
  BY <1>9 DEF DescriptionsTellTheirGroup, Groups, Ids
<1> QED
  BY <1>4, <1>5, <1>6, <1>7, <1>8, <1>9 DEF ReviewNext

\* However a person splits, merges and renames, a description of the writer that does
\* not count as stale tells of the events its group has and of the names their
\* sources have (review.py, the stale_description marks of the edits).
THEOREM DescriptionsAlwaysTell == ReviewSpec => []DescriptionsTellTheirGroup
  BY InitKeeps, NextKeeps, InitTells, NextTells, PTL DEF ReviewSpec

-----------------------------------------------------------------------------
(***************************************************************************)
(* Sessions.                                                               *)
(***************************************************************************)
SessionRecord ==
    [file : Files \cup {Nothing}, video : Videos \cup {Nothing},
     bundle : Results \cup {Nothing}, clips : (1..MaxDirs) \cup {Nothing},
     at : {"idle", "rerun", "waiting", "analysing"}]

SessionsTypeOK ==
    /\ session \in [Sessions -> SessionRecord]
    /\ dirs \subseteq 1..MaxDirs /\ made \in 0..MaxDirs
    /\ files \in [1..MaxDirs -> Results \cup {Nothing}]
    /\ free \in Nat /\ revisions \in 0..MaxRevisions

(***************************************************************************)
(* The inductive invariant.  A session writes its result into a directory  *)
(* that was made for it and that no other session has, so nobody but the   *)
(* session and the cleaning touches the file; an analysis under way has a  *)
(* video and a directory and replaces no result.                           *)
(***************************************************************************)
\* An analysis waits or runs only in a session that is ready for its result.
Ready(se) ==
    se.at \in {"waiting", "analysing"} =>
        se.video # Nothing /\ se.clips # Nothing /\ se.bundle = Nothing

\* ResultsAreOfTheVideo of one session.
Shows(se, ds, fs) ==
    se.bundle # Nothing =>
        /\ se.video # Nothing /\ se.video.of = se.bundle.of
        /\ se.clips # Nothing
        /\ se.clips \in ds => fs[se.clips] = se.bundle

ClipsMade == \A s \in Sessions : session[s].clips # Nothing => session[s].clips <= made

ClipsApart ==
    \A s, t \in Sessions : s # t /\ session[s].clips # Nothing =>
                               session[s].clips # session[t].clips

SessionsInv ==
    /\ SessionsTypeOK
    /\ ClipsMade /\ ClipsApart
    /\ \A s \in Sessions : Ready(session[s]) /\ Shows(session[s], dirs, files)

LEMMA InitSessionsInv == ASSUME SessionsInit PROVE SessionsInv
<1>1. NewSession \in SessionRecord
  BY DEF NewSession, SessionRecord
<1>2. NewSession.clips = Nothing /\ NewSession.bundle = Nothing /\ NewSession.at = "idle"
  BY DEF NewSession
<1>3. \A s \in Sessions : session[s] = NewSession
  BY DEF SessionsInit
<1>4. SessionsTypeOK
  BY <1>1, SessionsAssumption DEF SessionsInit, SessionsTypeOK
<1> QED
  BY <1>2, <1>3, <1>4 DEF SessionsInv, ClipsMade, ClipsApart, Ready, Shows

-----------------------------------------------------------------------------
\* What a step of one session has to show: a session that is ready or not under
\* way, whose directory is its old one or made in this step, and whose result is the
\* file; and that the directories of the others, unless removed, stay as they were.
LEMMA SessionMoves ==
    ASSUME SessionsInv, NEW s \in Sessions, NEW r \in SessionRecord,
           session' = [session EXCEPT ![s] = r],
           dirs' \subseteq 1..MaxDirs, made' \in 0..MaxDirs, made <= made',
           files' \in [1..MaxDirs -> Results \cup {Nothing}],
           free' \in Nat, revisions' \in 0..MaxRevisions,
           Ready(r), Shows(r, dirs', files'),
           \/ r.clips \in {Nothing, session[s].clips}
           \/ r.clips \in 1..MaxDirs /\ made < r.clips /\ r.clips <= made',
           \A d \in 1..made : d # session[s].clips /\ d \in dirs' =>
               d \in dirs /\ files'[d] = files[d]
    PROVE  SessionsInv'
<1>1. session \in [Sessions -> SessionRecord]
  BY DEF SessionsInv, SessionsTypeOK
<1>2. session'[s] = r /\ \A t \in Sessions \ {s} : session'[t] = session[t]
  BY <1>1
<1>3. SessionsTypeOK'
  BY <1>1 DEF SessionsTypeOK
<1>4. \A t \in Sessions : session[t].clips \in (1..MaxDirs) \cup {Nothing}
  BY <1>1 DEF SessionRecord
<1>5. made \in Nat /\ made' \in Nat /\ MaxDirs \in Nat /\ Nothing \notin 1..MaxDirs
  BY SessionsAssumption DEF SessionsInv, SessionsTypeOK
<1>6. \A t \in Sessions : session[t].clips # Nothing => session[t].clips \in 1..made
  BY <1>4, <1>5 DEF SessionsInv, ClipsMade
<1>7. ClipsMade'
  BY <1>2, <1>5, <1>6 DEF ClipsMade
<1>8. ClipsApart'
  <2>1. \A t \in Sessions \ {s} : r.clips # Nothing => r.clips # session[t].clips
    BY <1>4, <1>5, <1>6 DEF SessionsInv, ClipsApart
  <2> QED
    BY <1>2, <2>1 DEF SessionsInv, ClipsApart
<1>9. ASSUME NEW t \in Sessions \ {s}
      PROVE  Shows(session[t], dirs', files')
  <2>1. CASE session[t].bundle = Nothing
    BY <2>1 DEF Shows
  <2>2. CASE session[t].bundle # Nothing
    <3>1. session[t].clips # Nothing /\ session[t].clips \in 1..made
      BY <1>6, <2>2 DEF SessionsInv, Shows
    <3>2. session[t].clips # session[s].clips
      BY <3>1 DEF SessionsInv, ClipsApart
    <3> QED
      BY <3>1, <3>2 DEF SessionsInv, Shows
  <2> QED
    BY <2>1, <2>2
<1> QED
  BY <1>2, <1>3, <1>7, <1>8, <1>9 DEF SessionsInv

\* Directories that are removed and made.
LEMMA ReplaceKeeps ==
    ASSUME SessionsInv, NEW gone, NEW new \in SUBSET ((made + 1)..MaxDirs), Replace(gone, new)
    PROVE  /\ dirs' \subseteq 1..MaxDirs
           /\ files' \in [1..MaxDirs -> Results \cup {Nothing}]
           /\ \A d \in 1..made : d \in dirs' => d \in dirs /\ files'[d] = files[d]
<1>1. made \in Nat /\ MaxDirs \in Nat /\ dirs \subseteq 1..MaxDirs
      /\ files \in [1..MaxDirs -> Results \cup {Nothing}] /\ made <= MaxDirs
  BY SessionsAssumption DEF SessionsInv, SessionsTypeOK
<1>2. dirs' = (dirs \ gone) \cup new /\ files' = [d \in 1..MaxDirs |-> IF d \in gone THEN Nothing ELSE files[d]]
  BY <1>1 DEF Replace
<1>3. dirs' \subseteq 1..MaxDirs
  <2>1. new \subseteq 1..MaxDirs
    BY <1>1
  <2> QED
    BY <2>1, <1>1, <1>2
<1>4. files' \in [1..MaxDirs -> Results \cup {Nothing}]
  BY <1>1, <1>2
<1>5. ASSUME NEW d \in 1..made, d \in dirs'
      PROVE  d \in dirs /\ files'[d] = files[d]
  <2>1. d \notin new /\ d \in 1..MaxDirs
    BY <1>1
  <2>2. d \in dirs /\ d \notin gone
    BY <2>1, <1>2, <1>5
  <2> QED
    BY <2>1, <2>2, <1>2
<1> QED
  BY <1>3, <1>4, <1>5

-----------------------------------------------------------------------------
\* What a session is after the steps that clear it or save a video.
LEMMA ClearedIsEmpty ==
    ASSUME NEW se \in SessionRecord
    PROVE  /\ Cleared(se) \in SessionRecord
           /\ Cleared(se).bundle = Nothing /\ Cleared(se).clips = Nothing
           /\ Cleared(se).at = "idle" /\ Cleared(se).video = Nothing
  BY DEF Cleared, NewSession, SessionRecord

LEMMA SavedHasVideo ==
    ASSUME NEW se \in SessionRecord, se.file # Nothing, NEW d \in 1..MaxDirs
    PROVE  /\ Saved(se, d) \in SessionRecord
           /\ Saved(se, d).bundle = Nothing /\ Saved(se, d).clips = Nothing
           /\ Saved(se, d).at = "idle" /\ Saved(se, d).video # Nothing
<1> DEFINE video == [dir |-> d, name |-> SafeName[NameOf[se.file]], of |-> se.file]
<1>1. se.file \in Files
  BY DEF SessionRecord
<1>2. video \in Videos
  BY <1>1 DEF Videos
<1>3. video # Nothing
  BY <1>2, SessionsAssumption
<1>4. Saved(se, d) = [Cleared(se) EXCEPT !.video = video]
  BY DEF Saved
<1> HIDE DEF video
<1> QED
  BY <1>2, <1>3, <1>4, ClearedIsEmpty DEF SessionRecord

\* The script goes on somewhere else and changes nothing but where it is.
LEMMA Goes ==
    ASSUME NEW se \in SessionRecord, NEW place \in {"idle", "rerun", "waiting", "analysing"}
    PROVE  LET r == [se EXCEPT !.at = place]
           IN  /\ r \in SessionRecord /\ r.at = place
               /\ r.file = se.file /\ r.video = se.video /\ r.bundle = se.bundle /\ r.clips = se.clips
  BY DEF SessionRecord

\* Nothing but sessions changes.
LEMMA OnlySession ==
    ASSUME SessionsInv, NEW s \in Sessions, NEW r \in SessionRecord,
           session' = [session EXCEPT ![s] = r],
           UNCHANGED <<dirs, made, files, revisions>>, free' \in Nat,
           Ready(r), Shows(r, dirs, files), r.clips \in {Nothing, session[s].clips}
    PROVE  SessionsInv'
<1>1. /\ dirs' = dirs /\ made' = made /\ files' = files /\ revisions' = revisions
      /\ dirs \subseteq 1..MaxDirs /\ made \in 0..MaxDirs
      /\ files \in [1..MaxDirs -> Results \cup {Nothing}] /\ revisions \in 0..MaxRevisions
  BY DEF SessionsInv, SessionsTypeOK
<1>2. Shows(r, dirs', files') /\ made <= made'
  BY <1>1
<1>3. \A d \in 1..made : d # session[s].clips /\ d \in dirs' => d \in dirs /\ files'[d] = files[d]
  BY <1>1
<1> QED
  BY <1>1, <1>2, <1>3, SessionMoves

LEMMA StepsKeep ==
    ASSUME SessionsInv, NEW s \in Sessions,
           \/ RunScript(s) \/ Touch(s) \/ CloseTab(s)
           \/ \E f \in Files \cup {Nothing} : ChooseFile(s, f)
           \/ AcquireSlot(s) \/ ServerBusy(s) \/ AnalysisEnds(s)
    PROVE  SessionsInv'
<1> DEFINE se == session[s]
<1>1. /\ session \in [Sessions -> SessionRecord] /\ se \in SessionRecord
      /\ Ready(se) /\ Shows(se, dirs, files) /\ free \in Nat
  BY DEF SessionsInv, SessionsTypeOK
<1>2. ASSUME NEW place \in {"idle", "rerun"}, session' = [session EXCEPT ![s].at = place],
             UNCHANGED <<dirs, made, files, revisions>>, free' \in Nat
      PROVE  SessionsInv'
  <2> DEFINE r == [se EXCEPT !.at = place]
  <2>0. place \in {"idle", "rerun", "waiting", "analysing"}
    BY <1>2
  <2>1. /\ r \in SessionRecord /\ r.at = place
        /\ r.video = se.video /\ r.bundle = se.bundle /\ r.clips = se.clips
    BY <1>1, <2>0, Goes
  <2>2. session' = [session EXCEPT ![s] = r]
    BY <1>1, <1>2
  <2> HIDE DEF r
  <2>3. Ready(r) /\ Shows(r, dirs, files)
    BY <1>1, <1>2, <2>1 DEF Ready, Shows
  <2> QED
    BY <1>2, <2>1, <2>2, <2>3, OnlySession
<1>3. CASE RunScript(s) \/ Touch(s) \/ ServerBusy(s)
  BY <1>1, <1>2, <1>3 DEF RunScript, Touch, ServerBusy
<1>4. CASE AnalysisEnds(s)
  <2>1. PICK place \in {"idle", "rerun"} : session' = [session EXCEPT ![s].at = place]
    BY <1>4 DEF AnalysisEnds
  <2>2. free' \in Nat /\ UNCHANGED <<dirs, made, files, revisions>>
    BY <1>1, <1>4 DEF AnalysisEnds
  <2> QED
    BY <1>2, <2>1, <2>2
<1>5. CASE AcquireSlot(s)
  <2> DEFINE r == [se EXCEPT !.at = "analysing"]
  <2>1. /\ r \in SessionRecord /\ r.at = "analysing"
        /\ r.video = se.video /\ r.bundle = se.bundle /\ r.clips = se.clips
    BY <1>1, Goes
  <2>2. session' = [session EXCEPT ![s] = r] /\ free' \in Nat
        /\ UNCHANGED <<dirs, made, files, revisions>> /\ se.at = "waiting"
    BY <1>1, <1>5 DEF AcquireSlot
  <2> HIDE DEF r
  <2>3. Ready(r) /\ Shows(r, dirs, files)
    BY <1>1, <2>1, <2>2 DEF Ready, Shows
  <2> QED
    BY <2>1, <2>2, <2>3, OnlySession
<1>6. CASE CloseTab(s)
  <2>1. /\ NewSession \in SessionRecord /\ NewSession.clips = Nothing
        /\ Ready(NewSession) /\ Shows(NewSession, dirs, files)
    BY DEF NewSession, SessionRecord, Ready, Shows
  <2> QED
    BY <1>1, <1>6, <2>1, OnlySession DEF CloseTab
<1>7. ASSUME NEW f \in Files \cup {Nothing}, ChooseFile(s, f)
      PROVE  SessionsInv'
  <2> DEFINE r == [se EXCEPT !.file = f, !.at = "rerun"]
  <2>1. /\ r \in SessionRecord /\ r.at = "rerun" /\ r.clips = se.clips
        /\ r.bundle = se.bundle /\ r.video = se.video
    BY <1>1 DEF SessionRecord
  <2>2. session' = [session EXCEPT ![s] = r] /\ free' \in Nat
        /\ UNCHANGED <<dirs, made, files, revisions>>
    BY <1>1, <1>7 DEF ChooseFile
  <2> HIDE DEF r
  <2>3. Ready(r) /\ Shows(r, dirs, files)
    BY <1>1, <2>1 DEF Ready, Shows
  <2> QED
    BY <2>1, <2>2, <2>3, OnlySession
<1> QED
  BY <1>3, <1>4, <1>5, <1>6, <1>7

\* The session is cleared and its directories are removed; a new video is saved in a
\* new directory.
LEMMA ClearingKeeps ==
    ASSUME SessionsInv, NEW s \in Sessions, TakeVideo(s) \/ ResetClick(s)
    PROVE  SessionsInv'
<1> DEFINE se == session[s]
<1>1. /\ session \in [Sessions -> SessionRecord] /\ se \in SessionRecord
      /\ free \in Nat /\ revisions \in 0..MaxRevisions /\ made \in 0..MaxDirs /\ MaxDirs \in Nat
  BY SessionsAssumption DEF SessionsInv, SessionsTypeOK
<1>2. ASSUME NEW r \in SessionRecord, r.bundle = Nothing, r.clips = Nothing,
             r.at \in {"idle", "rerun"}, session' = [session EXCEPT ![s] = r],
             NEW new \in SUBSET ((made + 1)..MaxDirs), Replace(DirsOf(se), new),
             made' \in {made, made + 1}, made' \in 0..MaxDirs, UNCHANGED <<free, revisions>>
      PROVE  SessionsInv'
  <2>1. /\ dirs' \subseteq 1..MaxDirs
        /\ files' \in [1..MaxDirs -> Results \cup {Nothing}]
        /\ \A d \in 1..made : d \in dirs' => d \in dirs /\ files'[d] = files[d]
    BY <1>2, ReplaceKeeps
  <2>2. Ready(r) /\ Shows(r, dirs', files')
    BY <1>2 DEF Ready, Shows
  <2>3. made <= made' /\ free' \in Nat /\ revisions' \in 0..MaxRevisions
    BY <1>1, <1>2
  <2> QED
    BY <1>2, <2>1, <2>2, <2>3, SessionMoves
<1>3. CASE TakeVideo(s)
  <2>1. made + 1 \in 1..MaxDirs /\ made' = made + 1 /\ made' \in 0..MaxDirs
        /\ UNCHANGED <<free, revisions>> /\ se.file # Nothing
    BY <1>1, <1>3 DEF TakeVideo, IsNewVideo
  <2>2. CASE se.file \in Acceptable
    <3>1. session' = [session EXCEPT ![s] = Saved(se, made + 1)] /\ Replace(DirsOf(se), {made + 1})
      BY <1>3, <2>2 DEF TakeVideo
    <3>2. {made + 1} \in SUBSET ((made + 1)..MaxDirs)
      BY <1>1, <2>1
    <3> QED
      BY <1>1, <1>2, <2>1, <3>1, <3>2, SavedHasVideo
  <2>3. CASE se.file \notin Acceptable
    <3>1. session' = [session EXCEPT ![s] = Cleared(se)] /\ Replace(DirsOf(se), {})
      BY <1>3, <2>3 DEF TakeVideo
    <3> QED
      BY <1>1, <1>2, <2>1, <3>1, ClearedIsEmpty
  <2> QED
    BY <2>2, <2>3
<1>4. CASE ResetClick(s)
  <2> DEFINE r == [Cleared(se) EXCEPT !.at = "rerun"]
  <2>1. /\ Cleared(se) \in SessionRecord
        /\ Cleared(se).bundle = Nothing /\ Cleared(se).clips = Nothing
    BY <1>1, ClearedIsEmpty
  <2>2. r \in SessionRecord /\ r.at = "rerun" /\ r.bundle = Nothing /\ r.clips = Nothing
    BY <2>1, Goes
  <2>3. session' = [session EXCEPT ![s] = r] /\ Replace(DirsOf(se), {})
        /\ UNCHANGED <<made, free, revisions>>
    BY <1>1, <1>4 DEF ResetClick
  <2> HIDE DEF r
  <2> QED
    BY <1>1, <1>2, <2>2, <2>3
<1> QED
  BY <1>3, <1>4

\* The click gives the session a directory that nobody has.
LEMMA AnalyzeClickKeeps ==
    ASSUME SessionsInv, NEW s \in Sessions, AnalyzeClick(s)
    PROVE  SessionsInv'
<1> DEFINE se == session[s]
           isNew == IsNewVideo(se)
           clips == made + (IF isNew THEN 2 ELSE 1)
           base == IF isNew THEN Saved(se, made + 1) ELSE se
           r == [base EXCEPT !.clips = clips, !.at = "waiting"]
           gone == IF isNew THEN DirsOf(se) ELSE {}
           new == IF isNew THEN {made + 1, clips} ELSE {clips}
<1>1. /\ session \in [Sessions -> SessionRecord] /\ se \in SessionRecord
      /\ free \in Nat /\ revisions \in 0..MaxRevisions /\ made \in 0..MaxDirs /\ MaxDirs \in Nat
  BY SessionsAssumption DEF SessionsInv, SessionsTypeOK
<1>2. /\ se.file # Nothing /\ se.video # Nothing /\ se.bundle = Nothing
      /\ clips <= MaxDirs /\ made' = clips /\ session' = [session EXCEPT ![s] = r]
      /\ Replace(gone, new) /\ UNCHANGED <<free, revisions>>
  BY <1>1 DEF AnalyzeClick
<1>3. clips \in 1..MaxDirs /\ made < clips /\ new \in SUBSET ((made + 1)..MaxDirs)
      /\ (isNew => made + 1 \in 1..MaxDirs)
  BY <1>1, <1>2
<1> HIDE DEF clips, gone, new, isNew
<1>4. base \in SessionRecord /\ base.video # Nothing /\ base.bundle = Nothing
  BY <1>1, <1>2, <1>3, SavedHasVideo
<1> HIDE DEF base
<1>5. /\ r \in SessionRecord /\ r.clips = clips /\ r.bundle = Nothing /\ r.video # Nothing
  BY <1>3, <1>4 DEF SessionRecord
<1> HIDE DEF r
<1>6. /\ dirs' \subseteq 1..MaxDirs
      /\ files' \in [1..MaxDirs -> Results \cup {Nothing}]
      /\ \A d \in 1..made : d \in dirs' => d \in dirs /\ files'[d] = files[d]
  BY <1>2, <1>3, ReplaceKeeps
<1>7. Ready(r) /\ Shows(r, dirs', files')
  <2>1. clips # Nothing
    BY <1>3, SessionsAssumption
  <2> QED
    BY <1>5, <2>1 DEF Ready, Shows
<1>8. made <= made' /\ made' \in 0..MaxDirs /\ free' \in Nat /\ revisions' \in 0..MaxRevisions
  BY <1>1, <1>2, <1>3
<1>9. r.clips \in 1..MaxDirs /\ made < r.clips /\ r.clips <= made'
  BY <1>1, <1>2, <1>3, <1>5
<1> QED
  BY <1>1, <1>2, <1>5, <1>6, <1>7, <1>8, <1>9, SessionMoves

\* A result of the session's video is kept and written into its own directory.
LEMMA ResultKeeps ==
    ASSUME SessionsInv, NEW s \in Sessions, Analysed(s) \/ Edit(s)
    PROVE  SessionsInv'
<1> DEFINE se == session[s]
<1>1. /\ session \in [Sessions -> SessionRecord] /\ se \in SessionRecord
      /\ free \in Nat /\ revisions \in 0..MaxRevisions /\ MaxRevisions \in Nat
      /\ made \in 0..MaxDirs /\ dirs \subseteq 1..MaxDirs
      /\ files \in [1..MaxDirs -> Results \cup {Nothing}]
      /\ Ready(se) /\ Shows(se, dirs, files)
  BY SessionsAssumption DEF SessionsInv, SessionsTypeOK
<1>2. ASSUME NEW result \in Results, se.video # Nothing, se.video.of = result.of,
             se.clips # Nothing,
             session' = [session EXCEPT ![s].bundle = result, ![s].at = "rerun"],
             dirs' = dirs \cup {se.clips}, files' = [files EXCEPT ![se.clips] = result],
             made' = made, free' \in Nat, revisions' \in 0..MaxRevisions
      PROVE  SessionsInv'
  <2> DEFINE r == [se EXCEPT !.bundle = result, !.at = "rerun"]
  <2>1. /\ r \in SessionRecord /\ r.at = "rerun" /\ r.clips = se.clips
        /\ r.bundle = result /\ r.video = se.video
    BY <1>1, <1>2 DEF SessionRecord
  <2>2. session' = [session EXCEPT ![s] = r]
    BY <1>1, <1>2
  <2> HIDE DEF r
  <2>3. se.clips \in 1..MaxDirs
    BY <1>1, <1>2 DEF SessionRecord
  <2>4. /\ dirs' \subseteq 1..MaxDirs
        /\ files' \in [1..MaxDirs -> Results \cup {Nothing}]
        /\ files'[se.clips] = result
        /\ \A d \in 1..made : d # se.clips /\ d \in dirs' => d \in dirs /\ files'[d] = files[d]
    BY <1>1, <1>2, <2>3
  <2>5. Ready(r) /\ Shows(r, dirs', files')
    BY <1>2, <2>1, <2>4 DEF Ready, Shows
  <2>6. made <= made' /\ made' \in 0..MaxDirs
    BY <1>1, <1>2
  <2> QED
    BY <1>2, <2>1, <2>2, <2>4, <2>5, <2>6, SessionMoves
<1>3. CASE Analysed(s)
  <2> DEFINE result == [of |-> se.video.of, revision |-> revisions + 1]
  <2>1. se.video # Nothing /\ se.clips # Nothing /\ se.video \in Videos
    BY <1>1, <1>3 DEF Analysed, Ready, SessionRecord
  <2>2. revisions + 1 \in 1..MaxRevisions
    BY <1>1, <1>3 DEF Analysed
  <2>3. result \in Results
    BY <2>1, <2>2 DEF Results, Videos
  <2>4. /\ session' = [session EXCEPT ![s].bundle = result, ![s].at = "rerun"]
        /\ dirs' = dirs \cup {se.clips} /\ files' = [files EXCEPT ![se.clips] = result]
        /\ made' = made /\ revisions' = revisions + 1 /\ free' = free + 1
    BY <1>3 DEF Analysed
  <2>5. free' \in Nat /\ revisions' \in 0..MaxRevisions /\ result.of = se.video.of
    BY <1>1, <2>2, <2>4
  <2> HIDE DEF result
  <2> QED
    BY <1>2, <2>1, <2>3, <2>4, <2>5
<1>4. CASE Edit(s)
  <2> DEFINE result == [se.bundle EXCEPT !.revision = revisions + 1]
  <2>1. se.bundle # Nothing /\ se.bundle \in Results
    BY <1>1, <1>4 DEF Edit, SessionRecord
  <2>2. revisions + 1 \in 1..MaxRevisions
    BY <1>1, <1>4 DEF Edit
  <2>3. result \in Results /\ result.of = se.bundle.of
    BY <2>1, <2>2 DEF Results
  <2>4. /\ session' = [session EXCEPT ![s].bundle = result, ![s].at = "rerun"]
        /\ dirs' = dirs \cup {se.clips} /\ files' = [files EXCEPT ![se.clips] = result]
        /\ made' = made /\ revisions' = revisions + 1 /\ free' = free
    BY <1>4 DEF Edit
  <2>5. free' \in Nat /\ revisions' \in 0..MaxRevisions
    BY <1>1, <2>2, <2>4
  <2>6. se.video # Nothing /\ se.video.of = se.bundle.of /\ se.clips # Nothing
    BY <1>1, <2>1 DEF Shows
  <2> HIDE DEF result
  <2> QED
    BY <1>2, <2>3, <2>4, <2>5, <2>6
<1> QED
  BY <1>3, <1>4

\* The cleaning takes a directory away, with the file in it.
LEMMA CleanUpKeeps ==
    ASSUME SessionsInv, NEW d \in dirs, CleanUp(d)
    PROVE  SessionsInv'
<1>1. /\ dirs' \subseteq 1..MaxDirs
      /\ files' \in [1..MaxDirs -> Results \cup {Nothing}]
      /\ \A c \in 1..made : c \in dirs' => c \in dirs /\ files'[c] = files[c]
  BY ReplaceKeeps DEF CleanUp
<1>2. UNCHANGED <<session, made, free, revisions>>
  BY DEF CleanUp
<1>3. ASSUME NEW s \in Sessions
      PROVE  Shows(session[s], dirs', files')
  <2>1. session[s].clips # Nothing => session[s].clips \in 1..made
    BY SessionsAssumption DEF SessionsInv, SessionsTypeOK, SessionRecord, ClipsMade
  <2> QED
    BY <2>1, <1>1 DEF SessionsInv, Shows
<1>4. SessionsTypeOK'
  BY <1>1, <1>2 DEF SessionsInv, SessionsTypeOK
<1>5. ClipsMade' /\ ClipsApart'
  BY <1>2 DEF SessionsInv, ClipsMade, ClipsApart
<1> QED
  BY <1>2, <1>3, <1>4, <1>5 DEF SessionsInv

LEMMA NextSessionsInv == ASSUME SessionsInv, [SessionsNext]_sessionVars PROVE SessionsInv'
<1>1. CASE UNCHANGED sessionVars
  BY <1>1 DEF sessionVars, SessionsInv, SessionsTypeOK, ClipsMade, ClipsApart
<1>2. ASSUME NEW d \in dirs, CleanUp(d) PROVE SessionsInv'
  BY <1>2, CleanUpKeeps
<1> QED
  BY <1>1, <1>2, StepsKeep, ClearingKeeps, AnalyzeClickKeeps, ResultKeeps DEF SessionsNext

\* A result belongs to the video its session has, never to one it had before, and the
\* file a reviewer saves is what the session shows, unless the cleaning has taken the
\* directory away (old/ui: reset_state, run_analysis, _persist_review_bundle).
THEOREM ResultsAlwaysOfTheVideo == SessionsSpec => []ResultsAreOfTheVideo
<1>1. SessionsInv => ResultsAreOfTheVideo
  BY DEF SessionsInv, Shows, ResultsAreOfTheVideo
<1> QED
  BY <1>1, InitSessionsInv, NextSessionsInv, PTL DEF SessionsSpec

-----------------------------------------------------------------------------
(***************************************************************************)
(* Slots.                                                                  *)
(***************************************************************************)
SlotsInv == IsFiniteSet(Analysing) /\ SlotsAreAccountedFor

\* One session starts or ends an analysis, with a slot fewer or more.
LEMMA OneAnalysisStarts ==
    ASSUME SlotsInv, free \in Nat, NEW s \in Sessions, s \notin Analysing,
           Analysing' = Analysing \cup {s}, free' = free - 1
    PROVE  SlotsInv'
<1>1. /\ IsFiniteSet(Analysing \cup {s})
      /\ Cardinality(Analysing \cup {s}) = Cardinality(Analysing) + 1
      /\ Cardinality(Analysing) \in Nat
  BY FS_AddElement, FS_CardinalityType DEF SlotsInv
<1> QED
  BY <1>1, SessionsAssumption DEF SlotsInv, SlotsAreAccountedFor

LEMMA OneAnalysisEnds ==
    ASSUME SlotsInv, free \in Nat, NEW s \in Sessions, s \in Analysing,
           Analysing' = Analysing \ {s}, free' = free + 1
    PROVE  SlotsInv'
<1>1. /\ IsFiniteSet(Analysing \ {s})
      /\ Cardinality(Analysing \ {s}) = Cardinality(Analysing) - 1
      /\ Cardinality(Analysing) \in Nat
  BY FS_RemoveElement, FS_CardinalityType DEF SlotsInv
<1> QED
  BY <1>1, SessionsAssumption DEF SlotsInv, SlotsAreAccountedFor

\* Where a session goes decides who analyses.
LEMMA WhoAnalyses ==
    ASSUME session \in [Sessions -> SessionRecord], NEW s \in Sessions, NEW r,
           session' = [session EXCEPT ![s] = r]
    PROVE  Analysing' = IF r.at = "analysing" THEN Analysing \cup {s} ELSE Analysing \ {s}
<1>1. session'[s] = r /\ \A t \in Sessions \ {s} : session'[t] = session[t]
  OBVIOUS
<1> QED
  BY <1>1 DEF Analysing

\* A session that does not analyse goes somewhere where it does not either.
LEMMA NoAnalysis ==
    ASSUME SlotsInv, session \in [Sessions -> SessionRecord], NEW s \in Sessions, NEW r,
           session[s].at # "analysing", session' = [session EXCEPT ![s] = r],
           r.at # "analysing", free' = free
    PROVE  SlotsInv'
<1>1. Analysing' = Analysing
  BY WhoAnalyses DEF Analysing
<1> QED
  BY <1>1 DEF SlotsInv, SlotsAreAccountedFor

LEMMA NextSlots == ASSUME SessionsInv, SlotsInv, [SessionsNext]_sessionVars PROVE SlotsInv'
<1>1. session \in [Sessions -> SessionRecord] /\ free \in Nat /\ made \in 0..MaxDirs /\ MaxDirs \in Nat
  BY SessionsAssumption DEF SessionsInv, SessionsTypeOK
<1>2. ASSUME NEW s \in Sessions, AcquireSlot(s) PROVE SlotsInv'
  <2>1. session' = [session EXCEPT ![s] = [session[s] EXCEPT !.at = "analysing"]]
        /\ session[s].at = "waiting" /\ free' = free - 1
    BY <1>1, <1>2 DEF AcquireSlot
  <2>2. [session[s] EXCEPT !.at = "analysing"].at = "analysing"
    BY <1>1, Goes
  <2>3. s \notin Analysing /\ Analysing' = Analysing \cup {s}
    BY <1>1, <2>1, <2>2, WhoAnalyses DEF Analysing
  <2> QED
    BY <1>1, <2>1, <2>3, OneAnalysisStarts
<1>3. ASSUME NEW s \in Sessions, NEW r \in SessionRecord, r.at # "analysing",
             session' = [session EXCEPT ![s] = r], session[s].at = "analysing", free' = free + 1
      PROVE  SlotsInv'
  <2>1. s \in Analysing /\ Analysing' = Analysing \ {s}
    BY <1>1, <1>3, WhoAnalyses DEF Analysing
  <2> QED
    BY <1>1, <1>3, <2>1, OneAnalysisEnds
<1>4. ASSUME NEW s \in Sessions, Analysed(s) PROVE SlotsInv'
  <2> DEFINE result == [of |-> session[s].video.of, revision |-> revisions + 1]
             r == [session[s] EXCEPT !.bundle = result, !.at = "rerun"]
  <2>1. session' = [session EXCEPT ![s] = r] /\ session[s].at = "analysing" /\ free' = free + 1
    BY <1>1, <1>4 DEF Analysed
  <2>2. s \in Analysing
    BY <2>1 DEF Analysing
  <2>3. r.at # "analysing"
    BY <1>1 DEF SessionRecord
  <2> HIDE DEF r
  <2>4. Analysing' = Analysing \ {s}
    BY <1>1, <2>1, <2>3, WhoAnalyses
  <2> QED
    BY <1>1, <2>1, <2>2, <2>4, OneAnalysisEnds
<1>5. ASSUME NEW s \in Sessions, AnalysisEnds(s) PROVE SlotsInv'
  <2>1. PICK place \in {"idle", "rerun"} : session' = [session EXCEPT ![s].at = place]
    BY <1>5 DEF AnalysisEnds
  <2> DEFINE r == [session[s] EXCEPT !.at = place]
  <2>2. r \in SessionRecord /\ r.at # "analysing"
    BY <1>1 DEF SessionRecord
  <2>3. session' = [session EXCEPT ![s] = r] /\ session[s].at = "analysing" /\ free' = free + 1
    BY <1>1, <1>5, <2>1 DEF AnalysisEnds
  <2> HIDE DEF r
  <2> QED
    BY <1>3, <2>2, <2>3
<1>6. ASSUME NEW s \in Sessions, RunScript(s) \/ Touch(s) \/ ServerBusy(s) PROVE SlotsInv'
  <2>1. PICK place \in {"idle", "rerun"} : session' = [session EXCEPT ![s].at = place]
    BY <1>6 DEF RunScript, Touch, ServerBusy
  <2> DEFINE r == [session[s] EXCEPT !.at = place]
  <2>2. r.at # "analysing"
    BY <1>1 DEF SessionRecord
  <2>3. session' = [session EXCEPT ![s] = r] /\ session[s].at # "analysing" /\ free' = free
    BY <1>1, <1>6, <2>1 DEF RunScript, Touch, ServerBusy, AtRest
  <2> HIDE DEF r
  <2> QED
    BY <1>1, <2>2, <2>3, NoAnalysis
<1>7. ASSUME NEW s \in Sessions, CloseTab(s) PROVE SlotsInv'
  <2>1. session' = [session EXCEPT ![s] = NewSession] /\ session[s].at # "analysing" /\ free' = free
    BY <1>7 DEF CloseTab, AtRest
  <2>2. NewSession.at # "analysing"
    BY DEF NewSession
  <2> QED
    BY <1>1, <2>1, <2>2, NoAnalysis
<1>8. ASSUME NEW s \in Sessions, NEW f, ChooseFile(s, f) PROVE SlotsInv'
  <2> DEFINE r == [session[s] EXCEPT !.file = f, !.at = "rerun"]
  <2>1. r.at # "analysing"
    BY <1>1 DEF SessionRecord
  <2>2. session' = [session EXCEPT ![s] = r] /\ session[s].at # "analysing" /\ free' = free
    BY <1>1, <1>8 DEF ChooseFile, AtRest
  <2> HIDE DEF r
  <2> QED
    BY <1>1, <2>1, <2>2, NoAnalysis
<1>9. ASSUME NEW s \in Sessions, ResetClick(s) PROVE SlotsInv'
  <2> DEFINE r == [Cleared(session[s]) EXCEPT !.at = "rerun"]
  <2>1. r.at # "analysing"
    BY <1>1, ClearedIsEmpty, Goes
  <2>2. session' = [session EXCEPT ![s] = r] /\ session[s].at # "analysing" /\ free' = free
    BY <1>1, <1>9 DEF ResetClick, AtRest
  <2> HIDE DEF r
  <2> QED
    BY <1>1, <2>1, <2>2, NoAnalysis
<1>10. ASSUME NEW s \in Sessions, TakeVideo(s) PROVE SlotsInv'
  <2>1. made + 1 \in 1..MaxDirs /\ session[s].file # Nothing /\ session[s].at # "analysing"
        /\ free' = free
    BY <1>1, <1>10 DEF TakeVideo, IsNewVideo
  <2>2. PICK r \in {Saved(session[s], made + 1), Cleared(session[s])} :
          session' = [session EXCEPT ![s] = r]
    BY <1>10 DEF TakeVideo
  <2>3. r.at # "analysing"
    BY <1>1, <2>1, <2>2, SavedHasVideo, ClearedIsEmpty
  <2> QED
    BY <1>1, <2>1, <2>2, <2>3, NoAnalysis
<1>11. ASSUME NEW s \in Sessions, AnalyzeClick(s) PROVE SlotsInv'
  <2> DEFINE isNew == IsNewVideo(session[s])
             clips == made + (IF isNew THEN 2 ELSE 1)
             base == IF isNew THEN Saved(session[s], made + 1) ELSE session[s]
             r == [base EXCEPT !.clips = clips, !.at = "waiting"]
  <2>1. /\ session[s].file # Nothing /\ session[s].at # "analysing" /\ free' = free
        /\ clips <= MaxDirs /\ session' = [session EXCEPT ![s] = r]
    BY <1>1, <1>11 DEF AnalyzeClick, AtRest
  <2>2. isNew => made + 1 \in 1..MaxDirs
    BY <1>1, <2>1
  <2> HIDE DEF clips, isNew
  <2>3. base \in SessionRecord
    BY <1>1, <2>1, <2>2, SavedHasVideo
  <2> HIDE DEF base
  <2>4. r.at # "analysing"
    BY <2>3 DEF SessionRecord
  <2> HIDE DEF r
  <2> QED
    BY <1>1, <2>1, <2>4, NoAnalysis
<1>12. ASSUME NEW s \in Sessions, Edit(s) PROVE SlotsInv'
  <2> DEFINE result == [session[s].bundle EXCEPT !.revision = revisions + 1]
             r == [session[s] EXCEPT !.bundle = result, !.at = "rerun"]
  <2>1. session' = [session EXCEPT ![s] = r] /\ session[s].at # "analysing" /\ free' = free
    BY <1>1, <1>12 DEF Edit, AtRest
  <2> HIDE DEF result
  <2>2. r.at # "analysing"
    BY <1>1 DEF SessionRecord
  <2> HIDE DEF r
  <2> QED
    BY <1>1, <2>1, <2>2, NoAnalysis
<1>13. ASSUME UNCHANGED <<session, free>> PROVE SlotsInv'
  BY <1>13 DEF SlotsInv, SlotsAreAccountedFor, Analysing
<1>14. CASE (\E d \in dirs : CleanUp(d)) \/ UNCHANGED sessionVars
  <2>1. UNCHANGED <<session, free>>
    BY <1>14 DEF CleanUp, sessionVars
  <2> QED
    BY <1>13, <2>1
<1> QED
  BY <1>2, <1>4, <1>5, <1>6, <1>7, <1>8, <1>9, <1>10, <1>11, <1>12, <1>14 DEF SessionsNext

\* Slots are neither lost nor given twice, whatever ends an analysis: a result, an
\* error, an interruption or a wait that was given up, in any number of sessions
\* (old/ui, the semaphore around run_analysis).
THEOREM SlotsAlwaysAccountedFor == SessionsSpec => []SlotsAreAccountedFor
<1>1. SessionsInit => SlotsInv
  <2> SUFFICES ASSUME SessionsInit PROVE SlotsInv
    OBVIOUS
  <2>1. Analysing = {}
    BY DEF SessionsInit, NewSession, Analysing
  <2> QED
    BY <2>1, FS_EmptySet, SessionsAssumption DEF SessionsInit, SlotsInv, SlotsAreAccountedFor
<1>2. SlotsInv => SlotsAreAccountedFor
  BY DEF SlotsInv
<1> QED
  BY <1>1, <1>2, InitSessionsInv, NextSessionsInv, NextSlots, PTL DEF SessionsSpec
=============================================================================
