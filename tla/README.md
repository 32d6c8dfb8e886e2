# v2a_inspect in TLA+

Specifications of the parts of `v2a_inspect` whose correctness depends on the
order in which things happen, or on arithmetic at boundaries, with TLC
configurations that check them on small instances and TLAPS proofs that hold for
every instance. Paths are relative to `src/`; the code is under
`src/src/v2a_inspect` (the client side), `src/server/src/v2a_inspect_server` (the
inference server) and `src/old` (the pipeline before the present one). `PROJECT.json` maps every definition that models code to
the lines it stands for.

## 1. The system

A raw video is normalised, split into scenes and keyframes, and the chat model is
asked what is visible in each scene. The video is uploaded to an inference server,
which tracks the objects the model has named. From the tracks an identity layer
and visual events are computed. Finally an agent writes the *sound timeline*:
sources of sound and events over frame intervals. All of it lives in one
`VideoAsset`, saved as JSON between notebook cells.

The *retired* pipeline in `old/` solves the same task in another way and is half of
the repository. It cuts the video into evidence windows, has models propose sources
for each window and grounds the proposals, extracts tracks, makes sources, events
and generation groups of them, lets an agent repair what looks wrong, and shows
the resulting bundle to a person who edits it. Nothing in the live code imports it;
it is modelled because its tests, its documents and its user interface are kept with
the code.

| component | state it keeps | operations | hard behaviour | what makes it correct |
|---|---|---|---|---|
| sound timeline editor (`tools/sound_timeline/editor.py`, `write_tools.py`, `models/sound_timeline.py`) | `video_asset.sound_timeline`, possibly `None` | upsert/delete source, upsert/delete event, `ensure_sound_timeline`, frame checks | tool calls of one model answer run in threads, without a lock; a write is read, compute, assign | events never name a missing source; what was confirmed before stays; a call is one whole edit |
| read tools and wrappers (`read_tools.py`, `langchain.py`, `schemas.py`) | none | paged and windowed views, annotated frames | views are cut by their limits | a view is of one moment; following the answers shows everything there is to see |
| agent loop (`agents/sound_timeline/runner.py`) | messages, supersteps, retries | model node, tools node, retry, recursion limit | retry after a failure, cut-off in mid run | a call reported as failed left no trace, one reported as done was applied once; runs end |
| scenes and keyframes (`preprocessing/scenes.py`, `keyframes.py`) | list of scenes, keyframe indexes | clamp, drop empty scenes, widen, select | cuts past the end, rounding, one-frame scenes | scenes partition the video; keyframes inside, distinct, even |
| scene analysis (`preprocessing/seed_extraction.py`) | results so far | first scene alone, then batches in thread pools | one of several threads fails; results in order | every scene once, in order; bounded calls |
| Langfuse tracing (`observability/langfuse.py`) | module-global client | `get_langfuse_client` on first use | unlocked lazy initialisation used from threads | at most one client |
| object seed tracking (`preprocessing/tracking.py`) | scenes rebuilt so far | one request per seed, new asset at the end | timeouts, errors in the middle | all or nothing; tracks belong to their scene |
| HTTP client (`client/`) | connection, time limit | upload, track, segment, embed, score | an answer that comes too late | an answer is taken for its own request only |
| inference server (`server/`) | uploads on disk, SAM3 sessions, predictor lock, temporary directories | five endpoints on one event loop | failures at every step, crashes, partial uploads | nothing is held between requests; whole videos only; frame indexes of the video |
| identity and visual events (`preprocessing/visual_identity.py`, `visual_events.py`) | layer in the asset | rebuild the layer, recompute its events | stale ids after a stage is repeated; runs, edges and windows over tracks with gaps | events name objects of their layer and describe current tracks; contacts are maximal and mutual; motion is what the samples show |
| video preparation (`preprocessing/video.py`, `pipeline.py`, `media_utils/video.py`) | two files per stem in the working directory | encode, probe, encode, probe, describe scenes | encoders that fail in the middle or lose frames, crashes, repeated calls | a returned asset matches both files, frame by frame; earlier failures do no harm |
| model manager, prompts, settings, visualization | – | a locked cache, text, rendering | – | not modelled (section 7) |
| evidence windows (`old/tools/media.py`) | cuts, windows, batches of frames | propose, merge and accept cuts; sample, hydrate, refine, densify | rounding, shared boundaries, windows rebuilt after resampling | windows partition the video, cuts summarise what was proposed, windows list their own frames |
| proposal and grounding (`old/gemini_source_proposal.py`, `gemini_proposal_grounding.py`, `scene_hypotheses.py`, `label_vocabulary.py`) | proposals, grounded cards, seeds, vocabulary | per window: regions, proposal, scores, grounding or fallback | any model fails for any window; indexes made up by a model | every seed is a region; no window is lost in silence |
| identity and semantics (`old/reid.py`, `tools/grouping.py`, `crops.py`, `gemini_source_semantics.py`, `gemini_grouping.py`, `gemini_routing.py`) | edges, sources, events, beds, groups | crop, compare, unite, interpret, group, route | chains of links in list order | sources are what is linked and nothing else; each event is generated once |
| inspection and agentic review (`old/local_pipeline.py`, `agentic.py`, `agent/`, `adjudicator.py`, `finalize.py`, `validators.py`) | `InspectState`, issues, decisions, trace, bundle | stages; plan, judge, run a tool, rebuild, decide | stale derived data, repeated tools, outcomes that are taken back, exceptions | what is published is derived from what there is, and earned; runs end |
| bundle review (`old/review.py`, `descriptions.py`) | the bundle and its log of edits | override, split, merge, rename, approve | long sequences of edits | every event in one group; fresh descriptions are true |
| user interface (`old/ui/`) | session state, upload and clip directories, a semaphore | upload, analyse, edit, reset, clean up | sessions in parallel, scripts interrupted anywhere, directories removed in use | slots are given back; results belong to the session's video |
| `old/`, the rest | – | clients, settings, command line, export, metrics | – | not modelled |

Interactions: the agent loop calls the editor through tool wrappers; the editor
shares the asset with the caller by reference. Preprocessing stages pass
`VideoAsset` copies to one another. Tracking talks to the server over HTTP; the
server's only memory across requests is its upload directory. In `old/`, the stages
pass one dictionary along; the agent calls the same stages through a registry; the
user interface runs a whole inspection inside the script of a session and keeps the
bundle in the session and in a file, which the edits rewrite.

## 2. Modules

```
TimelineData            values: sources, events, timelines, what a write computes
  SoundTimeline         abstract: each confirmed call is one atomic edit
  SoundTimelineEditor   concurrent calls, step by step; INSTANCE SoundTimeline
    AgentLoop           one run of the agent around the editor
InferenceServer         the server process, one handler at a time
  SceneTracking         notebooks that upload and track through the server
VideoPreparation        ffmpeg, probes and the asset that comes out
TimelineViews           what an agent that follows the answers gets to see
ContactData             thresholds; what a maximal run of contact is
  ContactIntervals      the loop that looks for contacts of two tracks
  VisualLayer           tracking, building and computing, repeated in any order
ObjectEvents            the events of one tracked object
  VisualEvents          ContactIntervals, ObjectEvents and VisualLayer side by side
InitialScenes           scenes and keyframes, one loop iteration a step
SceneAnalysis           thread pools and the lazily built tracing client
EvidenceWindows         old/: cuts, windows and their frames
ProposalGrounding       old/: what to look for in a window
SourceIdentity          old/: from tracks to sources, events and groups
  VideoStages           these five side by side
InspectVideo            old/: one run of the pipeline with its agent
BundleReview            old/: a person's edits of a bundle
ReviewSessions          old/: sessions, slots and temporary directories
  InspectAndReview      these three side by side
AgentLoopProofs         theorems about the editor and the agent around it
SceneTrackingProofs     about the server and tracking
VideoPreparationProofs  about VideoPreparation
VisualEventsProofs      about ContactIntervals, ObjectEvents and VisualLayer
TimelineViewsProofs     about TimelineViews
VideoStagesProofs       about the five stages of VideoStages
InspectAndReviewProofs  about InspectVideo, BundleReview and ReviewSessions
FoldLemmas              what the proofs share: least elements, folds and sums
MC*                     constants and symmetry of the TLC instances
```

`VisualEvents`, `VideoStages` and `InspectAndReview` put components side by side that
share no state in the code: each is a function of its arguments, or sees the other
only as a result. A behaviour of such a module is a behaviour of one of them, chosen
at the start; the point is one instance and one place for their properties.

**SoundTimelineEditor.** `Callers` are the tool calls that can be in flight.
`call[c]` holds the arguments, `pc[c]` the next access to the shared attribute,
`snap[c]` the local variable `timeline` of the method. `CheckNone`, `Fill` and
`Snapshot` are the three accesses of `ensure_sound_timeline` (editor.py 127-130);
`StoreSource`, `RemoveSource`, `StoreEvent`, `RemoveEvent` the assignments in
write_tools.py with everything computed between the snapshot and them; `Reject`
is every error a tool raises, decided from the snapshot, as in the code. A
timeline is a pair of functions from ids to data, because the code replaces a
record by id and the order of records matters to no property. The history
variables `created` and `deleted` record what callers were told. Everything a
call computes from its snapshot is local, so the steps are exactly the accesses
to shared state and nothing finer can be observed.

**SoundTimeline** is what the tools promise to the agent, which is told the outcome of
all the calls of one answer together: each call is one whole edit (`WriteSource`,
`RemoveSource`, `WriteEvent`, `RemoveEvent`) of a timeline in `stood`, the ones that
stood since the agent was last told. With one writing call in an answer that is the
timeline as it stands. More is not true: the calls of one answer run side by side,
nothing in the runner or the prompt keeps two of them from writing, and the later
assignment can undo the earlier.

**AgentLoop** extends the editor with the graph the agent runs in: `CallTools` and
`FinalAnswer` are the model node, `StartTools`/`RunTool`/`JoinTools` the tools
node, `Retry` the middleware with `max_retries=5` (`MaxRetries`), `RecursionLimit`
the superstep limit. LangGraph is external and modelled from the arguments
runner.py gives it. `outset` and `stood` are history: what the agent was told last and
the timelines since. From them `EarlierEditsHold` says what the calls of one answer,
however many of them write, may change of what was there before, and
`EditsOfTheAnswer` that the run implements `SoundTimeline`, under the refinement
mapping that turns the functions into sets of records. How many calls of an answer may
write is the bound `MaxWriters`; no property rests on its being one.

**InitialScenes** walks the two loops of `detect_initial_scenes` and
`select_initial_scene_keyframe_indexes`. The list of boundaries comes from
PySceneDetect and is an input. Python's `round` is modelled with its ties to even;
the quotient it rounds is a float division by at most the cap plus one, exact
enough for the frame counts in question.

**SceneAnalysis** has one thread per scene of a batch, each with the two halves of
`get_langfuse_client` (test, and construct then store) as separate steps, and the
calling thread with the loop over batches, the results iterator of
`executor.map` and the wait at the end of the `with` block.

**InferenceServer.** Every handler is an `async def` that never awaits, so the
process runs one handler at a time: `job` is that handler and the step it is at,
`inbox` what waits for the event loop. `lock`, `sessions` and `frameDirs` are what
a handler takes and must give back. Each failing step is an action of its own
(`FramesFail`, `StartSessionFails`, `PredictorFails`, ...), so that every exit of
`track_video` and `segment_image` is a path. What SAM3 finds is the input
`Propagations`. `Crash` loses memory and keeps the disk.

**SceneTracking** adds clients: `Upload`, then `StartTracking` with a selection of
scenes out of `Selections`, a request per seed (`AskSeed`, `Tracked`), `EndScene`,
`ReturnAsset`. A
request that times out leaves its handler running; `Discard` is the server
noticing that the client of a queued request has gone. The field `run` of a scene
is history: the call its tracks come from.

**VideoPreparation** has the two output files of every stem as its disk, and one
step per external program: `NormalizeVideo`, `ProbePrepared`, `NormalizeSam3`,
`ProbeSam3`, `DescribeScenes`, `ReturnAsset`. `Ffmpeg` is external: with exit code
0 it may have lost frames of damaged input, otherwise it may have left the old
file, rubbish, or a shorter video that opens. `faulty` is history: whether
anything outside the program failed in this call. Nothing in the code prepares
two videos at once, so calls do not overlap.

**ContactIntervals** walks the loop of `_contact_interval`, one left sample a
step: `NotShared` (the `continue` for a missing right sample), `Apart`, `Touch`,
`EndScan`, then `Choose` the best qualifying run. Its reference is
`ContactData!MaximalRuns`, which says what a contact is without a loop.

**ObjectEvents** is `_object_visual_events` as operators on the samples, over every
track: which points become samples, the smoothed path, the centroids of the two
edges, the areas of the first and last third, the eight directions of
`_motion_direction`. A place is a point of the plane in sixtieths of a pixel, which
makes every mean of up to five an integer; only `hypot` has no integer result, and a
distance is rounded up to the next sixtieth (`Hypot`), after which no detour is
shorter than the straight way.

**VisualLayer** composes the stages a notebook may repeat in any order: `Track`
gives the chosen scenes new tracks with new ids and keeps the layer, `Build` makes
a new layer without events, `Compute` joins objects and tracks by id. It takes the
contact of two tracks from the specification `ContactIntervals` is checked against.

**TimelineViews** is the agent as its prompt and the answers tell it to read:
`ListScenes` follows `next_scene_index`, `ReadWindow` asks for the visual events of
a window and halves it when the answer says it is truncated, `GetSceneSummary` and
`GetAnnotatedFrame` look closer. A window has both bounds, as the prompt asks.

**EvidenceWindows** has one step per stage the pipeline and the agent call:
`BuildCandidateCuts` (propose, merge), `BuildEvidenceWindows` (accept, sample,
hydrate), `Refine` and `Densify`. Which frames differ by how much is an input: every
sequence over a few sizes on both sides of the thresholds. Times are milliseconds and
differences thousandths, to which the code rounds both. A window names a frame by its
batch and its place in it, and `batches` are the frames there are.

**ProposalGrounding** goes through the windows one after the other:
`ProposeMovingRegions`, `ProposeForWindow` or its failure, then `GroundWindow`, which
scores every phrase and asks the second model, or falls back (`FallbackCards`) when it
fails; `ScoringFails` is the one service whose exception ends the stage. What comes
out are the seeds (`SeedsOf`) and the vocabulary (`BuildVocabulary`).

**SourceIdentity** follows the tracks: padded crops, identity edges
(`EdgeConfidence`), lists of look-alikes, the union of both into sources (`Classes`),
the interpretation of each source as a bed, as heard or not, events per span,
generation groups from judged pairs, routes. Similarities and all answers of models
are inputs.

**InspectVideo** is one run. A stage (`ExtractEntities`, `CropTracks`, ...) sets what it
computes from what is there, and may raise. `CurrentIssues`, `NextIssue`,
`PlannedTool` and `PickedTools` are the planner and the judge; `RunTool` applies a
tool and sends the run back to the first stage the rebuild repeats; `Decide` compares
the issues before and after; `AcceptIssue` is the judge letting an issue stand;
`EndLoop` sets the final resolution and builds the bundle. `trace` and `disk` are the
two files, which `Raise` leaves and everything else of a run it clears. A tool the
judge picks although the payload of the issue lacks an argument of it raises
(`ToolRaises`): the executor passes what it has.

**BundleReview** has one action per edit. The id of a split group is the id it was
split from with the length of the log appended, as the code formats it. `about` is
history: the events and names a description was written for.

**ReviewSessions** is the page's script: `RunScript` and `TakeVideo` are the two ways
through its top, `AnalyzeClick` to `Analysed` or `AnalysisEnds` the analysis with its
semaphore, `Edit`, `ResetClick`, `ChooseFile`, `CloseTab` what a user does. Streamlit
is external: it ends a script at its next call of the library when the user goes on to
something else, which is one of the ways of `AnalysisEnds`. `CleanUp` may take any
directory at any time, since its age is all the code looks at; only the new directory
of a script that waits for a slot is spared, because it is two minutes old at most.

## 3. Runs

| run | instance | checked |
|---|---|---|
| `EditorParallel` | two calls, both may write; two sources, one event | `TimelineConsistent` |
| `AgentParallel` | a whole run of five supersteps, two calls in a batch, both may write, one retry; a timeline saved with an event of a source; two sources, one event | `AnswerMatchesEffect`, `EarlierEditsHold`, `RunEnds`, `EditsOfTheAnswer` |
| `AgentDeletedSource` | batches of two writes | `DeletedSourceGone` is **violated** |
| `VideoStages` | *scenes*: videos of 1 to 6 frames and around multiples of 60 up to 1261, lists of up to four scenes with boundaries up to frame 7, empty scenes at either end and a late start among them, caps 1, 2, 7, 20 | `ScenesPartitionVideo`, `ScenesFollowCuts`, `KeyframesSpread` |
| | *analysis*: 0 to 5 scenes, batches of two, two calls | `OneClient`, `EveryScene` |
| | *windows*: videos of 0, 0.4, 2 and 3.7 s, every sequence of three sizes of difference, two rates, two resamplings | `CutsSummariseProposals`, `WindowsPartitionVideo`, `WindowsListTheirFrames` |
| | *grounding*: two windows, the second with or without frames, seven proposals, two payloads or a failure, scores at and below the threshold | `SeedsCanBeExtracted`, `LossesAreReported` |
| | *identity*: three tracks over two windows, four over three, three similarities for every pair | `SourcesAreLinkedTracks`, `SoundsFollowTheirSources`, `CropsShowTheirTracks` |
| `ServerAlone` | two requests of any kind, valid and not, one crash | `IdleHoldsNothing`, `RequestsAreHandled` |
| `TrackingScenes` | a notebook, four scenes (two seeds; not analysed; no seed; one seed), three selections of them, two calls, five requests, one crash | `TracksBelongToTheirScene`, `WholeCalls`, `CallsReturn` |
| `TracksAndPairs` | every pair of tracks over six frames, three classes of overlap; every track of one to six points, six masks in the plane or none; two scenes, four tracks, two layers | `RunsAreContacts`, `BestContactReported`, `EventsTellTheTrack`, `EventsKnowTheirObjects`, `EventsOfCurrentTracks` |
| `ShortTracks` | the same | `DirectionAgrees` is **violated** |
| `ReadWholeVideo` | no scene, one or three, up to four events, limits of one and two | `EveryEventSeen`, `ReadingBounded` |
| `PreparedInTurn` | three calls over two videos of one stem and one of another | `AssetsAligned`, `FaultlessCallsReturn` |
| `InspectAndReview` | *inspection*: both modes, videos of more and less than a second, one track | `DerivedFromCurrentTracks`, `ResolutionIsEarned`, `TraceTellsTheRun`, `InspectionEnds` |
| | *review*: three events of two sources, an ambience bed with events or by itself, four edits | `EveryEventInOneGroup`, `DescriptionsTellTheirGroup` |
| | *sessions*: two sessions, one slot, a video and a file of the same name that is none, four directories, two results or edits | `SlotsAreAccountedFor`, `ResultsAreOfTheVideo` |
| `ResultsStay` | the same with a video whose name has a space | `ResultsStay` is **violated** |

What they show:

* However many writes interleave, the timeline stays *consistent*: writes assign
  a whole new value, so an event and the source it names come from the same
  snapshot. It does not stay *complete*: with two writes in flight a confirmed
  deletion can be undone and a confirmed creation lost. The system prompt invites
  several tool calls at once (`prompts/files/system/sound_timeline_agent.txt:22`).
  The damage is bounded: only the calls of one answer can undo one another. What the
  agent had been told before is still there afterwards, unless a call of the answer was
  asked to delete or rewrite it, nothing deleted earlier comes back, and with one write
  in an answer, whatever is being read beside it, the timeline is atomic.
* Retries are harmless, because every tool raises before its only assignment. One case is
  apart (`AnswerMatchesEffect` names it): several writes to an asset that has no timeline
  yet, where even a call that then fails may put an empty one in place of another's.
* The unlocked tracing client is safe in the analysis only because its first scene
  is analysed before any thread starts; the mutant without that step builds two.
* The partial file of a broken upload has a valid name and would be found, but its
  id is never told to anyone. Answers that come late do no harm: a request is
  answered on its own connection.
* Scenes partition the video even if the detector counts more frames than the
  probe did.
* An asset that was returned matches its two files until its stem is prepared
  again. The exit code, the probe and the comparison of frame counts are all
  needed: without the exit code a shorter video passes both probes.
* The contact loop finds the maximal runs and no others, and picking a run before
  looking at its confidence is harmless, because the run it picks has the largest
  mean.
* A call that fails at its last scene, after it has tracked others, leaves the asset with the
  tracks of the call before.
* A stationary object never strays, not even to come back, and events lie where masks
  were seen. In a track longer than the smoothing window every direction named is one in
  which the object moves at some time, but for an object that only goes up and down
  and ends where it began; that one, like every shorter track, moves "right".
* Computing events on a layer older than the tracks leaves out what was replaced
  and mixes nothing up; after build and compute every track is reported.
* Although truncated windows have no offset to go on from, narrowing them shows
  every event, unless more than a limit's worth cross one frame; and no page and no
  window comes round again, so it takes two answers for a frame at most.
* Merging cuts is idempotent: merged cuts lie further apart than the spacing, although
  a group of proposals may be much wider than that. The windows partition the video
  for every sequence of differences, and after every resampling a window lists its
  own batch whole.
* When a model fails for a window the fallback keeps the cards that a region backs, up to
  three cards in all, the phrases stay in the vocabulary and the failure becomes a warning
  of the stage. What the agent's rebuild does with warnings is said in section 5.
* Whatever the order of the links, sources are exactly what the links connect. No
  identity edge is ever accepted between two tracks of one window (section 5).
* The agent's rebuilds leave nothing behind that was derived from earlier tracks, also
  when a stage finds nothing. An acceptance is taken back by the next decision that
  goes on, exhaustion is published after exactly three vain attempts, and a run that
  raises leaves at most an interim bundle in its directory.
* Ids of split groups never meet, whatever is split, merged and split again. A
  description that does not count as stale was written for the events and the source
  names its group still has. The sources of ambience beds and the route the writer is
  told of are outside the model.
* Every way out of an analysis gives its slot back, and a result is never shown for
  another video than its own, though directories may be removed under a session.

### Bounds

Two callers suffice for the editor: each property that fails, fails with two, and
the theorems cover any number. The second source makes `DropSource` distinguish
the deleted one from another; `FrameCount = 1` still has ranges inside, empty and
past the end. In `AgentParallel` five supersteps are two answers with tool calls and what
comes after: two calls that both write, retried or not, on what the asset came
with and on what an earlier answer left. Batches of two over five scenes
give no batch, a short one and full ones. 1261 frames are 22 started
intervals, beyond the cap of 20; lengths between multiples of the interval differ
only in the remainder, and 61 to 130 has all of them. Two server
requests with a crash reach every step of every handler, including a request after
one that failed; more would repeat them, since between requests the server holds
nothing. Five requests are one upload, a call for one scene and a call for all four that fails at
the last, or uploads and calls that time out and are repeated. One notebook is enough for the
queue behind the server to fill, because its timed-out requests stay in it; two
meet nowhere else. Six frames hold two runs of contact of the minimum length
(2 here, 5 in the code) with a gap between them, and three runs below it; the overlaps
lie below the contact threshold, between it and the confidence threshold, and above
both. Six points are one more than the smoothing window, so both edges overlapping
and differing are covered. Two layers and four tracks over two scenes let every
stage be repeated after every other. Four events against a limit of two overflow
windows and single frames. Three preparations are one that fails or returns, one of
the same stem and one of another. Nine analysis frames over 3.7 seconds hold chains of
cuts wider than the spacing and up to three windows; two resamplings are one of windows
as built and one of windows rebuilt. Two windows of proposals let one model fail for one
of them only; the four kinds of cards are backed by a score, by a region, by a region
that does not exist, or by nothing. Three tracks in two windows have two in one window,
joined directly, by a detour or not at all; four in three make chains. One track is
enough for an inspection: what is derived from one of several is derived from each, and
what matters is whether there are any. Four edits are a split, a merge back, a second
split and a rename. One slot makes the second session wait and give up; four directories
are the uploads and clips of both sessions, or of one that starts over. Every bound
(`MaxWriters`, `MaxIterations`, `MaxRetries`,
`MaxRuns`, `MaxRequests`, `MaxCrashes`, `MaxCalls`, `MaxPoints`, `MaxFound`,
`MaxIds`, `MaxBuilds`, `MaxFrames`, `MaxDensifyings`, `MaxEdits`, `MaxDirs`,
`MaxRevisions`, ids) is a constant of its module; the
guards `FreshIdLeft` and `RequestsLeft` only stop a behaviour from running out of
ids in the middle of a call. Symmetry is used only where invariants and box
formulas alone are checked. `CHECK_DEADLOCK FALSE` is set where a behaviour really
ends: a run that is over, a bound on requests or calls that is used up.

### Fairness

* `AgentLoop`: weak fairness of the graph runtime and the tool threads, none of the
  chat model: `llm_timeout_seconds` has no default, so it may never answer.
  `RunEnds` therefore allows a run to be stuck in the model node and nowhere else.
* `InferenceServer`: weak fairness of the handlers. A handler has the event loop to
  itself and its loops are over frames and seeds.
* `SceneTracking`: weak fairness of each client, which includes noticing that its
  time limit has passed (`timeout or settings.timeout` is never `None`,
  client/endpoints/base.py:17). Nothing is assumed of the server, which may hang;
  `CallsReturn` holds all the same.
* `InspectVideo`: weak fairness of the whole run, which is one thread. That every call
  of a model or of the server returns or raises is part of it: every
  client of a model in `old/` has a time limit of its own (`timeout_seconds`) and every
  request to the server `settings.remote_timeout_seconds`.

The other specifications state safety only. That an agent which follows the answers of the
read tools comes to an end is stated without fairness, as a bound on how many answers
it is given (`ReadingBounded`); that it goes on reading is nobody's promise.

## 4. Proofs

Each theorem holds for every value of the constants that satisfies the named `ASSUME`s of
the modules; those say no more than the types of inputs and what an external library
guarantees (section 2), and TLC evaluates them in every run.

| theorem | statement |
|---|---|
| `AgentLoopProofs!EditorTypeOK` | `Spec => []TypeOK` |
| `AgentLoopProofs!EditorKeepsTimelineConsistent` | `Spec => []TimelineConsistent`, any number of callers and writers |
| `AgentLoopProofs!AnswersMatchEffects` | `AgentSpec => []AnswerMatchesEffect`, any number of writers, retries and supersteps |
| `AgentLoopProofs!AgentKeepsEarlierEdits` | `AgentSpec => []EarlierEditsHold`, likewise |
| `AgentLoopProofs!AgentImplementsTimeline` | `AgentSpec => EditsOfTheAnswer`, likewise |
| `SceneTrackingProofs!IdleServerHoldsNothing` | `ServerSpec => []IdleHoldsNothing`, any requests and crashes |
| `SceneTrackingProofs!ServerOfClientsHoldsNothing` | `Spec => []IdleHoldsNothing`, the server behind any number of notebooks |
| `SceneTrackingProofs!TracksStayInTheirScene` | `Spec => []TracksBelongToTheirScene`, any notebooks, scenes and seeds |
| `SceneTrackingProofs!AssetsAreOfWholeCalls` | `Spec => []WholeCalls`, likewise |
| `VideoPreparationProofs!AssetsAlwaysAligned` | `Spec => []AssetsAligned`, any videos, stems and number of calls |
| `VideoPreparationProofs!FaultlessCallsAlwaysReturn` | `Spec => []FaultlessCallsReturn`, likewise |
| `VideoStagesProofs!ScenesAlwaysPartition` | `Spec => []ScenesPartitionVideo`, any video and any cuts |
| `VideoStagesProofs!ScenesAlwaysFollowCuts` | `Spec => []ScenesFollowCuts`, likewise |
| `VideoStagesProofs!KeyframesAlwaysSpread` | `Spec => []KeyframesSpread`, any length of a scene and any cap |
| `VideoStagesProofs!OneClientOnly` | `AnalysisSpec => []OneClient`, any number of scenes, batch size and calls |
| `VideoStagesProofs!EverySceneAnalysed` | `AnalysisSpec => []EveryScene`, likewise |
| `VideoStagesProofs!SeedsCanAlwaysBeExtracted` | `GroundingSpec => []SeedsCanBeExtracted`, any number of windows, any answers |
| `VideoStagesProofs!LossesAreAlwaysReported` | `GroundingSpec => []LossesAreReported`, likewise |
| `VideoStagesProofs!CutsAlwaysSummarise` | `WindowSpec => []CutsSummariseProposals`, any video, rate and differences |
| `VideoStagesProofs!WindowsAlwaysPartition` | `WindowSpec => []WindowsPartitionVideo`, likewise |
| `VideoStagesProofs!WindowsAlwaysListTheirFrames` | `WindowSpec => []WindowsListTheirFrames`, likewise, any number of resamplings |
| `VideoStagesProofs!CropsAlwaysShow` | `IdentitySpec => []CropsShowTheirTracks`, any tracks and picture size |
| `VideoStagesProofs!SourcesAlwaysLinkedTracks` | `IdentitySpec => []SourcesAreLinkedTracks`, any tracks and similarities |
| `VideoStagesProofs!SoundsAlwaysFollow` | `IdentitySpec => []SoundsFollowTheirSources`, any answers of the models as well |
| `VisualEventsProofs!RunsAlwaysAreContacts` | `Spec => []RunsAreContacts`, any tracks and overlaps |
| `VisualEventsProofs!BestContactAlwaysReported` | `Spec => []BestContactReported`, likewise |
| `VisualEventsProofs!EventsAlwaysTellTheTrack` | `ObjectSpec => []EventsTellTheTrack`, any track in the plane and any picture size |
| `VisualEventsProofs!EventsAlwaysKnowTheirObjects` | `LayerSpec => []EventsKnowTheirObjects`, stages repeated in any order |
| `VisualEventsProofs!EventsAlwaysOfCurrentTracks` | `LayerSpec => []EventsOfCurrentTracks`, likewise |
| `TimelineViewsProofs!EveryEventAlwaysSeen` | `Spec => []EveryEventSeen`, any video, scenes, events and limits |
| `TimelineViewsProofs!ReadingAlwaysBounded` | `Spec => []ReadingBounded`, likewise |
| `InspectAndReviewProofs!NothingDerivedIsStale` | `InspectSpec => []DerivedFromCurrentTracks` |
| `InspectAndReviewProofs!OutcomesAreEarned` | `InspectSpec => []ResolutionIsEarned` |
| `InspectAndReviewProofs!TracesTellTheirRuns` | `InspectSpec => []TraceTellsTheRun` |
| `InspectAndReviewProofs!EventsStayInOneGroup` | `ReviewSpec => []EveryEventInOneGroup`, any bundle and number of edits |
| `InspectAndReviewProofs!DescriptionsAlwaysTell` | `ReviewSpec => []DescriptionsTellTheirGroup`, likewise |
| `InspectAndReviewProofs!SlotsAlwaysAccountedFor` | `SessionsSpec => []SlotsAreAccountedFor`, any sessions and slots |
| `InspectAndReviewProofs!ResultsAlwaysOfTheVideo` | `SessionsSpec => []ResultsAreOfTheVideo`, likewise |

*Consistency.* `TimelineConsistent` is not inductive: a call may assign a timeline
it read long ago. `IInv` adds that every snapshot a call still holds is consistent
(`SnapshotsConsistent`), that a call which may write has passed its range check
(`RangesChecked`), that a call about to take a snapshot finds a timeline
(`TimelineReady`), and that ids in any timeline or snapshot were created
(`IdsCreated`). Lemmas say that `PutSource`, `PutEvent`,
`DropSource` and `DropEvent` keep a consistent timeline consistent; one lemma per
action then gives the step.

*The agent.* `AgentInv` adds that no call is under way outside the tools node and that the
timeline is then the one the agent was told of (`AtRest`). Inside it, every snapshot
a call holds, and the timeline itself, is in `stood` (`Held`) and keeps what was there
at the `outset` (`Kept`). A call assigns one edit of its snapshot (`AssignmentEdits`),
so its assignment is a step of `SoundTimeline`; and each of the four edits keeps what
its snapshot keeps, if it names ids the call was given or new ones (`KeepsPutSource` and
its like). This does not depend on how many calls write: a snapshot may be old, but not older
than the answer. `Created` says when `ensure_sound_timeline` may still find
nothing; from it, and since every tool raises before it assigns, follows
`AnswerMatchesEffect`. A retry finds the call idle and the timeline as the failed attempt
left it, which, as far as it goes, is as it was.

*The server.* `HeldByStep` says what the handler at each of its steps has in its hands:
the lock, the session and the directory, each from the step that takes it to the one that
gives it back, on the failing paths too. Only a crash leaves a directory, so there
are at most as many as crashes (`LeftByCrashes`).

*Tracking.* `WireInv` says a request is pending at most until it is answered, and that an
answer tells what its request asked for (`Tells`). A client waits for the answer to the
request it sent last (`Asked`), and that request is about the scene and the seed it is at;
so a late answer to an earlier one is never taken. `Built` and `Shown` then say of
the scenes rebuilt so far, and of the asset, which call each is from.

*Prepared files.* `AssetsAligned` is not inductive, because a call in progress
rewrites files: `AssetsElsewhere` says that no asset of that stem is left to be
wrong, and `CallInv` what each step has established about the two files, up to the
last step, which turns it into an asset.

*Scenes.* While the detector's scenes are collected, the last one collected ends
at the clamped cut the loop stands at (`CutsCollected`): a scene that is dropped is
empty, so it does not move that cut. The assumption on the cuts is that they do not
decrease. `CutsInv` adds that the scenes so far start at cuts (`StartsAreCuts`) and at
every cut before the one the loop is at (`CutsAreStarts`); the first start
becomes 0 in the end, so the first cut, and its repetitions, are none of them.

*Keyframes.* A keyframe is off its exact mark by a half at most (`Rounding`, ties
included), so it lies inside its scene, and two neighbouring parts of a scene are the exact
part up to one. If one part were longer than another by two, both would be off by a whole
one, then the exact part is an integer, and rounding is exact (`PartsAreEven`). With two
keyframes or more the scene is longer than their number plus one (60 frames an
interval), so keyframes increase (`NearFurther`) and the test for duplicates never fires:
`SpreadInv` counts them.

*One client.* A client is constructed only by the calling thread on the first
scene (`Building`), while all other scenes wait (`FirstAlone`); when the loop over
batches begins, the global is set, because an answered scene has traced (`Traced`).
For `EveryScene` the results collected are those of the scenes in order, up to
the batch at hand.

*Grounding.* `GroundedRight` is what holds of a window once it is grounded, by the model
(`GroundingFits`) or by the fallback, which keeps the best three of the cards that a region or a
score backs, the better first and of equals the earlier. The
order has a first among any cards (`FirstInOrder`); so, if a card is not kept, there is a first
of all, a first of the rest and a first of the rest of those, and these three are kept
(`FallbackKeeps`). `GroundingInv` carries this from window to
window, and the vocabulary is made of the words of all of them.

*Windows.* A merged cut is the rounded weighted mean of a group of proposals, so it lies
between the first and the last of its group. Groups are more than the spacing apart, hence
the merged cuts are (`MergedAreSpaced`), and merging them again changes nothing. The
accepted cuts are a fold over the merged ones; `Accepts` is what holds of it after any
number of them, and `OneMoreAccepted` the step. With both ends of the video they are an
increasing list whose neighbours bound the windows (`BoundariesAre`). `WindowInv` says that
the windows are always those of the accepted cuts and that each batch is a full sampling of
its window, with two more frames for each resampling. A sample lies within the bounds of its
window (`SamplesLieBetween`), so one that another window lists is on a shared bound.

*Crops.* A padded box contains its box and lies in the picture, with rounding
(`PadBoxShows`), and the crops of a track are the padded boxes of that track (`CropsInv`).

*Sources.* `AreClasses` is what uniting along links comes to: the classes divide the items,
no part of a class is without a link to the rest of it (`Bound`), and both ends of every
link are in one class. One more link keeps this true (`JoiningKeepsClasses`), since any way
to cut the new class in two cuts one of the old classes or separates both of them and cuts
the link. Hence it holds of the fold over all links in any order (`ClassesAre`), of tracks
and of events alike. The sources list the classes once each: in a strict order every rank
from none to all but one is somebody's (`RankedOnce`), and classes differ in their first
member if in nothing else (`SourcesDivide`). An edge within a window would need a confidence
that `7 * 1000 + 2 * 1000` does not reach (`UnlikeWithinWindow`).

*Sounds.* The events of a source are its spans in order, each once (`EventsOfASource`), and
sources differ in their ids, so the concatenation of these lists holds every sound once
(`FlattenedOnce`, `EventsFollow`). The spans of the events of a source are then a bijection
onto its spans, and `ClassesAre` gives the groups (`GroupsFollow`).

*Contacts.* The invariant of the scan describes it in mid-air:
the runs put away together with the current run are the maximal runs of the contacts
below `at`, and `previous` is the last frame of the current run, or there is none. A
left sample without a partner changes neither, which is why a gap is noticed only by
comparing with `previous`. When no sample is left, the contacts below `at` are all
contacts.

*The best contact.* The sum of the overlaps over a run is a number whatever order it is
taken in (`TotalIsNatural`, from `FoldLemmas`), so means can be compared as fractions
(`MeansAreOrdered`). Of finitely many runs one is then first in the order of mean and first
frame (`BestRunIs`). If that one is not credible although it is long enough, no run with a
mean as large is, and none is reported (`NoneCredible`).

*Events of an object.* `TrackSamplesAre` follows the fold over the points: the samples are
those of the usable points, in frame order. An object said to be stationary has a path
of at most the threshold, and by the triangle inequality (`DistanceIs`, which holds of
distances rounded up as well) no two smoothed positions
are further apart than the path between them (`PathIsLongEnough`), so it never strays to come
back. For the direction, each axis is taken by itself: in a track of more than five samples that
never rises along an axis the mean of the last five is at most that of the first five, and
equal only if all positions are the same (`NeverRising`, `NeverMoved`). So a displacement along an
axis has a movement of that sign in it, and none means that the object moved along it
both ways or not at all (`DisplacedByMoving`). Not at all along either is a path of
nought, which is called stationary (`RestIsStationary`); both ways along the horizontal makes
"right" true; what is left is `UpAndDown`. With five samples or fewer both
ends are the same samples and the argument fails, as `ShortTracks` shows.

*Views.* What an agent has not been shown yet lies where it will still look (`NothingLost`): an
event that an answer leaves out crosses a frame that is crowded (`CrowdsAreCrowds`), or the
window the agent narrows to, or reaches behind the frontier from which the next page begins.
Since the windows are ranges of frames (`WindowsAreRanges`) and each step narrows one or
moves the frontier, nothing is left when the agent stops. For the number of answers, windows do
not overlap (`WindowsApart`), so a frame that has been read does not come back, and neither does
one at which a window starts among those where none does: every answer takes a frame from
`Unread` or from `Uncut`, and each of them has at most `FrameCount` (`Budget`).

*The layer.* Ids of tracks are never used again (`TracksOK`) and a layer's objects carry the
number of their layer (`LayerOK`). Computing joins both by the track id, so what it finds
is about a track that is there and an object of that layer; from building a layer to the
next tracking the objects are those of the tracks (`Matches`), so no track is left out.

*An inspection.* `FlowInv` says where the loop is, `DerivedInv` which of the derived data
each stage may rely on, so that a rebuild that starts in the middle leaves nothing of
earlier tracks. For the outcome, `RetriesInv` says that the foreground issue is open with an
attempt in every action exactly when every decision so far is to try it again: then the
third decision makes it exhausted, and otherwise nothing does. `PublishedInv` and
`TraceInv` carry this to the bundle and the trace file.

*Edited bundles.* A split adds a group, which is harmless only if its id is new.
`SplitsAreNumbered` says that an id longer than one ends in a number below the length
of the log, so the id made of that length is new (`SplitIdIsNew`); every logged edit
makes the log longer. Lemmas then show that marking descriptions keeps the members of
groups and that splitting and merging keep the partition; a description that is not
marked was written for the events and the name its group still has.

*Sessions.* A session that holds a slot is one whose script is analysing
(`SlotsAreAccountedFor`, with `IsFiniteSet(Analysing)`), and every way out of the analysis
passes the release. For results, directories of clips are new when made (`ClipsMade`) and
those of two sessions differ (`ClipsApart`), so an edit rewrites the file of its own
session only.

Some properties are proved of a specification and model-checked of one that embeds it, where
another component may run instead: those of `VideoStages` (scenes, analysis, windows,
grounding, identity), of `VisualEvents` (contacts and the layer) and of `InspectAndReview`
(inspection, review and sessions).

Every safety invariant and every action property a run checks is proved. Only
model-checked is liveness (`RunEnds`, `RequestsAreHandled`, `CallsReturn`, `InspectionEnds`), which depends on fairness and `ENABLED` and is out of the prover's reach.

Much of what the code accumulates over a list the model computes by a fold. The induction
theorems of the library take an operator as a parameter, which the provers cannot
instantiate, so `FoldLemmas` states induction over the subsets of a finite set with sets and
functions (`SubsetInduction`, `RemovalInduction`), and shows from it that the recursion
behind a fold has a solution (`FoldExists`, `FoldOfItemsExists`) and what it sums to.
`SelectSeq` and `SetToSortSeq` have no definition the provers can expand: where an order
matters the models number the members by how many come before (`SourceIdentity!OrderedBy`).

No proof reaches a module with a `RECURSIVE` operator, which would cost it the SMT
backend.

## 5. Findings

1. `write_tools.py:70`: a batch that deletes a source and writes another record can
   bring the deleted source back (`AgentDeletedSource`). In the same way the earlier
   of two confirmed events can be lost (`write_tools.py:113`).
2. `visual_events.py:333`, 397-401: a moving object tracked for two to five samples
   is always said to move to the right (`ShortTracks`). So is one of any length that goes up
   and down only and ends at the height where it began (`UpAndDown`).
3. `old/ui/app.py:72`: a video whose name has a character outside letters, digits, dots,
   dashes and underscores is saved under another name and counts as new at every run of
   the script, so the rerun after its analysis deletes the result (`ResultsStay`),
   against what the page says there (app.py:96, 102).

Seen while modelling and in the models, without a run of their own:

* `models/tracking.py:69` says a track has results for every frame of its interval;
  frames without a box (`inference/sam3.py:510`) and points with a confidence outside
  [0, 1] (`tracking.py:207`) are left out (`SceneTracksOf`).
* `get_scene_summary` fails for a scene with a seed whose optional `tracking_prompt`
  is absent (`read_tools.py:86`, `schemas.py:127`; `SummaryFails`).
* `old/reid.py:69` speaks of a stricter confidence within a window. The confidence of
  such an edge is at most .9 and the threshold .995, so none is ever accepted, while
  lists of look-alikes join tracks of one window at a mean similarity of .92
  (`SourcesAreLinkedTracks` states both).
* A judge's `accepted_ambience_only` never becomes an issue of the final bundle: that asks
  for ambience beds without physical sources (`old/finalize.py:253-267`), and every bed is
  made of a source, which stays in the list (`old/gemini_source_semantics.py:200-213`).
* A second file of the same name is taken for the first while that is still there
  (`old/ui/app.py:72`; `IsNewVideo`), an analysis that is started again leaves its former
  clip directory behind (`app.py:107`), and directories an hour old are removed from under
  their sessions (`ui/session.py:81-89`; `CleanUp`).
* A split leaves the ambience beds in both groups (`old/review.py:81-89`; `SplitGroups`).
* Refining rebuilds the windows without the paths of their clips (`old/tools/media.py:297-305`),
  which the model leaves out; a span without length lies in no window (`old/reid.py:230-244`).
* The agent's rebuild drops the warnings of the stages it repeats
  (`old/agentic.py:361-396`); an exception of the scoring service leaves the run although
  those of both models are caught (`ScoringFails`).

## 6. Plan

Done: the live program from the raw video to the agent's sound timeline, and the retired
pipeline from windows to edited bundles; proofs of every safety property. Next, in order:

1. An abstract tracking service that `SceneTracking` implements: an answer is the
   answer to one request.
2. Agents that share one asset in several runs, with a cut-off run in between, and an
   identity layer that is rebuilt between them: which sound sources dangle.

## 7. Not modelled

* Contents of prompts, answers and images, labels, notes and the wording of errors:
  no property depends on them.
* Scaling of boxes and masks and decoding of masks, and
  the rounding of float arithmetic: areas, overlaps and centroids are integers, mean positions
  exact sixtieths, distances the next sixtieth above.
* `min_points`, `high_confidence_threshold` and `match_threshold` of a tracking
  request: the server ignores them. `min_track_mean_confidence`: 0 by default, it
  only drops tracks.
* An error in `_close_session` itself, and interrupts in the client between two
  requests: the former is the predictor's own, the latter ends the notebook call as
  a timeout does.
* An ffmpeg process that outlives a crash of its parent and goes on writing.
* Prompts, settings, visualization: text and rendering, without state of their own.
  `llm/model_manager.py` does all its work under one lock.
* A run that hits the recursion limit leaves its edits in the asset, as
  `agents/sound_timeline/runner.py` intends; no document promises more, so nothing is
  stated. Uploads are never deleted, and partial ones stay (`server/app.py:58`): there is
  no bound to check.
* In `old/`: the contents of pictures, prompts and answers; ffmpeg and its fallbacks
  (`tools/media.py:434-498`); the semantic hints of the vocabulary and the recipe
  signatures of groups; stage metrics and progress messages; the order in which models are
  loaded and released; the clients of the inference server, the command line, settings,
  authentication, benchmark samples, export and metrics, which keep no state between calls.
