---------------------------- MODULE SceneAnalysis ----------------------------
(***************************************************************************)
(* SceneAnalysis: the chat model is asked about every scene of a video.    *)
(* The first scene is analysed by the caller's own thread, the others in   *)
(* batches, each batch by a thread pool of its own.  All of them trace     *)
(* through one module-level Langfuse client, built on first use without a  *)
(* lock.  The thread pool is a library, modelled from its use.             *)
(***************************************************************************)
EXTENDS Integers, Sequences, FiniteSets

CONSTANTS SceneCounts,  \* how many scenes a video may have
          BatchSize,    \* settings.llm_initial_scene_analysis_batch_size
          MaxRuns       \* bound: how often the analysis is called

ASSUME ParametersAssumption ==
    /\ SceneCounts \subseteq Nat
    /\ BatchSize \in Nat \ {0}
    /\ MaxRuns \in Nat

VARIABLES count,    \* number of scenes
          enabled,  \* both Langfuse keys are set
          client,   \* the global _langfuse_client
          built,    \* Langfuse clients constructed so far
          runs,     \* calls of analyze_initial_scenes so far
          main,     \* where the calling thread is
          from,     \* scenes of the batches before this one, and the first scene
          step,     \* where the analysis of each scene is
          results   \* analyzed_scenes

analysisVars == <<count, enabled, client, built, runs, main, from, step, results>>

Scenes == 1..count
Running == {i \in Scenes : step[i] \in {"prepare", "check", "construct", "store", "invoke"}}
Outside == {"idle", "done", "failed"}

AnalysisInit ==
    /\ count \in SceneCounts
    /\ enabled \in BOOLEAN
    /\ client = "unset"
    /\ built = 0
    /\ runs = 0
    /\ main = "idle"
    /\ from = 0
    /\ step = [i \in Scenes |-> "waiting"]
    /\ results = <<>>

Goto(i, s) == step' = [step EXCEPT ![i] = s]

-----------------------------------------------------------------------------
(***************************************************************************)
(* analyze_initial_scene, by whichever thread runs it.                     *)
(***************************************************************************)
\* The prompt is formatted and the keyframe images are read.
Prepare(i) ==
    /\ step[i] = "prepare"
    /\ Goto(i, "check")
    /\ UNCHANGED <<count, enabled, client, built, runs, main, from, results>>

\* get_langfuse_client up to the constructor.
CheckClient(i) ==
    /\ step[i] = "check"
    /\ IF client = "unset" /\ enabled
       THEN Goto(i, "construct") /\ UNCHANGED client
       ELSE /\ Goto(i, "invoke")
            /\ client' = IF client = "unset" THEN "none" ELSE client
    /\ UNCHANGED <<count, enabled, built, runs, main, from, results>>

Construct(i) ==
    /\ step[i] = "construct"
    /\ built' = built + 1
    /\ Goto(i, "store")
    /\ UNCHANGED <<count, enabled, client, runs, main, from, results>>

Store(i) ==
    /\ step[i] = "store"
    /\ client' = "client"
    /\ Goto(i, "invoke")
    /\ UNCHANGED <<count, enabled, built, runs, main, from, results>>

Answer(i) ==
    /\ step[i] = "invoke"
    /\ Goto(i, "answered")
    /\ UNCHANGED <<count, enabled, client, built, runs, main, from, results>>

\* A missing image, Langfuse not installed, a model error or an invalid answer.
Raise(i) ==
    /\ step[i] \in {"prepare", "construct", "invoke"}
    /\ Goto(i, "failed")
    /\ UNCHANGED <<count, enabled, client, built, runs, main, from, results>>

Analyse(i) ==
    \/ Prepare(i) \/ CheckClient(i) \/ Construct(i)
    \/ Store(i) \/ Answer(i) \/ Raise(i)

-----------------------------------------------------------------------------
(***************************************************************************)
(* analyze_initial_scenes, by the calling thread.                          *)
(***************************************************************************)
\* Mutant: no scene of its own for the calling thread.
BeginWithBatches ==
    /\ main \in Outside
    /\ runs < MaxRuns
    /\ runs' = runs + 1
    /\ from' = 0
    /\ results' = <<>>
    /\ main' = "next"
    /\ step' = [i \in Scenes |-> "waiting"]
    /\ UNCHANGED <<count, enabled, client, built>>

Begin ==
    /\ main \in Outside
    /\ runs < MaxRuns
    /\ runs' = runs + 1
    /\ from' = 0
    /\ results' = <<>>
    /\ main' = IF count = 0 THEN "done" ELSE "first"
    /\ step' = [i \in Scenes |-> IF i = 1 THEN "prepare" ELSE "waiting"]
    /\ UNCHANGED <<count, enabled, client, built>>

TakeFirst ==
    /\ main = "first"
    /\ step[1] = "answered"
    /\ results' = <<1>>
    /\ from' = 1
    /\ main' = "next"
    /\ UNCHANGED <<count, enabled, client, built, runs, step>>

FirstRaises ==
    /\ main = "first"
    /\ step[1] = "failed"
    /\ main' = "failed"
    /\ UNCHANGED <<count, enabled, client, built, runs, from, step, results>>

\* Mutant: a batch starts one scene late.
BatchLate == (from + 2)..(IF from + BatchSize < count THEN from + BatchSize ELSE count)

Batch == (from + 1)..(IF from + BatchSize < count THEN from + BatchSize ELSE count)

\* The pool is created and executor.map submits the whole batch.
SubmitBatch ==
    /\ main = "next"
    /\ from < count
    /\ step' = [i \in Scenes \cup Batch |-> IF i \in Batch THEN "queued" ELSE step[i]]
    /\ main' = "collect"
    /\ UNCHANGED <<count, enabled, client, built, runs, from, results>>

\* A thread of the pool picks a scene up.
PickUp(i) ==
    /\ step[i] = "queued"
    /\ Goto(i, "prepare")
    /\ UNCHANGED <<count, enabled, client, built, runs, main, from, results>>

\* executor.map yields in the order of the batch, whoever finishes first.
Collect ==
    /\ main = "collect"
    /\ LET i == Len(results) + 1
       IN  /\ i \in Batch
           /\ step[i] = "answered"
           /\ results' = Append(results, i)
    /\ UNCHANGED <<count, enabled, client, built, runs, main, from, step>>

\* The exception of a scene leaves executor.map, which cancels what no thread
\* has picked up yet.
CollectRaises ==
    /\ main = "collect"
    /\ LET i == Len(results) + 1 IN i \in Batch /\ step[i] = "failed"
    /\ step' = [i \in Scenes |-> IF step[i] = "queued" THEN "waiting" ELSE step[i]]
    /\ main' = "leave"
    /\ UNCHANGED <<count, enabled, client, built, runs, from, results>>

\* The end of the with statement waits for every thread; then the exception
\* goes on to the caller and the scenes analysed so far are dropped.
Leave ==
    /\ main = "leave"
    /\ Running = {}
    /\ main' = "failed"
    /\ UNCHANGED <<count, enabled, client, built, runs, from, step, results>>

EndBatch ==
    /\ main = "collect"
    /\ Len(results) + 1 \notin Batch
    /\ from' = from + BatchSize
    /\ main' = "next"
    /\ UNCHANGED <<count, enabled, client, built, runs, step, results>>

Return ==
    /\ main = "next"
    /\ from >= count
    /\ main' = "done"
    /\ UNCHANGED <<count, enabled, client, built, runs, from, step, results>>

\* The agent traces and flushes through the same client, with no analysis running.
TraceAgent ==
    /\ main \in Outside
    /\ client = "unset"
    /\ client' = IF enabled THEN "client" ELSE "none"
    /\ built' = IF enabled THEN built + 1 ELSE built
    /\ UNCHANGED <<count, enabled, runs, main, from, step, results>>

AnalysisNext ==
    \/ Begin \/ TakeFirst \/ FirstRaises
    \/ SubmitBatch \/ Collect \/ CollectRaises \/ EndBatch \/ Leave \/ Return
    \/ TraceAgent
    \/ \E i \in Scenes : PickUp(i) \/ Analyse(i)

AnalysisSpec == AnalysisInit /\ [][AnalysisNext]_analysisVars

-----------------------------------------------------------------------------
(***************************************************************************)
(* Properties.                                                             *)
(***************************************************************************)

\* At most one Langfuse client is ever built, although get_langfuse_client takes
\* no lock: the first scene is analysed before any thread is started.
OneClient == built <= 1

\* A returned analysis has every scene once and in order, whatever the size of
\* the last batch and the order in which the threads finish.
EveryScene == main = "done" => results = [i \in Scenes |-> i]

=============================================================================
