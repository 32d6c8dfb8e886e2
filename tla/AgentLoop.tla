----------------------------- MODULE AgentLoop -----------------------------
(***************************************************************************)
(* One run of the sound timeline agent (run_agent_loop): a graph of        *)
(* supersteps that alternates between the model node, which answers with   *)
(* tool calls or with a final message, and the tools node, which runs the  *)
(* calls of one answer side by side and waits for all of them.  A call     *)
(* that raises is retried by ToolRetryMiddleware; the run is cut off after *)
(* recursion_limit supersteps.  The graph runtime and the middleware are   *)
(* libraries, modelled from the arguments the code gives them.             *)
(***************************************************************************)
EXTENDS SoundTimelineEditor

CONSTANTS MaxIterations,  \* recursion_limit of the run
          MaxRetries      \* ToolRetryMiddleware(max_retries=...)

ASSUME LimitsAssumption == MaxIterations \in Nat \ {0} /\ MaxRetries \in Nat

VARIABLES phase,     \* which node runs, or how the run ended
          steps,     \* supersteps taken
          attempts,  \* retries of each call of the batch so far
          edits,     \* how often each call of the batch changed the timeline
          outset,    \* history: the timeline and the ids when the agent was last told
          stood      \* history: the timelines that stood since then

agentVars == <<phase, steps, attempts, edits, outset, stood>>
allVars == <<vars, agentVars>>

Ended == {"done", "limit", "failed"}

\* A missing timeline shows the agent what an empty one does.
Content(t) == IF t = None THEN EmptyTimeline ELSE t

\* A timeline as the sets of its records.
SourceSet(t) ==
    {[id |-> i, object |-> Content(t).sources[i]] : i \in DOMAIN Content(t).sources}

EventSet(t) ==
    {[id |-> i, start |-> Content(t).events[i].start, end |-> Content(t).events[i].end,
      source |-> Content(t).events[i].source] : i \in DOMAIN Content(t).events}

Records(t) == [sources |-> SourceSet(t), events |-> EventSet(t)]

AgentInit ==
    /\ Init
    /\ phase = "model"
    /\ steps = 0
    /\ attempts = [c \in Callers |-> 0]
    /\ edits = [c \in Callers |-> 0]
    /\ outset = [timeline |-> timeline, created |-> created]
    /\ stood = {Records(timeline)}

-----------------------------------------------------------------------------
(***************************************************************************)
(* The model node.                                                         *)
(***************************************************************************)
Batches ==
    {plan \in [Callers -> Calls \cup {None}] :
        /\ \E c \in Callers : plan[c] # None
        /\ Cardinality({c \in Callers : IsWrite(plan[c])}) <= MaxWriters}

\* Bound: the calls of a batch can all get the fresh ids they need.
FreshIdsLeft(plan) ==
    \A op \in {"upsert_source", "upsert_event"} :
        Cardinality({c \in Callers : IsWrite(plan[c]) /\ plan[c].op = op /\ plan[c].id = None})
          <= Cardinality((IF op = "upsert_source" THEN SourceIds ELSE EventIds) \ created)

CallTools ==
    /\ phase = "model"
    /\ steps < MaxIterations
    /\ \E plan \in Batches : FreshIdsLeft(plan) /\ call' = plan
    /\ phase' = "dispatch"
    /\ steps' = steps + 1
    /\ UNCHANGED <<timeline, pc, snap, history, attempts, edits, outset, stood>>

FinalAnswer ==
    /\ phase = "model"
    /\ steps < MaxIterations
    /\ phase' = "final"
    /\ steps' = steps + 1
    /\ UNCHANGED <<vars, attempts, edits, outset, stood>>

\* The chat model raises: the exception leaves agent.invoke.
ModelFails ==
    /\ phase = "model"
    /\ steps < MaxIterations
    /\ phase' = "failed"
    /\ UNCHANGED <<vars, steps, attempts, edits, outset, stood>>

-----------------------------------------------------------------------------
(***************************************************************************)
(* The tools node.                                                         *)
(***************************************************************************)
StartTools ==
    /\ phase = "dispatch"
    /\ steps < MaxIterations
    /\ phase' = "tools"
    /\ steps' = steps + 1
    /\ pc' = [c \in Callers |-> IF call[c] = None THEN "idle" ELSE FirstStep(call[c])]
    /\ UNCHANGED <<timeline, call, snap, history, attempts, edits, outset, stood>>

RunTool(c) ==
    /\ phase = "tools"
    /\ Work(c)
    /\ edits' = [edits EXCEPT ![c] =
                   IF Content(timeline') = Content(timeline) THEN @ ELSE @ + 1]
    /\ stood' = stood \cup {Records(timeline')}
    /\ UNCHANGED <<phase, steps, attempts, outset>>

\* Mutant: retries are not counted.
RetryUncounted(c) ==
    /\ phase = "tools"
    /\ pc[c] = "rejected"
    /\ Goto(c, FirstStep(call[c]))
    /\ snap' = [snap EXCEPT ![c] = None]
    /\ UNCHANGED <<timeline, call, history, phase, steps, attempts, edits, outset, stood>>

Retry(c) ==
    /\ phase = "tools"
    /\ pc[c] = "rejected"
    /\ attempts[c] < MaxRetries
    /\ attempts' = [attempts EXCEPT ![c] = @ + 1]
    /\ Goto(c, FirstStep(call[c]))
    /\ snap' = [snap EXCEPT ![c] = None]
    /\ UNCHANGED <<timeline, call, history, phase, steps, edits, outset, stood>>

Answered(c) ==
    \/ pc[c] \in {"idle", "returned"}
    \/ pc[c] = "rejected" /\ attempts[c] = MaxRetries

\* Every call of the batch has its tool message; back to the model.
JoinTools ==
    /\ phase = "tools"
    /\ \A c \in Callers : Answered(c)
    /\ phase' = "model"
    /\ pc' = [c \in Callers |-> "idle"]
    /\ call' = [c \in Callers |-> None]
    /\ snap' = [c \in Callers |-> None]
    /\ attempts' = [c \in Callers |-> 0]
    /\ edits' = [c \in Callers |-> 0]
    /\ outset' = [timeline |-> timeline, created |-> created]
    /\ stood' = {Records(timeline)}
    /\ UNCHANGED <<timeline, history, steps>>

-----------------------------------------------------------------------------
(***************************************************************************)
(* The end of a run.  An answer given in the very last superstep may still *)
(* be reported as a recursion error, depending on the graph runtime.       *)
(***************************************************************************)
Finish ==
    /\ phase = "final"
    /\ phase' = "done"
    /\ UNCHANGED <<vars, steps, attempts, edits, outset, stood>>

RecursionLimit ==
    /\ phase \in {"model", "dispatch", "final"}
    /\ steps = MaxIterations
    /\ phase' = "limit"
    /\ call' = [c \in Callers |-> None]
    /\ UNCHANGED <<timeline, pc, snap, history, steps, attempts, edits, outset, stood>>

ModelNode == CallTools \/ FinalAnswer \/ ModelFails

Runtime ==
    \/ StartTools \/ JoinTools
    \/ \E c \in Callers : RunTool(c) \/ Retry(c)
    \/ Finish \/ RecursionLimit

AgentNext == ModelNode \/ Runtime

\* Tool threads are scheduled and the graph runtime goes on.  Nothing is assumed
\* of the chat model: llm_timeout_seconds has no default, so it may never answer.
AgentSpec == AgentInit /\ [][AgentNext]_allVars /\ WF_allVars(Runtime)

-----------------------------------------------------------------------------
(***************************************************************************)
(* Properties.                                                             *)
(***************************************************************************)

LoneWriter == \A c, d \in Callers : IsWrite(call[c]) /\ IsWrite(call[d]) => c = d

\* A tool call the agent is told has failed has left no trace, however often
\* it was retried, and one that is told it succeeded was applied once: the
\* retries of ToolRetryMiddleware never repeat an edit.  Left out is an answer
\* with several writing calls for an asset without a timeline: there
\* ensure_sound_timeline of one call, even of one that then fails, may empty
\* the timeline another has written to.
AnswerMatchesEffect ==
    outset.timeline # None \/ LoneWriter =>
        \A c \in Callers : edits[c] <= 1 /\ (edits[c] = 1 => pc[c] = "returned")

\* The ids that the writing calls of the batch with one of these names are given.
Given(ops) == {call[c].id : c \in {d \in Callers : IsWrite(call[d]) /\ call[d].op \in ops}}

\* What an earlier answer left is still there in t, unless a call of this batch
\* was asked to delete or to rewrite it; and nothing deleted earlier is back.
Keeps(t, from, removed, rewritten) ==
    LET then == Content(from.timeline)
        now  == Content(t)
    IN  /\ \A i \in DOMAIN then.sources \ removed :
              /\ i \in DOMAIN now.sources
              /\ i \notin rewritten => now.sources[i] = then.sources[i]
        /\ \A e \in DOMAIN then.events \ removed :
              /\ e \in DOMAIN now.events
              /\ e \notin rewritten /\ then.events[e].source \notin removed
                    => now.events[e] = then.events[e]
        /\ IdsIn(t) \cap from.created \subseteq IdsIn(from.timeline)

Removed == Given({"delete_source", "delete_event"})

Rewritten == Given({"upsert_source", "upsert_event"})

\* Calls of one answer can undo each other's edits, and nothing else: however
\* many of them write at once, whatever they read, and however often they are
\* retried, what the agent had been told before that answer still holds.
EarlierEditsHold == phase = "tools" => Keeps(timeline, outset, Removed, Rewritten)

\* Every assignment to the timeline is one edit of a timeline that stood since
\* the agent was last told: the run implements SoundTimeline.
Promise == INSTANCE SoundTimeline
    WITH sources <- SourceSet(timeline), events <- EventSet(timeline), used <- created

EditsOfTheAnswer == Promise!ASpec

\* Whatever the model answers, a run ends unless the model stops answering:
\* retries are bounded per call, calls are joined, and supersteps are counted
\* (runner.py, recursion_limit).
RunEnds == <>(phase \in Ended) \/ <>[](phase = "model")
=============================================================================
