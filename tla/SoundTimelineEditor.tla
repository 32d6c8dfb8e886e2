------------------------- MODULE SoundTimelineEditor -------------------------
(***************************************************************************)
(* SoundTimelineEditor: the tools through which an agent edits one         *)
(* VideoAsset.sound_timeline.  A tool call runs in a thread of its own     *)
(* (a caller); there is no lock.  Each write tool tests for a missing      *)
(* timeline, creates it, reads a reference to it, computes new lists from  *)
(* what it read and assigns a whole new SoundTimeline.  A read tool only   *)
(* reads the reference.  The steps of different callers interleave between *)
(* those accesses to the shared attribute; what a call computes in between *)
(* is local to it.                                                         *)
(***************************************************************************)
EXTENDS TimelineData, FiniteSets

CONSTANTS Callers,     \* tool calls that can be in flight at the same time
          MaxWriters,  \* how many of them the agent lets be writes
          Loaded       \* a timeline saved by an earlier run, reloaded with the asset

ASSUME LoadedAssumption == Loaded \in Timelines /\ Consistent(Loaded)

\* Frame arguments the schemas let through: non-negative, otherwise unchecked.
RequestFrames == 0..(FrameCount + 1)

\* A read tool gets valid arguments or it raises; what it shows of the timeline
\* is left out.
Calls ==
    [op : {"read"}, valid : BOOLEAN]
    \cup [op : {"upsert_source"}, id : SourceIds \cup {None}, object : SourceData]
    \cup [op : {"delete_source"}, id : SourceIds]
    \cup [op : {"upsert_event"}, id : EventIds \cup {None}, start : RequestFrames,
          end : RequestFrames, source : SourceIds \cup {None}]
    \cup [op : {"delete_event"}, id : EventIds]

ASSUME CallsAssumption == None \notin Calls

ASSUME CallersAssumption == IsFiniteSet(Callers) /\ MaxWriters \in Nat

VARIABLES timeline,  \* video_asset.sound_timeline
          pc,        \* where each call is
          call,      \* the arguments of each call
          snap,      \* the local `timeline` of each call
          created,   \* ids whose upsert has succeeded, each once fresh from uuid4
          deleted    \* ids whose deletion has succeeded

callVars == <<pc, call, snap>>
history == <<created, deleted>>
vars == <<timeline, callVars, history>>

IsWrite(k) == k # None /\ k.op # "read"

IdsIn(t) == IF t = None THEN {} ELSE DOMAIN t.sources \cup DOMAIN t.events

Init ==
    /\ timeline \in {None, Loaded}
    /\ pc = [c \in Callers |-> "idle"]
    /\ call = [c \in Callers |-> None]
    /\ snap = [c \in Callers |-> None]
    /\ created = IdsIn(timeline)
    /\ deleted = {}

Labels == {"idle", "read", "ensure", "fill", "snapshot", "store", "returned", "rejected"}

Goto(c, label) == pc' = [pc EXCEPT ![c] = label]

-----------------------------------------------------------------------------
(***************************************************************************)
(* A tool call begins.  The range checks come before anything else, so a   *)
(* call with a bad range is rejected with the timeline untouched.          *)
(***************************************************************************)
\* Bound: a call that needs a fresh id begins only while the model has one.
FreshIdLeft(k) ==
    LET ids == IF k.op = "upsert_source" THEN SourceIds ELSE EventIds
        waiting == {c \in Callers : /\ IsWrite(call[c])
                                    /\ call[c].op = k.op
                                    /\ call[c].id = None}
    IN  k.id = None => Cardinality(waiting) < Cardinality(ids \ created)

\* The agent's choice of how many writes to have in flight.
MayWrite == Cardinality({c \in Callers : IsWrite(call[c])}) < MaxWriters

FirstStep(k) ==
    CASE k.op = "read" -> IF k.valid THEN "read" ELSE "rejected"
      [] k.op = "upsert_event" -> IF CheckFrameRange(k.start, k.end) THEN "ensure" ELSE "rejected"
      [] OTHER -> "ensure"

Begin(c, k) ==
    /\ pc[c] = "idle"
    /\ IsWrite(k) => MayWrite /\ FreshIdLeft(k)
    /\ call' = [call EXCEPT ![c] = k]
    /\ Goto(c, FirstStep(k))
    /\ UNCHANGED <<timeline, snap, history>>

(***************************************************************************)
(* get_sound_timeline: one read of the attribute, never creating it.       *)
(***************************************************************************)
ReadTimeline(c) ==
    /\ pc[c] = "read"
    /\ snap' = [snap EXCEPT ![c] = timeline]
    /\ Goto(c, "returned")
    /\ UNCHANGED <<timeline, call, history>>

(***************************************************************************)
(* ensure_sound_timeline, one step per access to video_asset.              *)
(***************************************************************************)
\* Mutant: ensure always creates a timeline.
CheckNoneAlwaysFill(c) ==
    pc[c] = "ensure" /\ Goto(c, "fill") /\ UNCHANGED <<timeline, call, snap, history>>

CheckNone(c) ==
    /\ pc[c] = "ensure"
    /\ Goto(c, IF timeline = None THEN "fill" ELSE "snapshot")
    /\ UNCHANGED <<timeline, call, snap, history>>

Fill(c) ==
    /\ pc[c] = "fill"
    /\ timeline' = EmptyTimeline
    /\ Goto(c, "snapshot")
    /\ UNCHANGED <<call, snap, history>>

Snapshot(c) ==
    /\ pc[c] = "snapshot"
    /\ snap' = [snap EXCEPT ![c] = timeline]
    /\ Goto(c, "store")
    /\ UNCHANGED <<timeline, call, history>>

-----------------------------------------------------------------------------
(***************************************************************************)
(* The rest of a write tool: look up the ids it was given in what it read, *)
(* raise ValueError if one is unknown, else assign the new timeline.       *)
(***************************************************************************)
Refused(t, k) ==
    \/ k.op = "upsert_source" /\ k.id \notin DOMAIN t.sources \cup {None}
    \/ k.op = "delete_source" /\ k.id \notin DOMAIN t.sources
    \/ k.op = "upsert_event" /\ k.source \notin DOMAIN t.sources \cup {None}
    \/ k.op = "upsert_event" /\ k.id \notin DOMAIN t.events \cup {None}
    \/ k.op = "delete_event" /\ k.id \notin DOMAIN t.events

Reject(c) ==
    /\ pc[c] = "store"
    /\ Refused(snap[c], call[c])
    /\ Goto(c, "rejected")
    /\ UNCHANGED <<timeline, call, snap, history>>

Accepted(c, op) ==
    /\ pc[c] = "store"
    /\ call[c].op = op
    /\ ~Refused(snap[c], call[c])
    /\ Goto(c, "returned")
    /\ UNCHANGED <<call, snap>>

\* The id an upsert writes: the one it was given, or a fresh uuid4.
WrittenId(c, ids) ==
    IF call[c].id = None THEN ids \ created ELSE {call[c].id}

StoreSource(c) ==
    /\ Accepted(c, "upsert_source")
    /\ \E i \in WrittenId(c, SourceIds) :
          /\ timeline' = PutSource(snap[c], i, call[c].object)
          /\ created' = created \cup {i}
    /\ UNCHANGED deleted

RemoveSource(c) ==
    /\ Accepted(c, "delete_source")
    /\ timeline' = DropSource(snap[c], call[c].id)
    /\ deleted' = deleted \cup {call[c].id}
    /\ UNCHANGED created

NewEvent(k) == [start |-> k.start, end |-> k.end, source |-> k.source]

\* Mutant: the new timeline is assigned and then the tool raises.
StoreEventThenRaise(c) ==
    /\ pc[c] = "store"
    /\ call[c].op = "upsert_event"
    /\ ~Refused(snap[c], call[c])
    /\ \E i \in WrittenId(c, EventIds) :
          /\ timeline' = PutEvent(snap[c], i, NewEvent(call[c]))
          /\ created' = created \cup {i}
    /\ Goto(c, "rejected")
    /\ UNCHANGED <<call, snap, deleted>>

StoreEvent(c) ==
    /\ Accepted(c, "upsert_event")
    /\ \E i \in WrittenId(c, EventIds) :
          /\ timeline' = PutEvent(snap[c], i, NewEvent(call[c]))
          /\ created' = created \cup {i}
    /\ UNCHANGED deleted

RemoveEvent(c) ==
    /\ Accepted(c, "delete_event")
    /\ timeline' = DropEvent(snap[c], call[c].id)
    /\ deleted' = deleted \cup {call[c].id}
    /\ UNCHANGED created

(***************************************************************************)
(* The tool message has been handed to the agent.                          *)
(***************************************************************************)
Collect(c) ==
    /\ pc[c] \in {"returned", "rejected"}
    /\ Goto(c, "idle")
    /\ call' = [call EXCEPT ![c] = None]
    /\ snap' = [snap EXCEPT ![c] = None]
    /\ UNCHANGED <<timeline, history>>

Work(c) ==
    \/ ReadTimeline(c) \/ CheckNone(c) \/ Fill(c) \/ Snapshot(c) \/ Reject(c)
    \/ StoreSource(c) \/ RemoveSource(c) \/ StoreEvent(c) \/ RemoveEvent(c)

Next ==
    \E c \in Callers : (\E k \in Calls : Begin(c, k)) \/ Work(c) \/ Collect(c)

Spec == Init /\ [][Next]_vars

-----------------------------------------------------------------------------
(***************************************************************************)
(* Properties.                                                             *)
(***************************************************************************)

\* Every variable has its type, and the local variables of a call are set
\* exactly while the code has assigned them.
TypeOK ==
    /\ timeline \in Timelines \cup {None}
    /\ pc \in [Callers -> Labels]
    /\ call \in [Callers -> Calls \cup {None}]
    /\ snap \in [Callers -> Timelines \cup {None}]
    /\ created \subseteq SourceIds \cup EventIds
    /\ deleted \subseteq created

\* However calls interleave, the timeline never holds an event attached to a
\* source it does not hold, nor an event outside the video: a whole new
\* timeline is assigned, computed from one that was consistent.
TimelineConsistent == timeline # None => Consistent(timeline)

\* A call that is about to use the timeline has one: ensure_sound_timeline
\* never hands out None, and no step takes a timeline away again.
EnsureNeverReturnsNone ==
    \A c \in Callers : pc[c] = "store" => snap[c] # None

\* The inductive invariant behind TimelineConsistent: every timeline a call
\* still holds is consistent too, the range of an event was checked before
\* anything was read, and no held timeline knows an id that was never created.
Writing == {"ensure", "fill", "snapshot", "store"}

SnapshotsConsistent == \A c \in Callers : snap[c] # None => Consistent(snap[c])

RangesChecked ==
    \A c \in Callers : pc[c] \in Writing =>
        /\ IsWrite(call[c])
        /\ call[c].op = "upsert_event" => CheckFrameRange(call[c].start, call[c].end)

TimelineReady == \A c \in Callers : pc[c] = "snapshot" => timeline # None

IdsCreated ==
    /\ IdsIn(timeline) \subseteq created
    /\ \A c \in Callers : IdsIn(snap[c]) \subseteq created

IInv ==
    /\ TypeOK /\ TimelineConsistent /\ EnsureNeverReturnsNone
    /\ SnapshotsConsistent /\ RangesChecked /\ TimelineReady /\ IdsCreated

\* "Delete a SoundSource and detach events that referenced it."
\* (tools/sound_timeline/langchain.py): a source whose deletion succeeded is
\* not in the timeline and no event refers to it.
DeletedSourceGone ==
    timeline # None =>
        /\ DOMAIN timeline.sources \cap deleted = {}
        /\ \A e \in DOMAIN timeline.events : timeline.events[e].source \notin deleted
=============================================================================
