---------------------------- MODULE TimelineData ----------------------------
(***************************************************************************)
(* The data of a SoundTimeline: sound sources, sound events, and the pure  *)
(* functions the write tools apply to a timeline they have read.           *)
(*                                                                         *)
(* The two lists of the code are partial functions keyed by id: ids come   *)
(* from uuid4, so "the first match" an upsert replaces is the only match,  *)
(* and no operation depends on the order of the lists.  Of a source only   *)
(* visual_object_id is kept, of an event its frame interval and            *)
(* sound_source_id; labels, kinds and notes are payload no guard reads.    *)
(***************************************************************************)
EXTENDS Integers

CONSTANTS SourceIds,   \* UUIDs a SoundSource can have
          EventIds,    \* UUIDs a SoundEvent can have
          Objects,     \* visual object ids a source can name
          FrameCount,  \* VideoAsset.frame_count
          None         \* Python's None

ASSUME FrameCountAssumption == FrameCount \in Nat \ {0}

ASSUME IdsAssumption == SourceIds \cap EventIds = {}

PartialFunctions(S, T) == UNION {[D -> T] : D \in SUBSET S}

SourceData == Objects \cup {None}

Frames == 0..FrameCount

EventData == [start : Frames, end : Frames, source : SourceIds \cup {None}]

Timelines == [sources : PartialFunctions(SourceIds, SourceData),
              events  : PartialFunctions(EventIds, EventData)]

ASSUME NoneAssumption == None \notin SourceIds \cup EventIds \cup Objects \cup Timelines

\* SoundTimeline(): both lists default to empty.
EmptyTimeline == [sources |-> [i \in {} |-> None], events |-> [i \in {} |-> None]]

-----------------------------------------------------------------------------
(***************************************************************************)
(* Frame range checks.                                                     *)
(***************************************************************************)
CheckFrameIndex(f, allowEnd) ==
    f >= 0 /\ f <= (IF allowEnd THEN FrameCount ELSE FrameCount - 1)

CheckFrameRange(start, end) ==
    /\ CheckFrameIndex(start, FALSE)
    /\ CheckFrameIndex(end, TRUE)
    /\ end > start

-----------------------------------------------------------------------------
(***************************************************************************)
(* What each write tool computes from the timeline t it has read.          *)
(***************************************************************************)
\* f with i mapped to v: append a new element, or replace the old one.
Put(f, i, v) == [x \in DOMAIN f \cup {i} |-> IF x = i THEN v ELSE f[x]]

Drop(f, i) == [x \in DOMAIN f \ {i} |-> f[x]]

PutSource(t, i, obj) == [sources |-> Put(t.sources, i, obj), events |-> t.events]

PutEvent(t, i, e) == [sources |-> t.sources, events |-> Put(t.events, i, e)]

\* Mutant: the events of the source keep their reference.
DropSourceNoDetach(t, i) == [sources |-> Drop(t.sources, i), events |-> t.events]

\* Remove the source and detach the events that referred to it.
DropSource(t, i) ==
    [sources |-> Drop(t.sources, i),
     events  |-> [x \in DOMAIN t.events |->
                    IF t.events[x].source = i
                    THEN [t.events[x] EXCEPT !.source = None]
                    ELSE t.events[x]]]

DropEvent(t, i) == [sources |-> t.sources, events |-> Drop(t.events, i)]

-----------------------------------------------------------------------------
(***************************************************************************)
(* A timeline the renderer can use: every event is attached to a source of *)
(* the same timeline or to none, and lies within the video.                *)
(***************************************************************************)
SourcesResolve(t) ==
    \A e \in DOMAIN t.events : t.events[e].source \in DOMAIN t.sources \cup {None}

RangesInVideo(t) ==
    \A e \in DOMAIN t.events : CheckFrameRange(t.events[e].start, t.events[e].end)

Consistent(t) == SourcesResolve(t) /\ RangesInVideo(t)
=============================================================================
