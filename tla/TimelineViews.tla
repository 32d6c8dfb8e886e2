--------------------------- MODULE TimelineViews ---------------------------
(***************************************************************************)
(* TimelineViews: what the agent gets to see through the read tools when   *)
(* it works as its prompt and the tools' own answers tell it to.  It pages *)
(* through the scenes with next_scene_index; for each page it asks for the *)
(* visual events of the page's frame window and, told that the answer is   *)
(* truncated, narrows the window; it asks for scene summaries and for      *)
(* annotated frames.                                                       *)
(*                                                                         *)
(* An event is its frame interval and a number that stands for the rest of *)
(* the sort key (event_type, visual_event_id), which is unique.  The same  *)
(* window and limit apply to sound events in get_sound_timeline.           *)
(***************************************************************************)
EXTENDS Integers, Sequences, Functions, FiniteSetsExt

CONSTANTS FrameCount,  \* VideoAsset.frame_count
          SceneLists,  \* lists of scenes that partition the video
          EventSets,   \* visual events a layer can have
          PageLimit,   \* largest limit of list_scenes (100)
          EventLimit,  \* largest limit of get_visual_events (200)
          None

ASSUME FrameCountAssumption == FrameCount \in Nat \ {0}
ASSUME LimitsAssumption == PageLimit \in Nat \ {0} /\ EventLimit \in Nat \ {0}
ASSUME NoneAssumption == None \notin Nat

\* initial_scenes partition the video (InitialScenes!ScenesPartitionVideo) and
\* a track has its points in its scene (SceneTracking!TracksBelongToTheirScene).
ASSUME ScenesAssumption ==
    \A scenes \in SceneLists :
        /\ scenes \in Seq(Range(scenes))
        /\ \A i \in DOMAIN scenes : {scenes[i].start, scenes[i].end} \subseteq Nat
        /\ scenes # <<>> => scenes[1].start = 0 /\ scenes[Len(scenes)].end = FrameCount
        /\ \A i \in 1..(Len(scenes) - 1) : scenes[i].end = scenes[i + 1].start
        /\ \A i \in DOMAIN scenes :
              /\ scenes[i].start < scenes[i].end
              /\ \A t \in scenes[i].tracks : t \subseteq scenes[i].start..(scenes[i].end - 1)

\* An event covers frames of the video; no two have one sort key.
ASSUME EventsAssumption ==
    \A visual \in EventSets :
        /\ IsFiniteSet(visual)
        /\ visual \subseteq [start : 0..(FrameCount - 1), end : 1..FrameCount, rest : Nat]
        /\ \A e \in visual : e.start < e.end

VARIABLES scenes,    \* video_asset.initial_scenes
          visual,    \* visual_identity_layer.visual_events
          next,      \* next_scene_index of the last page, None after the last page
          listed,    \* scene indexes the agent has been shown
          windows,   \* frame windows still to be read
          seen,      \* events the agent has been shown
          crowded,   \* frames whose events it could not all be shown
          summary,   \* scene -> whether its summary was shown
          frame,     \* the last annotated frame, with the tracks drawn on it
          answers    \* history: pages and windows of events answered so far

asset == <<scenes, visual>>
reading == <<windows, seen, crowded>>
vars == <<asset, next, listed, reading, summary, frame, answers>>

Init ==
    /\ scenes \in SceneLists
    /\ visual \in EventSets
    /\ next = 0
    /\ listed = <<>>
    /\ windows = {}
    /\ seen = {}
    /\ crowded = {}
    /\ summary = [i \in DOMAIN scenes |-> "unasked"]
    /\ frame = [index |-> None, tracks |-> {}]
    /\ answers = 0

-----------------------------------------------------------------------------
(***************************************************************************)
(* list_scenes.                                                            *)
(***************************************************************************)
\* Python's scenes[start : start + limit], with indexes from 0.
Page(start, limit) == SubSeq(scenes, start + 1, Min({start + limit, Len(scenes)}))

\* Mutant: there always is a next page.
NextSceneIndexEndless(start, limit) == start + Len(Page(start, limit))

NextSceneIndex(start, limit) ==
    LET index == start + Len(Page(start, limit))
    IN  IF index >= Len(scenes) THEN None ELSE index

\* A page, with the window of its scenes queued for reading; no page is asked
\* for before the windows of the last one have been read.
ListScenes(limit) ==
    /\ next # None
    /\ windows = {}
    /\ next <= Len(scenes)
    /\ LET page == Page(next, limit)
       IN  /\ listed' = listed \o [i \in DOMAIN page |-> next + i - 1]
           /\ windows' = IF page = <<>> THEN {}
                         ELSE {[start |-> page[1].start, end |-> page[Len(page)].end]}
    /\ next' = NextSceneIndex(next, limit)
    /\ answers' = answers + 1
    /\ UNCHANGED <<asset, seen, crowded, summary, frame>>

-----------------------------------------------------------------------------
(***************************************************************************)
(* get_visual_events.                                                      *)
(***************************************************************************)
\* Events that share a frame with the window.
Matching(w) == {e \in visual : ~(e.end <= w.start) /\ ~(e.start >= w.end)}

Before(e, f) ==
    \/ e.start < f.start
    \/ e.start = f.start /\ e.end < f.end
    \/ e.start = f.start /\ e.end = f.end /\ e.rest < f.rest

\* Mutant: an answer is never said to be truncated.
NeverTruncated(w, limit) == FALSE

Truncated(w, limit) == Min({limit, Cardinality(Matching(w))}) < Cardinality(Matching(w))

\* The first limit events in sort order: less than limit others come before.
Shown(w, limit) ==
    {e \in Matching(w) : Cardinality({f \in Matching(w) : Before(f, e)}) < limit}

Halves(w) ==
    LET middle == (w.start + w.end) \div 2
    IN  {[start |-> w.start, end |-> middle], [start |-> middle, end |-> w.end]}

\* A window is read: it is done when the answer is whole, cut in two when it is
\* truncated, and given up when it is a single frame and the limit the largest.
ReadWindow(w, limit) ==
    /\ seen' = seen \cup Shown(w, limit)
    /\ IF ~Truncated(w, limit)
       THEN windows' = windows \ {w} /\ UNCHANGED crowded
       ELSE IF w.start + 1 < w.end
       THEN windows' = (windows \ {w}) \cup Halves(w) /\ UNCHANGED crowded
       ELSE /\ limit = EventLimit
            /\ windows' = windows \ {w}
            /\ crowded' = crowded \cup {w.start}
    /\ answers' = answers + 1
    /\ UNCHANGED <<asset, next, listed, summary, frame>>

-----------------------------------------------------------------------------
(***************************************************************************)
(* get_scene_summary and get_annotated_frame.                              *)
(***************************************************************************)
\* A seed's tracking_prompt may be None; ObjectSeedView demands a string.
SummaryFails(i) == \E seed \in scenes[i].seeds : seed = None

GetSceneSummary(i) ==
    /\ i - 1 \in Range(listed)
    /\ summary[i] = "unasked"
    /\ summary' = [summary EXCEPT ![i] = IF SummaryFails(i) THEN "failed" ELSE "shown"]
    /\ UNCHANGED <<asset, next, listed, reading, frame, answers>>

\* _tracks_at_frame looks into the scene the frame is in.
TracksAtFrame(f) ==
    UNION {{<<i, t>> : t \in {u \in scenes[i].tracks : f \in u}} :
             i \in {j \in DOMAIN scenes : scenes[j].start <= f /\ f < scenes[j].end}}

GetAnnotatedFrame(f) ==
    /\ f \in 0..(FrameCount - 1)
    /\ frame' = [index |-> f, tracks |-> TracksAtFrame(f)]
    /\ UNCHANGED <<asset, next, listed, reading, summary, answers>>

Next ==
    \/ \E limit \in 1..PageLimit : ListScenes(limit)
    \/ \E w \in windows, limit \in 1..EventLimit : ReadWindow(w, limit)
    \/ \E i \in DOMAIN scenes : GetSceneSummary(i)
    \/ \E f \in 0..(FrameCount - 1) : GetAnnotatedFrame(f)

Spec == Init /\ [][Next]_vars

-----------------------------------------------------------------------------
(***************************************************************************)
(* Properties.                                                             *)
(***************************************************************************)
Crossing(f) == {e \in visual : e.start <= f /\ f < e.end}

\* When the agent has followed next_scene_index to the end and read every window
\* it was sent to, it has been shown each scene once and in order and has seen
\* every visual event, whatever limits it chose and however windows cut events in
\* two; an event stays hidden only where more events than one answer can hold
\* cross a single frame.
EveryEventSeen ==
    next = None /\ windows = {} =>
        /\ listed = [i \in DOMAIN scenes |-> i - 1]
        /\ scenes # <<>> =>
             /\ \A e \in visual \ seen : \E f \in crowded : e \in Crossing(f)
             /\ \A f \in crowded : Cardinality(Crossing(f)) > EventLimit

\* The answers never send the agent round in a circle: no page is offered again and
\* no frame asked for again once its events have been shown, so however small the
\* limits it chooses and however often an answer is truncated, it is given at most
\* two answers for every frame of the video (next_scene_index, truncated).
ReadingBounded == answers <= 2 * FrameCount
=============================================================================
