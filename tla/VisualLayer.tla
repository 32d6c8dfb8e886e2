---------------------------- MODULE VisualLayer ----------------------------
(***************************************************************************)
(* VisualLayer: the stages between tracking and the sound timeline, in any *)
(* order a caller may repeat them in.  track_initial_scenes_object_seeds   *)
(* replaces the tracks of the scenes it is given, build_visual_identity_   *)
(* layer makes one visual object of each track, compute_visual_events      *)
(* looks up the tracks of the objects and reports what they do.            *)
(*                                                                         *)
(* A track is its id, its scene, the frames of its points and, for those   *)
(* with a usable mask, the place of the mask; masks in one place overlap,  *)
(* in two they do not.  Of the events of one object (module ObjectEvents)  *)
(* the interval of its motion is kept; the search for a contact is its     *)
(* specification, which ContactIntervals compares with the code.           *)
(***************************************************************************)
EXTENDS ContactData, Sequences, SequencesExt

CONSTANTS Scenes,     \* initial scenes, each an interval of frames
          Shapes,     \* scene -> the points and samples a track of it can have
          MaxFound,   \* tracks one tracking call finds (bound)
          MaxIds,     \* tracks of all tracking calls (bound)
          MaxBuilds,  \* calls of build_visual_identity_layer (bound)
          None

ASSUME ScenesAssumption ==
    /\ \A s \in Scenes : s \subseteq Nat /\ \E a, b \in s : s = a..b
    /\ \A s, t \in Scenes : s = t \/ s \cap t = {}

\* The masks of a track are on points of it, and the points in its scene.
ASSUME ShapesAssumption ==
    \A s \in Scenes : \A shape \in Shapes[s] :
        shape.points # {} /\ shape.points \subseteq s /\ DOMAIN shape.samples \subseteq shape.points

ASSUME LayerBoundsAssumption == {MaxFound, MaxIds, MaxBuilds} \subseteq Nat \ {0}

\* A visual object and its events.  An id is made of the layer and the track.
ObjectId == Nat \X Nat
VisualObject == [id : ObjectId, track : Nat]
VisualEvent ==
    [object : ObjectId, type : {"uncertain", "motion", "contact"}, related : SUBSET ObjectId,
     start : Nat, end : Nat]
LayerRecord == [objects : SUBSET VisualObject, events : SUBSET VisualEvent]

ASSUME NoneAssumption == None \notin LayerRecord

VARIABLES tracks,   \* scene_tracks of all scenes
          layer,    \* visual_identity_layer, or None
          lastId,   \* tracks made so far: what makes scene_track_id new
          builds,   \* layers built so far: what makes visual_object_id new
          matched,  \* the layer was built from the tracks as they are
          current   \* its events were computed from the tracks as they are

layerVars == <<tracks, layer, lastId, builds, matched, current>>

LayerInit ==
    /\ tracks = {}
    /\ layer = None
    /\ lastId = 0
    /\ builds = 0
    /\ matched = FALSE
    /\ current = FALSE

-----------------------------------------------------------------------------
\* What tracking the scenes in selected can find, scene by scene.
Finds(selected) ==
    LET seen == UNION {{[scene |-> s, shape |-> h] : h \in Shapes[s]} : s \in selected}
    IN  UNION {[1..n -> seen] : n \in 0..MaxFound}

\* A tracking call returns an asset with new tracks in the scenes it was given
\* and the layer the old asset had.
Track(selected) ==
    \E found \in Finds(selected) :
        /\ selected # {}
        /\ lastId + Len(found) <= MaxIds
        /\ tracks' = {t \in tracks : t.scene \notin selected}
                     \cup {[id |-> lastId + i, scene |-> found[i].scene, shape |-> found[i].shape] :
                             i \in DOMAIN found}
        /\ lastId' = lastId + Len(found)
        /\ matched' = FALSE
        /\ current' = FALSE
        /\ UNCHANGED <<layer, builds>>

ObjectsOfTracks == {[id |-> <<builds', t.id>>, track |-> t.id] : t \in tracks}

\* Mutant: the events of the old layer are carried over.
BuildKeepingEvents ==
    /\ builds < MaxBuilds
    /\ builds' = builds + 1
    /\ layer' = [objects |-> ObjectsOfTracks,
                 events  |-> IF layer = None THEN {} ELSE layer.events]
    /\ matched' = TRUE
    /\ current' = FALSE
    /\ UNCHANGED <<tracks, lastId>>

\* Every object gets a new id, and the layer has no events.
Build ==
    /\ builds < MaxBuilds
    /\ builds' = builds + 1
    /\ layer' = [objects |-> ObjectsOfTracks, events |-> {}]
    /\ matched' = TRUE
    /\ current' = FALSE
    /\ UNCHANGED <<tracks, lastId>>

-----------------------------------------------------------------------------
\* Mutant: presences are matched with tracks by their position in the lists.
VisualObjectTracksByPosition ==
    LET inOrder(S) == SetToSortSeq(S, LAMBDA a, b : a.id < b.id)
        objects == SetToSortSeq(layer.objects, LAMBDA a, b : a.track < b.track)
    IN  {[object |-> objects[i].id, shape |-> inOrder(tracks)[i].shape] :
            i \in DOMAIN objects \cap DOMAIN inOrder(tracks)}

\* The presences whose track is found; the others are skipped.
VisualObjectTracks ==
    {[object |-> p[1].id, shape |-> p[2].shape] :
        p \in {q \in layer.objects \X tracks : q[1].track = q[2].id}}

LayerEvent(object, type, frames, related) ==
    [object |-> object, type |-> type, related |-> related,
     start |-> FirstFrame(frames), end |-> LastFrame(frames) + 1]

ObjectEvents(ot) ==
    IF DOMAIN ot.shape.samples = {}
    THEN {LayerEvent(ot.object, "uncertain", ot.shape.points, {})}
    ELSE {LayerEvent(ot.object, "motion", DOMAIN ot.shape.samples, {})}

\* The frames two tracks share with their masks in one place.
Together(a, b) ==
    {f \in DOMAIN a.shape.samples \cap DOMAIN b.shape.samples :
        a.shape.samples[f] = b.shape.samples[f]}

\* All contacts are as close here, so the search returns the first.
Contact(a, b) ==
    LET runs == {r \in MaximalRuns(Together(a, b)) : Cardinality(r) >= MinShared}
    IN  {r \in runs : \A q \in runs : FirstFrame(r) <= FirstFrame(q)}

\* Each pair is looked at once, and each of the two is told.
ContactEvents ==
    UNION {UNION {{LayerEvent(p[1].object, "contact", r, {p[2].object}),
                   LayerEvent(p[2].object, "contact", r, {p[1].object})} : r \in Contact(p[1], p[2])} :
        p \in {q \in VisualObjectTracks \X VisualObjectTracks : q[1].object[2] < q[2].object[2]}}

Compute ==
    /\ layer # None
    /\ layer' = [layer EXCEPT !.events = ContactEvents
                     \cup (UNION {ObjectEvents(ot) : ot \in VisualObjectTracks})]
    /\ current' = TRUE
    /\ UNCHANGED <<tracks, lastId, builds, matched>>

\* compute_visual_events raises when there is no layer.
ComputeRefused ==
    /\ layer = None
    /\ UNCHANGED layerVars

LayerNext ==
    \/ \E selected \in SUBSET Scenes : Track(selected)
    \/ Build
    \/ Compute
    \/ ComputeRefused

LayerSpec == LayerInit /\ [][LayerNext]_layerVars

-----------------------------------------------------------------------------
(***************************************************************************)
(* Properties.                                                             *)
(***************************************************************************)
Events == IF layer = None THEN {} ELSE layer.events
Objects == IF layer = None THEN {} ELSE layer.objects
ObjectIds == {o.id : o \in Objects}

\* However often the stages are repeated, an event speaks of objects of its own
\* layer, and of two of them when it is a contact; then both are told of it, over
\* the same frames.
EventsKnowTheirObjects ==
    \A e \in Events : /\ e.object \in ObjectIds
                      /\ e.related \subseteq ObjectIds \ {e.object}
                      /\ e.type = "contact" <=> e.related # {}
                      /\ \A o \in e.related :
                            \E f \in Events : /\ f.object = o /\ f.related = {e.object}
                                              /\ f.start = e.start /\ f.end = e.end

\* Computing on a layer older than the tracks reports nothing about a track that
\* was replaced, and nothing outside the scene of the track it is about; on a
\* layer built from the tracks as they are, each track is one object that is
\* reported once, if only as uncertain, besides its contacts.
EventsOfCurrentTracks ==
    current =>
        /\ \A e \in Events : \E o \in Objects, t \in tracks :
              /\ e.object = o.id /\ o.track = t.id
              /\ e.start..(e.end - 1) \subseteq t.scene
              /\ e.start < e.end
        /\ matched =>
              \A t \in tracks : \E o \in Objects :
                  /\ {p \in Objects : p.track = t.id} = {o}
                  /\ Cardinality({e \in Events : e.object = o.id /\ e.type # "contact"}) = 1
=============================================================================
