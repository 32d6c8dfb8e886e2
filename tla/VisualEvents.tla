---------------------------- MODULE VisualEvents ----------------------------
(***************************************************************************)
(* VisualEvents: the stages up to compute_visual_events (VisualLayer) and  *)
(* the helpers it calls, once per track (ObjectEvents) and once per pair   *)
(* of tracks (ContactIntervals).  The helpers are pure and VisualLayer has *)
(* their results, so one call of one of them by itself stands for all:     *)
(* meanwhile the rest has nothing to do.                                   *)
(***************************************************************************)
EXTENDS ContactIntervals, ObjectEvents, VisualLayer

VARIABLE called  \* what runs: the stages, or a helper

eventVars == <<vars, objectVars, layerVars, called>>

NoTrack ==
    /\ points = <<>> /\ samples = <<>>
    /\ events = {}
    /\ step = "idle"

NoPair ==
    /\ left = {} /\ right = {} /\ overlap = <<>>
    /\ at = 0
    /\ runs = {} /\ run = {} /\ previous = NoFrame
    /\ pc = "done"
    /\ contact = NoContact

EventsInit ==
    \/ called = "pair" /\ Init /\ NoTrack /\ LayerInit
    \/ called = "track" /\ ObjectInit /\ NoPair /\ LayerInit
    \/ called = "stages" /\ LayerInit /\ NoTrack /\ NoPair

EventsNext ==
    \/ called = "pair" /\ Next /\ UNCHANGED <<objectVars, layerVars, called>>
    \/ called = "track" /\ ObjectNext /\ UNCHANGED <<vars, layerVars, called>>
    \/ called = "stages" /\ LayerNext /\ UNCHANGED <<vars, objectVars, called>>

EventsSpec == EventsInit /\ [][EventsNext]_eventVars
=============================================================================
