----------------------- MODULE MCSoundTimelineEditor -----------------------
(***************************************************************************)
(* TLC instance of SoundTimelineEditor.                                    *)
(***************************************************************************)
EXTENDS SoundTimelineEditor, TLC

\* Ids, objects and callers are interchangeable.
Symmetry == Permutations(SourceIds) \cup Permutations(EventIds)
            \cup Permutations(Objects) \cup Permutations(Callers)

\* A timeline saved before anything was written to it; the runs fill it.
Saved == EmptyTimeline
=============================================================================
