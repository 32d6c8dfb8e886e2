--------------------------- MODULE MCSceneTracking ---------------------------
(***************************************************************************)
(* TLC instance of SceneTracking: a notebook and four scenes, of which one *)
(* has not been analysed and one has nothing to track.  A call selecting   *)
(* all of them has finished three when it asks for the last one.           *)
(***************************************************************************)
EXTENDS SceneTracking, TLC

CONSTANTS p1, p2

Point(f, valid) == [frame |-> f, valid |-> valid]

\* A track that loses a point to its confidence, with one that has no other.
Found(n) == {{{Point(0, n = 1), Point(n - 1, TRUE)}, {Point(0, FALSE)}}}

TwoPrompts == {p1, p2}

NoRequests == {}

Scene(start, end, analysed, seeds) ==
    [start |-> start, end |-> end, analysed |-> analysed, seeds |-> seeds]

FourScenes == <<Scene(0, 2, TRUE, <<p2, p1>>), Scene(2, 3, FALSE, <<>>),
                Scene(3, 4, TRUE, <<>>), Scene(4, 5, TRUE, <<p1>>)>>

\* The last scene, the first two, or all.
Chosen == {{4}, {1, 2}, 1..4}
=============================================================================
