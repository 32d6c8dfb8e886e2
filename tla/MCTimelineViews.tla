-------------------------- MODULE MCTimelineViews --------------------------
(***************************************************************************)
(* TLC instance of  TimelineViews: a video of four frames.                 *)
(***************************************************************************)
EXTENDS TimelineViews

SceneOf(start, end, tracks, seeds) ==
    [start |-> start, end |-> end, tracks |-> tracks, seeds |-> seeds]

\* No scene, one, three with an object in all of the first, and seeds with and
\* without a prompt.
Lists == {<<>>,
          <<SceneOf(0, 4, {{0, 1, 3}}, {"prompt"})>>,
          <<SceneOf(0, 2, {{0, 1}, {1}}, {"prompt"}), SceneOf(2, 3, {{2}}, {}),
            SceneOf(3, 4, {}, {"prompt", None})>>}

Interval(start, end, rest) == [start |-> start, end |-> end, rest |-> rest]

\* Any four of: long and short events, two that differ in type only.
SomeEvents == {Interval(0, 4, 1), Interval(0, 1, 2), Interval(1, 3, 3),
               Interval(2, 3, 4), Interval(2, 3, 5), Interval(3, 4, 6)}
Sets == {s \in SUBSET SomeEvents : Cardinality(s) <= 4}
=============================================================================
