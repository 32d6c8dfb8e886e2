---------------------------- MODULE ContactData ----------------------------
(***************************************************************************)
(* Thresholds of visual_events.py in percent, and what a contact of two    *)
(* masks over time is, said without the loop that looks for it.            *)
(***************************************************************************)
EXTENDS Integers, FiniteSets

CONSTANT MinShared  \* CONTACT_MIN_SHARED_FRAMES

ASSUME MinSharedAssumption == MinShared \in Nat \ {0}

CONTACT_OVERLAP_RATIO == 20
CONTACT_MIN_CONFIDENCE == 25

\* The intervals of consecutive members of frames that cannot be extended.
IsMaximalRun(frames, a, b) ==
    /\ a <= b
    /\ a..b \subseteq frames
    /\ a - 1 \notin frames
    /\ b + 1 \notin frames

MaximalRuns(frames) ==
    {r \in {a..b : a \in frames, b \in frames} :
        \E a, b \in frames : r = a..b /\ IsMaximalRun(frames, a, b)}

FirstFrame(run) == CHOOSE f \in run : \A g \in run : f <= g
LastFrame(run) == CHOOSE f \in run : \A g \in run : f >= g
=============================================================================
