-------------------------- MODULE ContactIntervals --------------------------
(***************************************************************************)
(* ContactIntervals: the search for the interval in which two tracked      *)
(* objects touch (_contact_interval).  The loop walks the samples of the   *)
(* left track in frame order, groups the frames where the masks overlap    *)
(* enough into runs, and picks one.                                        *)
(*                                                                         *)
(* A run, a list of frames in increasing order, is the set of its frames;  *)
(* so is the list of runs.  Overlaps are percentages and a mean is         *)
(* compared by multiplying out.                                            *)
(***************************************************************************)
EXTENDS ContactData, FiniteSetsExt

CONSTANTS Frames,     \* frames a sample can lie on
          Overlaps    \* values of _mask_overlap_over_smaller

ASSUME FramesAssumption == Frames \subseteq Nat
ASSUME OverlapsAssumption == Overlaps \subseteq Nat

VARIABLES left,      \* frames of the left track's samples
          right,     \* frames of the right track's samples
          overlap,   \* overlap of the two masks on the frames they share
          at,        \* frames below it have been visited
          runs,      \* contact_runs
          run,       \* current_run
          previous,  \* previous_contact_frame
          pc,
          contact    \* the value returned

inputs == <<left, right, overlap>>
vars == <<inputs, at, runs, run, previous, pc, contact>>

\* Python's None, as a frame and as an interval.
NoFrame == -1
NoContact == [start |-> NoFrame, end |-> NoFrame]

Init ==
    /\ left \in SUBSET Frames
    /\ right \in SUBSET Frames
    /\ overlap \in [left \cap right -> Overlaps]
    /\ at = 0
    /\ runs = {}
    /\ run = {}
    /\ previous = NoFrame
    /\ pc = "scan"
    /\ contact = NoContact

-----------------------------------------------------------------------------
\* f is the frame of the next left sample.
NextSample(f) ==
    /\ pc = "scan"
    /\ f \in left
    /\ at <= f
    /\ \A g \in left : at <= g => f <= g

\* The run is put away when there is one.
Closed == IF run = {} THEN runs ELSE runs \cup {run}

\* The right track has no sample on this frame.
NotShared(f) ==
    /\ NextSample(f)
    /\ f \notin right
    /\ at' = f + 1
    /\ UNCHANGED <<inputs, runs, run, previous, pc, contact>>

\* The masks overlap too little.
Apart(f) ==
    /\ NextSample(f)
    /\ f \in right /\ overlap[f] < CONTACT_OVERLAP_RATIO
    /\ at' = f + 1
    /\ runs' = Closed
    /\ run' = {}
    /\ previous' = NoFrame
    /\ UNCHANGED <<inputs, pc, contact>>

\* Mutant: frames are taken for consecutive because the samples are.
TouchAcrossGap(f) ==
    /\ NextSample(f)
    /\ f \in right /\ overlap[f] >= CONTACT_OVERLAP_RATIO
    /\ run' = run \cup {f}
    /\ at' = f + 1
    /\ previous' = f
    /\ UNCHANGED <<inputs, runs, pc, contact>>

\* The masks overlap; after a frame that was missing a new run begins.
Touch(f) ==
    /\ NextSample(f)
    /\ f \in right /\ overlap[f] >= CONTACT_OVERLAP_RATIO
    /\ IF previous # NoFrame /\ f # previous + 1
       THEN runs' = Closed /\ run' = {f}
       ELSE runs' = runs /\ run' = run \cup {f}
    /\ at' = f + 1
    /\ previous' = f
    /\ UNCHANGED <<inputs, pc, contact>>

SamplesLeft == \E f \in left : at <= f

EndScan ==
    /\ pc = "scan"
    /\ ~SamplesLeft
    /\ runs' = Closed
    /\ pc' = "choose"
    /\ UNCHANGED <<inputs, at, run, previous, contact>>

-----------------------------------------------------------------------------
Total(r) == MapThenSumSet(LAMBDA f : overlap[f], r)

\* The mean overlap over r is at least, or more than, that over s.
MeanAtLeast(r, s) == Total(r) * Cardinality(s) >= Total(s) * Cardinality(r)
MeanAbove(r, s) == Total(r) * Cardinality(s) > Total(s) * Cardinality(r)

Confident(r) == Total(r) >= CONTACT_MIN_CONFIDENCE * Cardinality(r)

Qualifying == {r \in runs : Cardinality(r) >= MinShared}

\* Mutant: the longest run.
LongestRun(candidates) ==
    CHOOSE r \in candidates : \A s \in candidates : Cardinality(s) <= Cardinality(r)

\* max() returns the first of equal candidates, and runs are in frame order.
BestRun(candidates) ==
    CHOOSE r \in candidates : \A s \in candidates \ {r} :
        MeanAbove(r, s) \/ (MeanAtLeast(r, s) /\ FirstFrame(r) < FirstFrame(s))

IntervalOf(r) == [start |-> FirstFrame(r), end |-> LastFrame(r) + 1]

Choose ==
    /\ pc = "choose"
    /\ contact' = IF Qualifying # {} /\ Confident(BestRun(Qualifying))
                  THEN IntervalOf(BestRun(Qualifying)) ELSE NoContact
    /\ pc' = "done"
    /\ UNCHANGED <<inputs, at, runs, run, previous>>

Next ==
    \/ \E f \in Frames : NotShared(f) \/ Apart(f) \/ Touch(f)
    \/ EndScan \/ Choose

Spec == Init /\ [][Next]_vars

-----------------------------------------------------------------------------
(***************************************************************************)
(* Properties.                                                             *)
(***************************************************************************)
\* The frames where the two objects touch.
Contacts == {f \in left \cap right : overlap[f] >= CONTACT_OVERLAP_RATIO}

\* The runs the loop has found are exactly the maximal intervals of contact:
\* none spans a frame on which one of the masks is missing or they are apart,
\* none is cut in two, none is forgotten.
RunsAreContacts == pc # "scan" => runs = MaximalRuns(Contacts)

Credible == {r \in MaximalRuns(Contacts) : Cardinality(r) >= MinShared /\ Confident(r)}

\* The interval reported is the credible contact with the largest mean overlap,
\* the earliest of several; nothing is reported only when none is credible,
\* although the code picks a run before it looks at its confidence.
BestContactReported ==
    pc = "done" =>
        IF Credible = {} THEN contact = NoContact
        ELSE \E r \in Credible :
                 /\ contact.start \in r /\ contact.end - 1 \in r
                 /\ \A f \in r : contact.start <= f /\ f < contact.end
                 /\ \A s \in Credible : /\ MeanAtLeast(r, s)
                                        /\ MeanAtLeast(s, r) => contact.start <= FirstFrame(s)
=============================================================================
