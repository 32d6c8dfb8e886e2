---------------------------- MODULE ObjectEvents ----------------------------
(***************************************************************************)
(* ObjectEvents: the visual events of one tracked object                   *)
(* (_object_visual_events).  The points of the track that have a usable    *)
(* mask become samples; appearance, disappearance, motion and change of    *)
(* size are read off the samples.                                          *)
(*                                                                         *)
(* A centroid is the mean of at most five places: it is kept in sixtieths  *)
(* of a pixel and stays a pair of integers.  Only hypot has no integer     *)
(* result; a distance is rounded up to the next sixtieth, which keeps it a *)
(* distance: no detour is shorter than the straight way.                   *)
(***************************************************************************)
EXTENDS Integers, Sequences, SequencesExt, FiniteSetsExt

CONSTANTS NoMask,     \* a point whose mask is absent or empty
          Masks,      \* what a usable point can be
          MaxPoints,  \* longest track (bound)
          Diagonal    \* of the picture

MIN_RELIABLE_POINTS == 3
LOW_MEAN_CONFIDENCE == 35
STATIONARY_DISPLACEMENT_RATIO == 3
FAST_DISPLACEMENT_RATIO == 25
MOTION_SMOOTHING_WINDOW == 5

ASSUME MasksAssumption ==
    \A m \in Masks : /\ DOMAIN m = {"x", "y", "area", "confidence"}
                     /\ m.x \in Nat /\ m.y \in Nat
                     /\ m.area \in Nat \ {0} /\ m.confidence \in 0..100
ASSUME BoundsAssumption == MaxPoints \in Nat \ {0} /\ Diagonal \in Nat \ {0} /\ NoMask \notin Masks

VARIABLES points,   \* SceneTrack.points, one per frame from frame 0 on
          samples,  \* _MaskSample list
          events,
          step

objectVars == <<points, samples, events, step>>

ObjectInit ==
    /\ points \in UNION {[1..n -> Masks \cup {NoMask}] : n \in 1..MaxPoints}
    /\ samples = <<>>
    /\ events = {}
    /\ step = "sample"

\* Points come in frame order; those without a usable mask are left out.
TrackSamples ==
    FoldLeft(LAMBDA taken, f : IF points[f] = NoMask THEN taken
                               ELSE Append(taken, [frame |-> f - 1, mask |-> points[f]]),
             <<>>, [f \in DOMAIN points |-> f])

TakeSample ==
    /\ step = "sample"
    /\ samples' = TrackSamples
    /\ step' = "describe"
    /\ UNCHANGED <<points, events>>

-----------------------------------------------------------------------------
(***************************************************************************)
(* Means, over a non-empty sequence of samples.                            *)
(***************************************************************************)
SumOn(s, axis) == MapThenSumSet(LAMBDA i : s[i].mask[axis], DOMAIN s)
SumArea(s) == MapThenSumSet(LAMBDA i : s[i].mask.area, DOMAIN s)
SumConfidence(s) == MapThenSumSet(LAMBDA i : s[i].mask.confidence, DOMAIN s)

Smaller(a, b) == IF a < b THEN a ELSE b
Larger(a, b) == IF a < b THEN b ELSE a
Abs(a) == Larger(a, 0 - a)

\* The least number whose square is not below the sum of the squares.
Hypot(dx, dy) ==
    CHOOSE h \in Larger(Abs(dx), Abs(dy))..(Abs(dx) + Abs(dy)) :
        /\ h * h >= dx * dx + dy * dy
        /\ h = 0 \/ (h - 1) * (h - 1) < dx * dx + dy * dy

Distance(p, q) == Hypot(q.x - p.x, q.y - p.y)

\* The mean place of at most five samples, in sixtieths.
Mean(s, axis) == (60 * SumOn(s, axis)) \div Len(s)
Centroid(s) == [x |-> Mean(s, "x"), y |-> Mean(s, "y")]

FirstOnes(s, count) == SubSeq(s, 1, count)
LastOnes(s, count) == SubSeq(s, Len(s) - count + 1, Len(s))

-----------------------------------------------------------------------------
(***************************************************************************)
(* Motion.                                                                 *)
(***************************************************************************)
SmoothedCentroid(s, i) ==
    LET radius == MOTION_SMOOTHING_WINDOW \div 2
    IN  Centroid(SubSeq(s, Larger(1, i - radius), Smaller(Len(s), i + radius)))

EdgeCount(s) == Smaller(Len(s), MOTION_SMOOTHING_WINDOW)

\* From the mean of the first samples to the mean of the last.
NetDisplacement(s) ==
    LET first == Centroid(FirstOnes(s, EdgeCount(s)))
        last == Centroid(LastOnes(s, EdgeCount(s)))
    IN  [x |-> last.x - first.x, y |-> last.y - first.y]

PathDisplacement(s) ==
    MapThenSumSet(LAMBDA i : Distance(SmoothedCentroid(s, i), SmoothedCentroid(s, i + 1)),
                  1..(Len(s) - 1))

\* Twice the displacement that is compared with the diagonal.
TwiceDisplacement(s) ==
    LET net == NetDisplacement(s)
    IN  IF Len(s) < 2 THEN 0 ELSE Larger(2 * Hypot(net.x, net.y), PathDisplacement(s))

MotionEventType(s) ==
    LET moved == 100 * TwiceDisplacement(s)
        ratio(percent) == 120 * percent * Diagonal
    IN  IF moved <= ratio(STATIONARY_DISPLACEMENT_RATIO) THEN "stationary"
        ELSE IF moved >= ratio(FAST_DISPLACEMENT_RATIO) THEN "fast_motion"
        ELSE "motion"

\* One axis is told when it has one and a half times the other's displacement.
\* The picture's y grows downwards.
MotionDirection(s) ==
    LET dx == NetDisplacement(s).x
        dy == NetDisplacement(s).y
        sideways == 2 * Abs(dx) >= 3 * Abs(dy)
        upright == 2 * Abs(dy) >= 3 * Abs(dx)
    IN  IF sideways THEN (IF dx >= 0 THEN "right" ELSE "left")
        ELSE IF upright THEN (IF dy >= 0 THEN "down" ELSE "up")
        ELSE IF dx >= 0 THEN (IF dy >= 0 THEN "down-right" ELSE "up-right")
        ELSE (IF dy >= 0 THEN "down-left" ELSE "up-left")

MotionDescription(s) ==
    IF MotionEventType(s) = "stationary" THEN "stationary" ELSE MotionDirection(s)

-----------------------------------------------------------------------------
(***************************************************************************)
(* Change of size: the first third of the samples against the last.        *)
(***************************************************************************)
ScaleChange(s) ==
    LET count == Larger(1, Len(s) \div 3)
        firstArea == SumArea(FirstOnes(s, count))
        lastArea == SumArea(LastOnes(s, count))
    IN  IF Len(s) < 2 THEN "none"
        ELSE IF 2 * lastArea >= 3 * firstArea THEN "grows larger"
        ELSE IF 3 * lastArea <= 2 * firstArea THEN "shrinks"
        ELSE "none"

-----------------------------------------------------------------------------
Event(type, start, end, description) ==
    [type |-> type, start |-> start, end |-> end, description |-> description]

\* SceneTrack.start_frame_index and end_frame_index span all points.
NoUsableMasks == Event("uncertain", 0, Len(points), "no usable masks")

Uncertain(s) ==
    \/ Len(s) < MIN_RELIABLE_POINTS
    \/ SumConfidence(s) < LOW_MEAN_CONFIDENCE * Len(s)

FirstSeen == samples[1].frame
LastSeen == samples[Len(samples)].frame

\* Mutant: the object is there as long as its track is.
SightingsOfTrack ==
    {Event("appearance", 0, 1, "appears"),
     Event("disappearance", Len(points) - 1, Len(points), "disappears"),
     Event(MotionEventType(samples), 0, Len(points), MotionDescription(samples))}

Sightings ==
    {Event("appearance", FirstSeen, FirstSeen + 1, "appears"),
     Event("disappearance", LastSeen, LastSeen + 1, "disappears"),
     Event(MotionEventType(samples), FirstSeen, LastSeen + 1, MotionDescription(samples))}

Describe ==
    /\ step = "describe"
    /\ events' =
         IF samples = <<>> THEN {NoUsableMasks}
         ELSE Sightings
              \cup {Event("scale_change", FirstSeen, LastSeen + 1, d) :
                      d \in {ScaleChange(samples)} \ {"none"}}
              \cup (IF Uncertain(samples)
                    THEN {Event("uncertain", FirstSeen, LastSeen + 1, "sparse or low-confidence masks")}
                    ELSE {})
    /\ step' = "done"
    /\ UNCHANGED <<points, samples>>

ObjectNext == TakeSample \/ Describe

ObjectSpec == ObjectInit /\ [][ObjectNext]_objectVars

-----------------------------------------------------------------------------
(***************************************************************************)
(* Properties.                                                             *)
(***************************************************************************)
\* The object moves at some time to the right or down, or to the left or up.
Forth(axis) == \E i \in 1..(Len(samples) - 1) : samples[i].mask[axis] < samples[i + 1].mask[axis]
Back(axis) == \E i \in 1..(Len(samples) - 1) : samples[i + 1].mask[axis] < samples[i].mask[axis]

\* No description names a direction in which the object never moves
\* (_motion_description).
DirectionAgrees ==
    \A e \in events :
        /\ e.description \in {"right", "down-right", "up-right"} => Forth("x")
        /\ e.description \in {"left", "down-left", "up-left"} => Back("x")
        /\ e.description \in {"down", "down-right", "down-left"} => Forth("y")
        /\ e.description \in {"up", "up-right", "up-left"} => Back("y")

\* The object moves up and down only, and no further down than up: both
\* displacements are nought, and the code calls this "right".
UpAndDown ==
    /\ ~Forth("x") /\ ~Back("x") /\ Forth("y") /\ Back("y")
    /\ NetDisplacement(samples).y = 0

\* No two smoothed positions are farther apart than twice the threshold.
Stays ==
    \A i, j \in DOMAIN samples :
        100 * Distance(SmoothedCentroid(samples, i), SmoothedCentroid(samples, j))
            <= 120 * STATIONARY_DISPLACEMENT_RATIO * Diagonal

\* The events say no more than the track shows.  Each lies where the object was
\* really seen, although the track may begin and end with points that have no
\* usable mask; an object reported as stationary never strays, not even to come
\* back; and in a track longer than the smoothing window every direction
\* named, sideways, upright or both, is one the object moves in at some time.  The
\* one exception is an object that goes up and down and ends where it began.
EventsTellTheTrack ==
    step = "done" =>
        LET seen == {f - 1 : f \in {g \in DOMAIN points : points[g] # NoMask}}
        IN  /\ IF seen = {} THEN events = {NoUsableMasks}
               ELSE \A e \in events : e.start < e.end /\ e.start \in seen /\ e.end - 1 \in seen
            /\ \A e \in events : e.type = "stationary" => Stays
            /\ Len(samples) > MOTION_SMOOTHING_WINDOW => DirectionAgrees \/ UpAndDown
=============================================================================
