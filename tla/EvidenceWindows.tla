--------------------------- MODULE EvidenceWindows ---------------------------
(***************************************************************************)
(* EvidenceWindows: how the retired pipeline (old/) cuts a video.  Frames  *)
(* at a low rate are compared with their neighbours, what differs proposes *)
(* a cut, proposals close to each other are merged, and the cuts that      *)
(* leave windows long enough bound the evidence windows.  Every window is  *)
(* sampled and rebuilt from the cuts; the agent may then have it sampled   *)
(* again more densely and rebuilt once more.                               *)
(*                                                                         *)
(* Times are milliseconds and differences thousandths, the precision the   *)
(* code rounds both to.  ffmpeg is external: it yields the frames.         *)
(***************************************************************************)
EXTENDS Integers, Sequences, SequencesExt

CONSTANTS Durations,       \* of a video, as probed
          Periods,         \* time between two analysis frames
          Differences,     \* how much a frame can differ from the one before
          MaxFrames,       \* bound: analysis frames of a video
          MaxDensifyings   \* bound: how often the windows are resampled

HardCut == 350
SoftCut == 180
MotionDelta == 120
CutSpacing == 750
MinimumWindow == 1000
FramesPerScene == 2

ASSUME VideosAssumption ==
    /\ Durations \subseteq Nat
    /\ Periods \subseteq Nat \ {0}
    /\ Differences \subseteq 0..1000
    /\ MaxFrames \in Nat \ {0} /\ MaxDensifyings \in Nat

VARIABLES duration,       \* probe.duration_seconds
          period,         \* 1 / effective_fps
          differences,    \* between the analysis frames
          candidateCuts,
          windows,        \* evidence_windows
          batches,        \* scene_index + 1 -> timestamps of the frames of the scene
          densifyings,
          stage

videoVars == <<duration, period, differences>>
windowVars == <<videoVars, candidateCuts, windows, batches, densifyings, stage>>

\* The frame at 0 and one per period; an unfinished last period may have one.
AnalysisFrames(d, p) == {n \in 1..MaxFrames : (n - 1) * p <= d + p /\ d <= n * p}

WindowInit ==
    /\ duration \in Durations
    /\ period \in Periods
    /\ \E n \in AnalysisFrames(duration, period) : differences \in [1..(n - 1) -> Differences]
    /\ candidateCuts = <<>>
    /\ windows = <<>>
    /\ batches = <<>>
    /\ densifyings = 0
    /\ stage = "cuts"

-----------------------------------------------------------------------------
(***************************************************************************)
(* Candidate cuts.                                                         *)
(***************************************************************************)
Larger(a, b) == IF a > b THEN a ELSE b
Smaller(a, b) == IF a < b THEN a ELSE b
Distance(a, b) == Larger(a, b) - Smaller(a, b)

\* round() of a / b.
Nearest(a, b) == (2 * a + b) \div (2 * b)

\* Frame i + 1 differs enough from frame i, or a little and not as the frame
\* before did (motion_regime_change).
Proposes(i) ==
    \/ differences[i] >= SoftCut
    \/ /\ i > 1
       /\ Distance(differences[i], differences[i - 1]) >= MotionDelta
       /\ 4 * differences[i] >= 3 * SoftCut

Proposal(i) == [at |-> Smaller(i * period, duration), confidence |-> differences[i]]

Proposals ==
    IF duration = 0 THEN <<>>
    ELSE FoldLeft(LAMBDA found, i : IF Proposes(i) THEN Append(found, Proposal(i)) ELSE found,
                  <<>>, [i \in DOMAIN differences |-> i])

\* Mutant: a cut is close to a group when it is close to its first member.
CutGroupsFromFirst(cuts) ==
    FoldLeft(LAMBDA groups, cut :
               IF groups # <<>> /\ cut.at - Head(Last(groups)).at <= CutSpacing
               THEN Append(Front(groups), Append(Last(groups), cut))
               ELSE Append(groups, <<cut>>),
             <<>>, cuts)

\* A cut joins the group whose last member it is close to.
CutGroups(cuts) ==
    FoldLeft(LAMBDA groups, cut :
               IF groups # <<>> /\ cut.at - Last(Last(groups)).at <= CutSpacing
               THEN Append(Front(groups), Append(Last(groups), cut))
               ELSE Append(groups, <<cut>>),
             <<>>, cuts)

Total(s) == FoldLeft(LAMBDA a, b : a + b, 0, s)

\* The place of a group is weighted by the confidences of its members.
MergeCutGroup(group) ==
    LET weight == [i \in DOMAIN group |-> Larger(group[i].confidence, 1)]
    IN  [at |-> Nearest(Total([i \in DOMAIN group |-> group[i].at * weight[i]]), Total(weight)),
         confidence |-> CHOOSE c \in {group[i].confidence : i \in DOMAIN group} :
                           \A i \in DOMAIN group : c >= group[i].confidence]

MergeCandidateCuts(cuts) ==
    [k \in 1..Len(CutGroups(cuts)) |-> MergeCutGroup(CutGroups(cuts)[k])]

BuildCandidateCuts ==
    /\ stage = "cuts"
    /\ candidateCuts' = MergeCandidateCuts(Proposals)
    /\ stage' = "windows"
    /\ UNCHANGED <<videoVars, windows, batches, densifyings>>

-----------------------------------------------------------------------------
(***************************************************************************)
(* Evidence windows.                                                       *)
(***************************************************************************)
\* Mutant: a cut is measured against the cut before, accepted or not.
AcceptedCutsFromAny(cuts) ==
    SelectSeq(cuts, LAMBDA cut : /\ 0 < cut.at /\ cut.at < duration
                                 /\ \A c \in Range(cuts) : c.at < cut.at => cut.at - c.at >= MinimumWindow
                                 /\ 2 * (duration - cut.at) >= MinimumWindow)

\* A cut needs a window of the minimum length before it and half of it after.
AcceptedCuts(cuts) ==
    FoldLeft(LAMBDA accepted, cut :
               IF /\ 0 < cut.at /\ cut.at < duration
                  /\ cut.at - (IF accepted = <<>> THEN 0 ELSE Last(accepted).at) >= MinimumWindow
                  /\ 2 * (duration - cut.at) >= MinimumWindow
               THEN Append(accepted, cut) ELSE accepted,
             <<>>, cuts)

\* The windows between 0, the accepted cuts and the end of the video.
WindowsOf(cuts) ==
    LET accepted == AcceptedCuts(cuts)
        boundaries == <<0>> \o [i \in DOMAIN accepted |-> accepted[i].at] \o <<duration>>
    IN  [i \in 1..(Len(boundaries) - 1) |->
            [start |-> boundaries[i], end |-> boundaries[i + 1], frames |-> {}]]

SampleTimestamps(window, n) ==
    IF window.start = window.end THEN <<window.start>>
    ELSE [i \in 1..n |-> window.start + Nearest((window.end - window.start) * i, n + 1)]

SampleFrames(ws, n) == [i \in DOMAIN ws |-> SampleTimestamps(ws[i], n)]

\* Mutant: a window takes the frames before its end only.
HydrateOpen(ws, frames) ==
    [i \in DOMAIN ws |->
        [ws[i] EXCEPT !.frames = {f \in (DOMAIN frames) \X (1..20) :
            /\ f[2] \in DOMAIN frames[f[1]]
            /\ ws[i].start <= frames[f[1]][f[2]] /\ frames[f[1]][f[2]] < ws[i].end}]]

\* A window lists the frames of its time, whatever batch they come from.
Hydrate(ws, frames) ==
    [i \in DOMAIN ws |->
        [ws[i] EXCEPT !.frames = UNION {{<<b, k>> : k \in {j \in DOMAIN frames[b] :
            ws[i].start <= frames[b][j] /\ frames[b][j] <= ws[i].end}} : b \in DOMAIN frames}]]

\* The rest of structural_overview: windows, frames, storyboard, clips.
BuildEvidenceWindows ==
    /\ stage = "windows"
    /\ batches' = SampleFrames(WindowsOf(candidateCuts), FramesPerScene)
    /\ windows' = Hydrate(WindowsOf(candidateCuts), batches')
    /\ stage' = "sampled"
    /\ UNCHANGED <<videoVars, candidateCuts, densifyings>>

\* Two more than the largest batch has, which is more than the caller asks for.
TargetFrames == 2 + CHOOSE n \in {Len(batches[i]) : i \in DOMAIN batches} :
                        \A i \in DOMAIN batches : n >= Len(batches[i])

\* All windows are resampled; their batches replace the old ones.
Densify ==
    /\ stage = "refined"
    /\ densifyings < MaxDensifyings
    /\ densifyings' = densifyings + 1
    /\ batches' = SampleFrames(windows, TargetFrames)
    /\ windows' = Hydrate(windows, batches')
    /\ stage' = "sampled"
    /\ UNCHANGED <<videoVars, candidateCuts>>

\* refine_candidate_cuts: the windows are built from the cuts anew.
Refine ==
    /\ stage = "sampled"
    /\ windows' = Hydrate(WindowsOf(candidateCuts), batches)
    /\ stage' = "refined"
    /\ UNCHANGED <<videoVars, candidateCuts, batches, densifyings>>

WindowNext == BuildCandidateCuts \/ BuildEvidenceWindows \/ Refine \/ Densify

WindowSpec == WindowInit /\ [][WindowNext]_windowVars

-----------------------------------------------------------------------------
(***************************************************************************)
(* Properties.                                                             *)
(***************************************************************************)
CutTimes == [i \in DOMAIN candidateCuts |-> candidateCuts[i].at]

\* Merging loses no change of the picture and never moves a cut out of its
\* change: the cuts lie further apart than the spacing, so merging again changes
\* nothing, and every proposal is chained by steps within the spacing to the
\* span of just one cut.
CutsSummariseProposals ==
    stage # "cuts" =>
        LET times == {p.at : p \in Range(Proposals)}
            chained(a, b) == \A t \in times : a <= t /\ t < b =>
                                \E u \in times : t < u /\ u <= b /\ u - t <= CutSpacing
        IN  /\ \A i \in 1..(Len(CutTimes) - 1) : CutTimes[i + 1] - CutTimes[i] > CutSpacing
            /\ MergeCandidateCuts(candidateCuts) = candidateCuts
            /\ \A t \in times : \E i \in DOMAIN CutTimes : \E a, b \in times :
                  /\ a <= t /\ t <= b /\ a <= CutTimes[i] /\ CutTimes[i] <= b
                  /\ chained(a, b)

\* The windows partition the video, each is at least a second long and the last
\* half of one, unless it is the whole video; and a cut is passed over only
\* where a window would be too short.
WindowsPartitionVideo ==
    stage \in {"sampled", "refined"} =>
        LET n == Len(windows)
            starts == {windows[i].start : i \in 1..n}
        IN  /\ windows[1].start = 0 /\ windows[n].end = duration
            /\ \A i \in 1..(n - 1) : /\ windows[i].end = windows[i + 1].start
                                     /\ windows[i].end - windows[i].start >= MinimumWindow
            /\ n > 1 => 2 * (windows[n].end - windows[n].start) >= MinimumWindow
            /\ \A t \in Range(CutTimes) \ starts :
                  \/ \E s \in starts : s <= t /\ t - s < MinimumWindow
                  \/ 2 * (duration - t) < MinimumWindow

\* However often a window has been resampled and rebuilt, it lists its own batch
\* whole, a foreign frame only from the boundary itself, and more frames after
\* each resampling.
WindowsListTheirFrames ==
    stage \in {"sampled", "refined"} =>
        \A i \in DOMAIN windows :
            /\ {<<i, k>> : k \in DOMAIN batches[i]} \subseteq windows[i].frames
            /\ \A f \in windows[i].frames :
                  f[1] # i => batches[f[1]][f[2]] \in {windows[i].start, windows[i].end}
            /\ windows[i].start < windows[i].end =>
                  Len(batches[i]) >= FramesPerScene + 2 * densifyings
=============================================================================
