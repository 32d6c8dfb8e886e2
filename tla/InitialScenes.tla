---------------------------- MODULE InitialScenes ----------------------------
(***************************************************************************)
(* InitialScenes: the mechanical split of a prepared video.  The scene     *)
(* detector's list of cuts is clamped to the video and made to cover it;   *)
(* then keyframe indexes are selected scene by scene.  Intervals are       *)
(* [start, end).  The decoder of the detector and the probe that counted   *)
(* the frames of the video need not agree, so a cut may lie past the end.  *)
(***************************************************************************)
EXTENDS Integers, Sequences

CONSTANTS FrameCounts,  \* frame counts of a prepared video
          CutLists,     \* boundaries of the detector's scenes, adjacent scenes sharing one
          KeyframeCaps  \* values of max_keyframes

KEYFRAME_INTERVAL_FRAMES == 60

ASSUME FrameCountsAssumption == FrameCounts \subseteq Nat \ {0}
ASSUME CapsAssumption == KeyframeCaps \subseteq Nat \ {0}

\* PySceneDetect: k + 1 boundaries are k scenes, and no scene is the empty list.
ASSUME CutListsAssumption ==
    /\ CutLists \subseteq Seq(Nat)
    /\ \A cuts \in CutLists : \A i, j \in DOMAIN cuts : i < j => cuts[i] <= cuts[j]

VARIABLES frameCount,  \* video_asset.frame_count
          cuts,        \* what the detector has returned
          next,        \* the detector's scene the loop is at
          scenes,      \* scenes so far
          pc,
          cap,         \* max_keyframes
          keyframes,   \* keyframe indexes of the scenes done so far
          selected,    \* keyframe indexes of the scene at hand
          index        \* loop index in that scene

detectVars == <<frameCount, cuts, next, scenes>>
keyframeVars == <<cap, keyframes, selected, index>>
vars == <<detectVars, pc, keyframeVars>>

Init ==
    /\ frameCount \in FrameCounts
    /\ cuts \in CutLists
    /\ next = 1
    /\ scenes = <<>>
    /\ pc = "detect"
    /\ cap \in KeyframeCaps
    /\ keyframes = <<>>
    /\ selected = <<>>
    /\ index = 1

-----------------------------------------------------------------------------
(***************************************************************************)
(* detect_initial_scenes.                                                  *)
(***************************************************************************)
Clamp(f) == IF f < frameCount THEN f ELSE frameCount

CutsLeft == next < Len(cuts)

\* Mutant: a scene of one frame is taken for an empty one.
TakeSceneOffByOne ==
    /\ pc = "detect"
    /\ CutsLeft
    /\ LET start == Clamp(cuts[next])
           end == Clamp(cuts[next + 1])
       IN  scenes' = IF start + 1 >= end THEN scenes
                     ELSE Append(scenes, [start |-> start, end |-> end])
    /\ next' = next + 1
    /\ UNCHANGED <<frameCount, cuts, pc, keyframeVars>>

TakeScene ==
    /\ pc = "detect"
    /\ CutsLeft
    /\ LET start == Clamp(cuts[next])
           end == Clamp(cuts[next + 1])
       IN  scenes' = IF start >= end THEN scenes
                     ELSE Append(scenes, [start |-> start, end |-> end])
    /\ next' = next + 1
    /\ UNCHANGED <<frameCount, cuts, pc, keyframeVars>>

\* A still video, or cuts that are all past the end.
WholeVideo ==
    /\ pc = "detect"
    /\ ~CutsLeft
    /\ scenes = <<>>
    /\ scenes' = <<[start |-> 0, end |-> frameCount]>>
    /\ pc' = "keyframes"
    /\ UNCHANGED <<frameCount, cuts, next, keyframeVars>>

\* Mutant: the last scene ends where the detector says.
WidenStartOnly(s) == [s EXCEPT ![1].start = 0]

Widen(s) == [s EXCEPT ![1].start = 0, ![Len(s)].end = frameCount]

NonEmpty(scene) == scene.start < scene.end

\* The filter of the return statement; its first case spares the proofs an
\* induction over SelectSeq.
WithoutEmpty(s) ==
    IF \A i \in DOMAIN s : NonEmpty(s[i]) THEN s ELSE SelectSeq(s, NonEmpty)

WidenScenes ==
    /\ pc = "detect"
    /\ ~CutsLeft
    /\ scenes # <<>>
    /\ scenes' = WithoutEmpty(Widen(scenes))
    /\ pc' = "keyframes"
    /\ UNCHANGED <<frameCount, cuts, next, keyframeVars>>

-----------------------------------------------------------------------------
(***************************************************************************)
(* select_initial_scene_keyframe_indexes.                                  *)
(***************************************************************************)
\* Python's round() of a / b: to nearest, a tie to the even neighbour.  The
\* float quotient is exact enough: b is at most the cap plus one.
RoundedQuotient(a, b) ==
    LET q == a \div b
        r == a % b
    IN  IF 2 * r < b \/ (2 * r = b /\ q % 2 = 0) THEN q ELSE q + 1

KeyframeCount(length) ==
    LET count == (length \div KEYFRAME_INTERVAL_FRAMES)
                 + (IF length % KEYFRAME_INTERVAL_FRAMES > 0 THEN 1 ELSE 0)
    IN  IF count < 1 THEN 1 ELSE IF count > cap THEN cap ELSE count

Scene == scenes[Len(keyframes) + 1]
SceneLength == Scene.end - Scene.start
ScenesLeft == pc = "keyframes" /\ Len(keyframes) < Len(scenes)

\* Mutant: the keyframes divide the scene as if the last fell on its end.
FrameAtDividedByCount ==
    Scene.start + RoundedQuotient(SceneLength * index, KeyframeCount(SceneLength))

FrameAt ==
    Scene.start + RoundedQuotient(SceneLength * index, KeyframeCount(SceneLength) + 1)

ClampToScene(f) ==
    LET low == IF f < Scene.end THEN f ELSE Scene.end - 1
    IN  IF low < Scene.start THEN Scene.start ELSE low

SelectKeyframe ==
    /\ ScenesLeft
    /\ index <= KeyframeCount(SceneLength)
    /\ LET f == ClampToScene(FrameAt)
       IN  selected' = IF \E i \in DOMAIN selected : selected[i] = f
                       THEN selected ELSE Append(selected, f)
    /\ index' = index + 1
    /\ UNCHANGED <<detectVars, pc, cap, keyframes>>

EndScene ==
    /\ ScenesLeft
    /\ index > KeyframeCount(SceneLength)
    /\ keyframes' = Append(keyframes, selected)
    /\ selected' = <<>>
    /\ index' = 1
    /\ UNCHANGED <<detectVars, pc, cap>>

Finish ==
    /\ pc = "keyframes"
    /\ Len(keyframes) = Len(scenes)
    /\ pc' = "done"
    /\ UNCHANGED <<detectVars, keyframeVars>>

Next ==
    \/ TakeScene \/ WholeVideo \/ WidenScenes
    \/ SelectKeyframe \/ EndScene \/ Finish

Spec == Init /\ [][Next]_vars

-----------------------------------------------------------------------------
(***************************************************************************)
(* Properties.                                                             *)
(***************************************************************************)
Frames == 0..frameCount

\* Each variable has its type: no boundary lies past the end of the video.
TypeOK ==
    /\ frameCount \in FrameCounts
    /\ cuts \in CutLists
    /\ next \in Nat \ {0}
    /\ scenes \in Seq([start : Frames, end : Frames])
    /\ pc \in {"detect", "keyframes", "done"}
    /\ cap \in KeyframeCaps
    /\ keyframes \in Seq(Seq(Frames))
    /\ selected \in Seq(Frames)
    /\ index \in Nat \ {0}

Contiguous == \A i \in 1..(Len(scenes) - 1) : scenes[i].end = scenes[i + 1].start
Filled == \A i \in DOMAIN scenes : scenes[i].start < scenes[i].end

\* The scenes partition the video: every frame lies in exactly one of them,
\* whatever the detector has returned, so that a later stage that looks up the
\* scene of a frame finds one.
ScenesPartitionVideo ==
    pc # "detect" =>
        /\ scenes # <<>>
        /\ scenes[1].start = 0
        /\ scenes[Len(scenes)].end = frameCount
        /\ Contiguous /\ Filled

\* The boundaries between two scenes of the detector that lie in the video.
InnerCuts ==
    {cuts[i] : i \in {j \in DOMAIN cuts :
        cuts[1] < cuts[j] /\ cuts[j] < cuts[Len(cuts)] /\ cuts[j] < frameCount}}

\* No cut inside the video is lost and none is invented: the scenes start at 0
\* and at every boundary between two scenes of the detector.

ScenesFollowCuts ==
    pc # "detect" => {scenes[i].start : i \in DOMAIN scenes} = {0} \cup InnerCuts

\* The marks of a scene: its start, its keyframes and its end.
Marks(k) == <<scenes[k].start>> \o keyframes[k] \o <<scenes[k].end>>
Gaps(k) == {Marks(k)[i + 1] - Marks(k)[i] : i \in 1..(Len(Marks(k)) - 1)}

\* A scene gets one keyframe per started interval, up to the cap: clamping and
\* the test for duplicates never cost one.  The keyframes are inside their
\* scene, in order, and cut it into pieces of the same length up to one frame,
\* ties of the rounding included.
KeyframesSpread ==
    \A k \in DOMAIN keyframes :
        LET length == scenes[k].end - scenes[k].start
            wanted == CHOOSE m \in 1..length : /\ m * KEYFRAME_INTERVAL_FRAMES >= length
                                               /\ (m - 1) * KEYFRAME_INTERVAL_FRAMES < length
        IN  /\ Len(keyframes[k]) = IF wanted < cap THEN wanted ELSE cap
            /\ \A i \in DOMAIN keyframes[k] : keyframes[k][i] \in scenes[k].start..(scenes[k].end - 1)
            /\ \A g, h \in Gaps(k) : g - h <= 1
            /\ \A i, j \in DOMAIN keyframes[k] : i < j => keyframes[k][i] < keyframes[k][j]
=============================================================================
