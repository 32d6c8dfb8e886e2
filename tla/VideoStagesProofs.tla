-------------------------- MODULE VideoStagesProofs --------------------------
(***************************************************************************)
(* Proofs about the five stages of VideoStages, the last three in old/.    *)
(* For every video and every list of cuts the scenes partition the video,  *)
(* start at its cuts and get evenly spread keyframes; for any number of    *)
(* scenes, any batch size and any number of calls, the analysis has one    *)
(* Langfuse client and analyses every scene; however the picture changes,  *)
(* the windows partition the video and list their frames; whatever the     *)
(* models propose, seeds can be extracted and losses are reported; the     *)
(* crops show their tracks, the sources are what is linked, and the sounds *)
(* are those of the sources.                                               *)
(***************************************************************************)
EXTENDS InitialScenes, SceneAnalysis, EvidenceWindows, ProposalGrounding, SourceIdentity,
        FoldLemmas, TLAPS, SequenceTheorems, FiniteSetTheorems

-----------------------------------------------------------------------------
(***************************************************************************)
(* Initial scenes.                                                         *)
(***************************************************************************)
SceneRecords == [start : Nat, end : Nat]

(***************************************************************************)
(* The inductive invariant.  While the loop runs, what has been collected  *)
(* ends at the clamped cut the loop stands at: a skipped scene is empty,   *)
(* so skipping it does not move that cut.                                  *)
(***************************************************************************)
CutsCollected ==
    scenes # <<>> => /\ next \in DOMAIN cuts
                     /\ scenes[Len(scenes)].end = Clamp(cuts[next])

ScenesInv ==
    /\ frameCount \in Nat \ {0}
    /\ cuts \in CutLists
    /\ next \in Nat \ {0}
    /\ scenes \in Seq(SceneRecords)
    /\ Contiguous
    /\ Filled
    /\ pc = "detect" => CutsCollected
    /\ ScenesPartitionVideo

\* The invariant holds before the first scene is taken (scenes.py:25).
LEMMA InitScenesInv == Init => ScenesInv
  BY FrameCountsAssumption DEF Init, ScenesInv, Contiguous, Filled, ScenesPartitionVideo, CutsCollected, SceneRecords

\* Taking or skipping one scene of the detector (scenes.py:26-32).
LEMMA TakeScenePreserves == ScenesInv /\ TakeScene => ScenesInv'
<1> SUFFICES ASSUME ScenesInv, TakeScene PROVE ScenesInv'
  OBVIOUS
<1> USE DEF ScenesInv, TakeScene, CutsLeft
<1> DEFINE start == Clamp(cuts[next])
           end == Clamp(cuts[next + 1])
           scene == [start |-> start, end |-> end]
<1>1. /\ next \in DOMAIN cuts /\ next + 1 \in DOMAIN cuts
      /\ cuts[next] \in Nat /\ cuts[next + 1] \in Nat
      /\ cuts[next] <= cuts[next + 1]
  BY CutListsAssumption
<1>2. start \in Nat /\ end \in Nat /\ start <= end
  BY <1>1 DEF Clamp
<1>3. next' \in DOMAIN cuts' /\ Clamp(cuts[next])' = end
  BY <1>1 DEF Clamp, ScenesInv, TakeScene
<1>4. CASE start >= end
  <2>1. scenes' = scenes /\ start = end
    BY <1>2, <1>4
  <2> QED
    BY <1>1, <1>2, <1>3, <2>1 DEF CutsCollected, Contiguous, Filled, ScenesPartitionVideo, Clamp
<1>5. CASE ~(start >= end)
  <2>1. scenes' = Append(scenes, scene) /\ scene \in SceneRecords
    BY <1>2, <1>5 DEF SceneRecords
  <2>2. /\ scenes' \in Seq(SceneRecords)
        /\ Len(scenes') = Len(scenes) + 1
        /\ \A i \in 1..Len(scenes) : scenes'[i] = scenes[i]
        /\ scenes'[Len(scenes) + 1] = scene
    BY <2>1, AppendProperties
  <2>3. Contiguous'
    <3> SUFFICES ASSUME NEW i \in 1..(Len(scenes') - 1)
                 PROVE scenes'[i].end = scenes'[i + 1].start
      BY DEF Contiguous
    <3>1. CASE i < Len(scenes)
      BY <2>2, <3>1 DEF Contiguous
    <3>2. CASE i = Len(scenes)
      BY <2>2, <3>2 DEF CutsCollected
    <3> QED
      BY <2>2, <3>1, <3>2
  <2>4. Filled'
    BY <1>2, <1>5, <2>2 DEF Filled
  <2>5. CutsCollected'
    BY <1>3, <2>2 DEF CutsCollected, Clamp
  <2> QED
    BY <1>1, <2>2, <2>3, <2>4, <2>5 DEF ScenesPartitionVideo
<1> QED
  BY <1>4, <1>5

\* A video without a cut is one scene (scenes.py:34-35).
LEMMA WholeVideoPreserves == ScenesInv /\ WholeVideo => ScenesInv'
<1> SUFFICES ASSUME ScenesInv, WholeVideo PROVE ScenesInv'
  OBVIOUS
<1>1. /\ scenes' = <<[start |-> 0, end |-> frameCount]>>
      /\ UNCHANGED <<frameCount, cuts, next>>
      /\ pc' = "keyframes"
      /\ frameCount \in Nat \ {0}
  BY DEF WholeVideo, ScenesInv
<1>2. /\ scenes' \in Seq(SceneRecords) /\ Len(scenes') = 1
      /\ scenes'[1].start = 0 /\ scenes'[1].end = frameCount
  BY <1>1 DEF SceneRecords
<1> QED
  BY <1>1, <1>2 DEF ScenesInv, Contiguous, Filled, ScenesPartitionVideo

\* What widening does: it moves only the outer ends, outwards, so no scene
\* becomes empty and the filter keeps them all (scenes.py:37-41).
ScenesWidened ==
    /\ scenes \in Seq(SceneRecords) /\ scenes' \in Seq(SceneRecords)
    /\ Len(scenes) \in Nat \ {0} /\ Len(scenes') = Len(scenes)
    /\ \A i \in 1..Len(scenes) :
          /\ scenes'[i].start = IF i = 1 THEN 0 ELSE scenes[i].start
          /\ scenes'[i].end = IF i = Len(scenes) THEN frameCount ELSE scenes[i].end
    /\ Filled'

LEMMA WideningWidens == ScenesInv /\ WidenScenes => ScenesWidened
<1> SUFFICES ASSUME ScenesInv, WidenScenes PROVE ScenesWidened
  OBVIOUS
<1> DEFINE n == Len(scenes)
           wide == Widen(scenes)
<1>1. /\ scenes \in Seq(SceneRecords) /\ n \in Nat \ {0}
      /\ frameCount \in Nat \ {0}
      /\ scenes[n].end <= frameCount
  <2>1. next \in DOMAIN cuts /\ scenes[n].end = Clamp(cuts[next]) /\ cuts[next] \in Nat
    BY CutListsAssumption DEF ScenesInv, WidenScenes, CutsCollected
  <2> QED
    BY <2>1, EmptySeq DEF ScenesInv, WidenScenes, Clamp
<1>2. \A i \in 1..n : scenes[i] \in SceneRecords /\ scenes[i].start < scenes[i].end
  BY <1>1 DEF ScenesInv, Filled
<1>3. /\ wide \in Seq(SceneRecords) /\ Len(wide) = n
      /\ \A i \in 1..n : /\ wide[i].start = IF i = 1 THEN 0 ELSE scenes[i].start
                         /\ wide[i].end = IF i = n THEN frameCount ELSE scenes[i].end
  <2> DEFINE low == [scenes EXCEPT ![1].start = 0]
  <2>1. wide = [low EXCEPT ![n].end = frameCount]
    BY DEF Widen
  <2>9. scenes[1] \in SceneRecords
    BY <1>1, <1>2
  <2>2. [start |-> 0, end |-> scenes[1].end] = [scenes[1] EXCEPT !.start = 0]
    BY ONLY <2>9 DEF SceneRecords
  <2>3. /\ low \in Seq(SceneRecords) /\ Len(low) = n
        /\ \A i \in 1..n : low[i] = IF i = 1 THEN [start |-> 0, end |-> scenes[1].end] ELSE scenes[i]
    BY <1>1, <1>2, <2>2 DEF SceneRecords
  <2>4. low[n] \in SceneRecords
    BY <1>1, <2>3, ElementOfSeq
  <2>5. [low[n] EXCEPT !.end = frameCount] = [start |-> low[n].start, end |-> frameCount]
    BY <2>4 DEF SceneRecords
  <2>6. [start |-> low[n].start, end |-> frameCount] \in SceneRecords
    BY <1>1, <2>4 DEF SceneRecords
  <2> HIDE DEF low
  <2>7. /\ wide \in Seq(SceneRecords) /\ Len(wide) = n
        /\ \A i \in 1..n : wide[i] = IF i = n THEN [start |-> low[n].start, end |-> frameCount] ELSE low[i]
    BY <1>1, <2>1, <2>3, <2>5, <2>6
  <2> HIDE DEF wide, n
  <2>8. ASSUME NEW i \in 1..n
        PROVE  /\ wide[i].start = IF i = 1 THEN 0 ELSE scenes[i].start
               /\ wide[i].end = IF i = n THEN frameCount ELSE scenes[i].end
    <3>1. CASE i = n
      BY <1>1, <2>3, <2>7, <3>1
    <3>2. CASE i # n
      BY <2>3, <2>7, <3>2
    <3> QED
      BY <3>1, <3>2
  <2> QED
    BY <2>7, <2>8
<1>4. \A i \in DOMAIN wide : wide[i].start < wide[i].end
  <2> HIDE DEF wide
  <2> SUFFICES ASSUME NEW i \in 1..n PROVE wide[i].start < wide[i].end
    BY <1>1, <1>3
  <2>1. /\ scenes[i].start \in Nat /\ scenes[i].end \in Nat /\ scenes[i].start < scenes[i].end
    BY <1>2 DEF SceneRecords
  <2>2. wide[i].start \in Nat /\ wide[i].start <= scenes[i].start
    BY <1>3, <2>1
  <2>3. wide[i].end \in Nat /\ scenes[i].end <= wide[i].end
    BY <1>1, <1>3, <2>1
  <2> QED
    BY <2>1, <2>2, <2>3
<1>5. scenes' = wide
  BY <1>4 DEF WidenScenes, WithoutEmpty, NonEmpty
<1> QED
  BY <1>1, <1>3, <1>4, <1>5 DEF ScenesWidened, Filled

\* The widened scenes cover the video.
LEMMA WidenScenesPreserves == ScenesInv /\ WidenScenes => ScenesInv'
<1> SUFFICES ASSUME ScenesInv, WidenScenes PROVE ScenesInv'
  OBVIOUS
<1>1. ScenesWidened
  BY WideningWidens
<1>2. Contiguous'
  BY <1>1 DEF ScenesInv, ScenesWidened, Contiguous
<1>3. /\ scenes' # <<>> /\ scenes'[1].start = 0 /\ scenes'[Len(scenes')].end = frameCount
  BY <1>1 DEF ScenesWidened
<1> QED
  BY <1>1, <1>2, <1>3 DEF ScenesInv, ScenesWidened, WidenScenes, ScenesPartitionVideo

\* Selecting keyframes and finishing leave the scenes alone.
LEMMA ScenesInvKept == ScenesInv /\ [Next]_vars => ScenesInv'
<1> SUFFICES ASSUME ScenesInv, [Next]_vars PROVE ScenesInv'
  OBVIOUS
<1>1. CASE TakeScene
  BY <1>1, TakeScenePreserves
<1>2. CASE WholeVideo
  BY <1>2, WholeVideoPreserves
<1>3. CASE WidenScenes
  BY <1>3, WidenScenesPreserves
<1>4. CASE SelectKeyframe \/ EndScene
  BY <1>4 DEF ScenesInv, SelectKeyframe, EndScene, ScenesLeft, detectVars, Contiguous, Filled,
              CutsCollected, ScenesPartitionVideo, Clamp
<1>5. CASE Finish
  BY <1>5 DEF ScenesInv, Finish, detectVars, Contiguous, Filled, CutsCollected, ScenesPartitionVideo, Clamp
<1>6. CASE UNCHANGED vars
  BY <1>6 DEF ScenesInv, vars, detectVars, Contiguous, Filled, CutsCollected, ScenesPartitionVideo, Clamp
<1> QED
  BY <1>1, <1>2, <1>3, <1>4, <1>5, <1>6 DEF Next

\* Each frame of a prepared video lies in exactly one scene, whatever cuts the
\* detector reports (detect_initial_scenes).
THEOREM ScenesAlwaysPartition == Spec => []ScenesPartitionVideo
<1>1. ScenesInv => ScenesPartitionVideo
  BY DEF ScenesInv
<1> QED
  BY InitScenesInv, ScenesInvKept, <1>1, PTL DEF Spec

-----------------------------------------------------------------------------
(***************************************************************************)
(* Which boundaries the scenes have.  While the loop runs they start at    *)
(* the first boundary and at each one passed since that lies in the video; *)
(* as long as there is no scene the loop has not moved on in the video.    *)
(***************************************************************************)
Begun == cuts # <<>> => Clamp(cuts[next]) = Clamp(cuts[1])

StartsAreCuts ==
    /\ scenes[1].start = cuts[1]
    /\ \A k \in DOMAIN scenes : /\ scenes[1].start <= scenes[k].start
                                /\ \E i \in 1..next : cuts[i] = scenes[k].start
                                /\ scenes[k].start < Clamp(cuts[next])

CutsAreStarts ==
    \A i \in 1..next : cuts[i] < Clamp(cuts[next]) => \E k \in DOMAIN scenes : scenes[k].start = cuts[i]

CutsFollowed ==
    /\ cuts # <<>> => next \in DOMAIN cuts
    /\ scenes = <<>> => Begun
    /\ scenes # <<>> => cuts # <<>> /\ StartsAreCuts /\ CutsAreStarts

CutsInv ==
    /\ ScenesInv
    /\ pc = "detect" => CutsFollowed
    /\ ScenesFollowCuts

\* Nothing is followed yet.
LEMMA InitCutsInv == Init => CutsInv
<1> SUFFICES ASSUME Init PROVE CutsInv
  OBVIOUS
<1>1. cuts \in Seq(Nat) /\ next = 1 /\ scenes = <<>> /\ pc = "detect"
  BY CutListsAssumption DEF Init
<1> QED
  BY <1>1, InitScenesInv DEF CutsInv, CutsFollowed, Begun, ScenesFollowCuts

\* A boundary that is passed is the start of a scene, or repeats another, or
\* lies past the end (scenes.py:26-32).
LEMMA TakeSceneFollows == CutsInv /\ TakeScene => CutsInv'
<1> SUFFICES ASSUME CutsInv, TakeScene PROVE CutsInv'
  OBVIOUS
<1> DEFINE start == Clamp(cuts[next])
           end == Clamp(cuts[next + 1])
           scene == [start |-> start, end |-> end]
<1>1. /\ cuts \in Seq(Nat) /\ next \in Nat \ {0} /\ frameCount \in Nat
      /\ next + 1 \in DOMAIN cuts /\ cuts # <<>>
      /\ cuts' = cuts /\ frameCount' = frameCount /\ next' = next + 1
      /\ pc = "detect" /\ pc' = "detect"
  BY CutListsAssumption DEF CutsInv, ScenesInv, TakeScene, CutsLeft
<1>2. /\ \A i, j \in 1..(next + 1) : i <= j => cuts[i] \in Nat /\ cuts[i] <= cuts[j]
      /\ 1..(next + 1) \subseteq DOMAIN cuts
  BY <1>1, CutListsAssumption DEF CutsInv, ScenesInv
<1>3. /\ start \in Nat /\ end \in Nat /\ start <= end
      /\ start < frameCount => start = cuts[next]
      /\ start <= cuts[next] /\ start <= frameCount
      /\ end <= cuts[next + 1] /\ end <= frameCount
  BY <1>1, <1>2 DEF Clamp
<1>4. Clamp(cuts[next])' = end /\ Clamp(cuts[1])' = Clamp(cuts[1])
  BY <1>1 DEF Clamp
<1>5. ScenesInv'
  BY TakeScenePreserves DEF CutsInv
<1>6. CutsFollowed
  BY <1>1 DEF CutsInv
<1>7. CutsFollowed'
  <2>1. CASE start >= end
    <3>1. scenes' = scenes /\ start = end
      BY <2>1, <1>3 DEF TakeScene
    <3>2. ASSUME Begun PROVE Begun'
      BY <1>1, <1>4, <3>1, <3>2 DEF Begun
    <3>3. ASSUME scenes # <<>> PROVE StartsAreCuts'
      <4>1. StartsAreCuts
        BY <1>6, <3>3 DEF CutsFollowed
      <4> QED
        BY <1>1, <1>4, <3>1, <4>1 DEF StartsAreCuts
    <3>4. ASSUME scenes # <<>> PROVE CutsAreStarts'
      <4>1. CutsAreStarts
        BY <1>6, <3>4 DEF CutsFollowed
      <4> SUFFICES ASSUME NEW i \in 1..(next + 1), cuts[i] < end
                   PROVE  \E k \in DOMAIN scenes : scenes[k].start = cuts[i]
        BY <1>1, <1>4, <3>1 DEF CutsAreStarts
      <4>2. i \in 1..next
        BY <1>1, <1>2, <1>3
      <4> QED
        BY <3>1, <4>1, <4>2 DEF CutsAreStarts
    <3> QED
      BY <1>1, <1>6, <3>1, <3>2, <3>3, <3>4 DEF CutsFollowed
  <2>2. CASE ~(start >= end)
    <3>1. scenes' = Append(scenes, scene) /\ scenes \in Seq(SceneRecords)
      BY <2>2 DEF TakeScene, CutsInv, ScenesInv
    <3>2. /\ Len(scenes) \in Nat /\ Len(scenes') = Len(scenes) + 1
          /\ DOMAIN scenes = 1..Len(scenes) /\ DOMAIN scenes' = 1..(Len(scenes) + 1)
          /\ \A k \in 1..Len(scenes) : scenes'[k] = scenes[k]
          /\ scenes'[Len(scenes) + 1].start = start
          /\ scenes' # <<>>
      BY <3>1, AppendProperties
    <3>3. start < end /\ start = cuts[next] /\ start < frameCount
      BY <2>2, <1>1, <1>3
    <3>4. StartsAreCuts'
      <4>1. CASE scenes = <<>>
        <5>1. Len(scenes) = 0 /\ DOMAIN scenes' = 1..1 /\ scenes'[1].start = cuts[next]
          BY <3>2, <3>3, <4>1
        <5>2. Clamp(cuts[1]) = cuts[next]
          BY <1>1, <1>6, <3>3, <4>1 DEF CutsFollowed, Begun
        <5>3. cuts[1] = cuts[next]
          BY <1>1, <1>2, <3>3, <5>2 DEF Clamp
        <5> QED
          BY <1>1, <1>3, <1>4, <3>3, <5>1, <5>3 DEF StartsAreCuts
      <4>2. CASE scenes # <<>>
        <5>1. StartsAreCuts /\ Len(scenes) >= 1
          BY <1>6, <3>2, <4>2 DEF CutsFollowed
        <5>2. scenes'[1].start = cuts[1]
          BY <3>2, <5>1 DEF StartsAreCuts
        <5>3. ASSUME NEW k \in 1..Len(scenes)
              PROVE  /\ scenes'[1].start <= scenes'[k].start
                     /\ \E i \in 1..(next + 1) : cuts[i] = scenes'[k].start
                     /\ scenes'[k].start < end
          <6>1. scenes[k].start \in Nat /\ scenes'[1] = scenes[1] /\ scenes'[k] = scenes[k]
            <7>1. scenes[k] \in SceneRecords
              BY <3>1
            <7>2. 1 \in 1..Len(scenes)
              BY <3>2, <5>1
            <7> QED
              BY <3>2, <7>1, <7>2 DEF SceneRecords
          <6>2. scenes[1].start <= scenes[k].start /\ scenes[k].start < start
            BY <3>2, <5>1 DEF StartsAreCuts
          <6>3. \E i \in 1..(next + 1) : cuts[i] = scenes[k].start
            <7>1. PICK i \in 1..next : cuts[i] = scenes[k].start
              BY <3>2, <5>1 DEF StartsAreCuts
            <7>2. i \in 1..(next + 1)
              BY <1>1
            <7> QED
              BY <7>1, <7>2
          <6>4. start \in Nat /\ end \in Nat /\ start < end
            BY <1>1, <1>3, <3>3 DEF Clamp
          <6>5. scenes[k].start < end
            <7> DEFINE x == scenes[k].start
            <7>1. x \in Nat /\ x < start
              BY <6>1, <6>2
            <7> HIDE DEF x, start, end
            <7>2. x < end
              BY <6>4, <7>1
            <7> QED
              BY <7>2 DEF x
          <6> QED
            BY <6>1, <6>2, <6>3, <6>5
        <5>4. /\ scenes'[1].start <= start
              /\ \E i \in 1..(next + 1) : cuts[i] = start
              /\ start < end
          <6>1. 1 \in 1..(next + 1) /\ next \in 1..(next + 1) /\ 1 <= next
            BY <1>1
          <6>2. cuts[1] <= cuts[next]
            BY <1>2, <6>1
          <6> QED
            BY <3>3, <5>2, <6>1, <6>2
        <5>5. ASSUME NEW k \in DOMAIN scenes'
              PROVE  /\ scenes'[1].start <= scenes'[k].start
                     /\ \E i \in 1..(next + 1) : cuts[i] = scenes'[k].start
                     /\ scenes'[k].start < end
          <6>1. CASE k \in 1..Len(scenes)
            BY <5>3, <6>1
          <6>2. CASE k = Len(scenes) + 1
            BY <3>2, <5>4, <6>2
          <6> QED
            BY <3>2, <6>1, <6>2
        <5> QED
          BY <1>1, <1>4, <5>2, <5>5 DEF StartsAreCuts
      <4> QED
        BY <4>1, <4>2
    <3>5. CutsAreStarts'
      <4> SUFFICES ASSUME NEW i \in 1..(next + 1), cuts[i] < end
                   PROVE  \E k \in DOMAIN scenes' : scenes'[k].start = cuts[i]
        BY <1>1, <1>4 DEF CutsAreStarts
      <4>1. i \in 1..next /\ cuts[i] \in Nat /\ cuts[i] <= start
        BY <1>1, <1>2, <1>3, <3>3
      <4>2. CASE cuts[i] = start
        BY <3>2, <4>2
      <4>3. CASE cuts[i] < start
        <5>1. scenes # <<>>
          <6>1. cuts[1] < start
            BY <1>1, <1>2, <1>3, <4>1, <4>3
          <6> QED
            BY <1>1, <1>2, <1>3, <1>6, <3>3, <6>1 DEF CutsFollowed, Begun, Clamp
        <5>2. CutsAreStarts
          BY <1>6, <5>1 DEF CutsFollowed
        <5>3. PICK k \in DOMAIN scenes : scenes[k].start = cuts[i]
          BY <4>1, <4>3, <5>2 DEF CutsAreStarts
        <5> QED
          BY <3>2, <5>3
      <4> QED
        BY <1>3, <4>1, <4>2, <4>3
    <3> QED
      BY <1>1, <3>2, <3>4, <3>5 DEF CutsFollowed
  <2> QED
    BY <2>1, <2>2
<1> QED
  BY <1>1, <1>5, <1>7 DEF CutsInv, ScenesFollowCuts

\* Without a scene there is no boundary inside the video (scenes.py:34-35).
LEMMA WholeVideoFollows == CutsInv /\ WholeVideo => CutsInv'
<1> SUFFICES ASSUME CutsInv, WholeVideo PROVE CutsInv'
  OBVIOUS
<1>1. /\ cuts \in Seq(Nat) /\ next \in Nat \ {0} /\ frameCount \in Nat
      /\ cuts' = cuts /\ frameCount' = frameCount
      /\ scenes = <<>> /\ CutsFollowed /\ ~(next < Len(cuts))
      /\ scenes' = <<[start |-> 0, end |-> frameCount]>> /\ pc' = "keyframes"
  BY CutListsAssumption DEF CutsInv, ScenesInv, WholeVideo, CutsLeft
<1>2. \A i, j \in DOMAIN cuts : i < j => cuts[i] <= cuts[j]
  BY CutListsAssumption DEF CutsInv, ScenesInv
<1>3. ASSUME NEW i \in DOMAIN cuts, cuts[1] < cuts[i], cuts[i] < cuts[Len(cuts)], cuts[i] < frameCount
      PROVE  FALSE
  <2>1. cuts # <<>> /\ next = Len(cuts) /\ cuts[1] \in Nat /\ cuts[i] \in Nat /\ cuts[next] \in Nat
    BY <1>1, <1>3 DEF CutsFollowed
  <2> QED
    BY <1>1, <1>3, <2>1 DEF CutsFollowed, Begun, Clamp
<1>4. InnerCuts' = {}
  BY <1>1, <1>3 DEF InnerCuts
<1>5. {scenes'[k].start : k \in DOMAIN scenes'} = {0}
  BY <1>1
<1> QED
  BY <1>1, <1>4, <1>5, WholeVideoPreserves DEF CutsInv, ScenesFollowCuts

\* Widening moves the first start to 0 and no other (scenes.py:37-41).
LEMMA WidenScenesFollows == CutsInv /\ WidenScenes => CutsInv'
<1> SUFFICES ASSUME CutsInv, WidenScenes PROVE CutsInv'
  OBVIOUS
<1>1. /\ cuts \in Seq(Nat) /\ next \in Nat \ {0} /\ frameCount \in Nat
      /\ cuts' = cuts /\ frameCount' = frameCount
      /\ cuts # <<>> /\ next = Len(cuts) /\ StartsAreCuts /\ CutsAreStarts
      /\ scenes \in Seq(SceneRecords) /\ scenes # <<>> /\ Contiguous /\ Filled
      /\ pc' = "keyframes"
  BY CutListsAssumption DEF CutsInv, ScenesInv, WidenScenes, CutsLeft, CutsFollowed
<1>2. /\ Len(scenes') = Len(scenes) /\ DOMAIN scenes' = DOMAIN scenes
      /\ scenes'[1].start = 0
      /\ \A k \in 2..Len(scenes) : scenes'[k].start = scenes[k].start
  BY WideningWidens DEF CutsInv, ScenesWidened
<1>3. /\ scenes[1].start = cuts[1] /\ cuts[1] \in Nat
      /\ \A k \in 2..Len(scenes) : cuts[1] < scenes[k].start
  <2>1. ASSUME NEW k \in 2..Len(scenes) PROVE cuts[1] < scenes[k].start
    <3>1. /\ k - 1 \in 1..(Len(scenes) - 1) /\ k - 1 \in DOMAIN scenes /\ (k - 1) + 1 = k
          /\ scenes[k - 1] \in SceneRecords /\ scenes[k] \in SceneRecords
      BY <1>1
    <3>2. scenes[k - 1].end = scenes[k].start /\ scenes[k - 1].start < scenes[k - 1].end
      BY <1>1, <3>1 DEF Contiguous, Filled
    <3> QED
      BY <1>1, <3>1, <3>2 DEF StartsAreCuts, SceneRecords
  <2> QED
    BY <1>1, <2>1 DEF StartsAreCuts
<1>4. ASSUME NEW c PROVE c \in InnerCuts <=> \E k \in 2..Len(scenes) : c = scenes[k].start
  <2>1. ASSUME c \in InnerCuts PROVE \E k \in 2..Len(scenes) : c = scenes[k].start
    <3>1. PICK i \in DOMAIN cuts : /\ c = cuts[i] /\ cuts[1] < cuts[i]
                                   /\ cuts[i] < cuts[Len(cuts)] /\ cuts[i] < frameCount
      BY <2>1 DEF InnerCuts
    <3>2. i \in 1..next /\ cuts[i] < Clamp(cuts[next])
      BY <1>1, <3>1 DEF Clamp
    <3>3. PICK k \in DOMAIN scenes : scenes[k].start = cuts[i]
      BY <1>1, <3>2 DEF CutsAreStarts
    <3>4. k # 1 /\ k \in 1..Len(scenes)
      BY <1>1, <1>3, <3>1, <3>3
    <3> QED
      BY <1>1, <3>1, <3>3, <3>4
  <2>2. ASSUME NEW k \in 2..Len(scenes), c = scenes[k].start PROVE c \in InnerCuts
    <3>1. k \in DOMAIN scenes /\ scenes[k].start < Clamp(cuts[next])
      BY <1>1 DEF StartsAreCuts
    <3>2. PICK i \in 1..next : cuts[i] = scenes[k].start
      BY <1>1, <3>1 DEF StartsAreCuts
    <3>3. /\ i \in DOMAIN cuts /\ cuts[1] < cuts[i]
          /\ cuts[i] < cuts[Len(cuts)] /\ cuts[i] < frameCount
      BY <1>1, <1>3, <3>1, <3>2 DEF Clamp
    <3> QED
      BY <2>2, <3>2, <3>3 DEF InnerCuts
  <2> QED
    BY <2>1, <2>2
<1>5. {scenes'[k].start : k \in DOMAIN scenes'} = {0} \cup InnerCuts
  <2>1. 1 \in DOMAIN scenes /\ 2..Len(scenes) \subseteq DOMAIN scenes
        /\ \A k \in DOMAIN scenes : k = 1 \/ k \in 2..Len(scenes)
    BY <1>1
  <2> QED
    BY <1>2, <1>4, <2>1
<1>6. InnerCuts' = InnerCuts
  BY <1>1 DEF InnerCuts
<1> QED
  BY <1>1, <1>5, <1>6, WidenScenesPreserves DEF CutsInv, ScenesFollowCuts

\* The scenes start at 0 and at every boundary between two scenes of the
\* detector that lies in the video, whatever it reports (detect_initial_scenes).
THEOREM ScenesAlwaysFollowCuts == Spec => []ScenesFollowCuts
<1>1. CutsInv /\ [Next]_vars => CutsInv'
  <2> SUFFICES ASSUME CutsInv, [Next]_vars PROVE CutsInv'
    OBVIOUS
  <2>1. CASE TakeScene
    BY <2>1, TakeSceneFollows
  <2>2. CASE WholeVideo
    BY <2>2, WholeVideoFollows
  <2>3. CASE WidenScenes
    BY <2>3, WidenScenesFollows
  <2>4. CASE SelectKeyframe \/ EndScene \/ Finish \/ UNCHANGED vars
    <3>1. /\ UNCHANGED detectVars
          /\ pc' = pc \/ (pc = "keyframes" /\ pc' = "done")
      BY <2>4 DEF SelectKeyframe, EndScene, Finish, vars, ScenesLeft
    <3>2. ScenesInv' /\ (pc = "detect" <=> pc' = "detect")
      BY <3>1 DEF CutsInv, ScenesInv, detectVars, Contiguous, Filled, CutsCollected, ScenesPartitionVideo, Clamp
    <3> QED
      BY <3>1, <3>2 DEF CutsInv, CutsFollowed, Begun, StartsAreCuts, CutsAreStarts, ScenesFollowCuts,
                        InnerCuts, detectVars, Clamp
  <2> QED
    BY <2>1, <2>2, <2>3, <2>4 DEF Next
<1>2. CutsInv => ScenesFollowCuts
  BY DEF CutsInv
<1> QED
  BY InitCutsInv, <1>1, <1>2, PTL DEF Spec

-----------------------------------------------------------------------------
(***************************************************************************)
(* Numbers that are near the multiples of a fraction.                      *)
(***************************************************************************)
LEMMA Product ==
    ASSUME NEW a \in Nat \ {0}, NEW d \in Int
    PROVE  /\ a * d \in Int
           /\ d >= 1 => a * d >= a
           /\ d >= 2 => a * d >= 2 * a
           /\ d <= -1 => a * d <= -a
           /\ a * d > 0 => d >= 1
  OBVIOUS

LEMMA Division ==
    ASSUME NEW a \in Nat, NEW b \in Nat \ {0}
    PROVE  a \div b \in Nat /\ a % b \in 0..(b - 1) /\ a = b * (a \div b) + (a % b)
  OBVIOUS

\* round() is off by a half at most, a tie included (keyframes.py:27).
LEMMA Rounding ==
    ASSUME NEW a \in Nat, NEW b \in Nat \ {0}
    PROVE  /\ RoundedQuotient(a, b) \in Nat
           /\ 2 * a - b <= 2 * (b * RoundedQuotient(a, b))
           /\ 2 * (b * RoundedQuotient(a, b)) <= 2 * a + b
<1> DEFINE q == a \div b
           r == a % b
<1>1. q \in Nat /\ r \in 0..(b - 1) /\ a = b * q + r
  BY Division
<1>2. RoundedQuotient(a, b) = IF 2 * r < b \/ (2 * r = b /\ q % 2 = 0) THEN q ELSE q + 1
  BY DEF RoundedQuotient
<1> HIDE DEF q, r
<1>3. b * q \in Nat /\ b * (q + 1) = b * q + b
  BY <1>1
<1>4. CASE RoundedQuotient(a, b) = q /\ 2 * r <= b
  BY <1>1, <1>3, <1>4
<1>5. CASE RoundedQuotient(a, b) = q + 1 /\ 2 * r >= b
  <2> DEFINE x == b * q
  <2>1. b * RoundedQuotient(a, b) = x + b /\ a = x + r /\ x \in Nat
    BY <1>1, <1>3, <1>5
  <2> HIDE DEF x
  <2> QED
    BY <1>1, <1>5, <2>1
<1> QED
  BY <1>1, <1>2, <1>4, <1>5

\* x is the i-th of the m marks of a length, up to a half.
Near(x, length, m, i) ==
    2 * (length * i) - m <= 2 * (m * x) /\ 2 * (m * x) <= 2 * (length * i) + m

\* From one mark to the next it is a part of the length, up to one.
OnePart(x, y, length, m) == length - m <= m * (y - x) /\ m * (y - x) <= length + m

LEMMA NearNext ==
    ASSUME NEW length \in Nat \ {0}, NEW m \in Nat \ {0}, NEW i \in Nat, NEW x \in Int, NEW y \in Int,
           Near(x, length, m, i), Near(y, length, m, i + 1)
    PROVE  OnePart(x, y, length, m)
  BY DEF Near, OnePart

LEMMA NearFurther ==
    ASSUME NEW length \in Nat \ {0}, NEW m \in Nat \ {0}, NEW i \in Nat, NEW j \in Nat, i < j,
           NEW x \in Int, NEW y \in Int, Near(x, length, m, i), Near(y, length, m, j), length > m
    PROVE  x < y
<1>1. length * (j - i) >= length
  BY Product
<1>2. length * (j - i) = length * j - length * i
  OBVIOUS
<1>3. m * (y - x) > 0
  <2>1. m * (y - x) = m * y - m * x
    OBVIOUS
  <2> QED
    BY <1>1, <1>2, <2>1 DEF Near
<1> QED
  BY <1>3, Product

LEMMA NearWhole ==
    ASSUME NEW k \in Int, NEW m \in Nat \ {0}, NEW i \in Nat, NEW x \in Int, Near(x, m * k, m, i)
    PROVE  x = k * i
<1> DEFINE d == x - k * i
<1>1. d \in Int /\ m * d = m * x - (m * k) * i
  OBVIOUS
<1>2. 2 * (m * d) <= m /\ -m <= 2 * (m * d)
  BY <1>1 DEF Near
<1>3. d = 0
  <2> HIDE DEF d
  <2> QED
    BY <1>1, <1>2, Product
<1> QED
  BY <1>3

\* Of the parts between neighbouring marks none is longer than another by two:
\* both would be off by a whole part, and then the parts come out even.
LEMMA PartsAreEven ==
    ASSUME NEW length \in Nat \ {0}, NEW m \in Nat \ {0}, NEW u \in [0..m -> Int],
           \A i \in 0..m : Near(u[i], length, m, i),
           NEW i \in 0..(m - 1), NEW j \in 0..(m - 1)
    PROVE  (u[i + 1] - u[i]) - (u[j + 1] - u[j]) <= 1
<1> DEFINE g == u[i + 1] - u[i]
           h == u[j + 1] - u[j]
<1>0. /\ i \in 0..m /\ i + 1 \in 0..m /\ j \in 0..m /\ j + 1 \in 0..m
      /\ i \in Nat /\ j \in Nat
      /\ u[i] \in Int /\ u[i + 1] \in Int /\ u[j] \in Int /\ u[j + 1] \in Int
  OBVIOUS
<1>1. OnePart(u[i], u[i + 1], length, m) /\ OnePart(u[j], u[j + 1], length, m)
  BY <1>0, NearNext
<1>2. g \in Int /\ h \in Int /\ m * g <= length + m /\ length - m <= m * h
  BY <1>0, <1>1 DEF OnePart
<1>3. SUFFICES ASSUME g - h >= 2 PROVE FALSE
  BY <1>2
<1>4. length = m * (g - 1)
  <2> HIDE DEF g, h
  <2>1. m * (g - h) >= 2 * m /\ m * (g - h) = m * g - m * h /\ m * (g - 1) = m * g - m
    BY <1>2, <1>3, Product
  <2> QED
    BY <1>2, <2>1
<1>5. PICK k \in Int : k = g - 1
  BY <1>2
<1>6. u[i] = k * i /\ u[i + 1] = k * (i + 1)
  <2>1. Near(u[i], m * k, m, i) /\ Near(u[i + 1], m * k, m, i + 1)
    BY <1>0, <1>4, <1>5
  <2>2. u[i] = k * i
    BY <1>0, <2>1, NearWhole
  <2>3. i + 1 \in Nat
    BY <1>0
  <2>4. u[i + 1] = k * (i + 1)
    BY <1>0, <2>1, <2>3, NearWhole
  <2> QED
    BY <2>2, <2>4
<1>7. k * (i + 1) = k * i + k /\ k * i \in Int
  <2> DEFINE a == i
  <2>1. a \in Int /\ k \in Int
    BY <1>0
  <2> HIDE DEF a
  <2>2. k * (a + 1) = k * a + k /\ k * a \in Int
    BY <2>1
  <2> QED
    BY <2>2 DEF a
<1>8. g = k
  <2> DEFINE a == k * i
             b == k * (i + 1)
  <2>1. g = b - a /\ b = a + k /\ a \in Int
    BY <1>6, <1>7
  <2> HIDE DEF a, b, g
  <2> QED
    BY <2>1
<1> QED
  BY <1>2, <1>5, <1>8

-----------------------------------------------------------------------------
(***************************************************************************)
(* Keyframes.                                                              *)
(***************************************************************************)
Started(length) ==
    (length \div KEYFRAME_INTERVAL_FRAMES) + (IF length % KEYFRAME_INTERVAL_FRAMES > 0 THEN 1 ELSE 0)

\* The intervals of 60 frames that a scene starts, up to the cap; two of them
\* need so many frames that the keyframes are far apart (keyframes.py:20-27).
LEMMA StartedIs ==
    ASSUME NEW length \in Nat \ {0}
    PROVE  /\ Started(length) \in 1..length
           /\ Started(length) * KEYFRAME_INTERVAL_FRAMES >= length
           /\ (Started(length) - 1) * KEYFRAME_INTERVAL_FRAMES < length
  BY DEF Started, KEYFRAME_INTERVAL_FRAMES

LEMMA KeyframeCountIs ==
    ASSUME NEW length \in Nat \ {0}, cap \in Nat \ {0}
    PROVE  /\ KeyframeCount(length) = IF Started(length) < cap THEN Started(length) ELSE cap
           /\ KeyframeCount(length) \in 1..length
           /\ KeyframeCount(length) >= 2 => length > KeyframeCount(length) + 1
           /\ length >= 2 => 2 * length > KeyframeCount(length) + 1
<1> DEFINE n == KeyframeCount(length)
           c == Started(length)
<1>1. /\ c \in 1..length /\ c * 60 >= length /\ (c - 1) * 60 < length
  BY StartedIs DEF KEYFRAME_INTERVAL_FRAMES
<1>2. n = IF c < 1 THEN 1 ELSE IF c > cap THEN cap ELSE c
  BY DEF KeyframeCount, Started
<1> HIDE DEF n, c
<1>3. n = (IF c < cap THEN c ELSE cap) /\ n \in 1..c
  BY <1>1, <1>2
<1>4. n >= 2 => length > n + 1
  BY <1>1, <1>3
<1>5. length >= 2 => 2 * length > n + 1
  BY <1>1, <1>3, <1>4
<1> QED
  BY <1>1, <1>3, <1>4, <1>5 DEF n, c

LengthOf(scene) == scene.end - scene.start

\* The i-th keyframe of a scene lies in it, near its mark.
Placed(f, scene, i) ==
    /\ f \in scene.start..(scene.end - 1)
    /\ Near(f - scene.start, LengthOf(scene), KeyframeCount(LengthOf(scene)) + 1, i)

LEMMA KeyframeIsPlaced ==
    ASSUME Scene \in SceneRecords, Scene.start < Scene.end, cap \in Nat \ {0},
           index \in 1..KeyframeCount(SceneLength)
    PROVE  Placed(ClampToScene(FrameAt), Scene, index)
<1> DEFINE length == Scene.end - Scene.start
           n == KeyframeCount(length)
           m == n + 1
           q == RoundedQuotient(length * index, m)
           f == ClampToScene(FrameAt)
<1>1. /\ Scene.start \in Nat /\ Scene.end \in Nat /\ Scene.end = Scene.start + length
      /\ length \in Nat \ {0} /\ SceneLength = length
  BY DEF SceneRecords, SceneLength
<1>2. /\ n \in 1..length /\ (length >= 2 => 2 * length > m) /\ m \in Nat \ {0}
      /\ index \in 1..n
  BY <1>1, KeyframeCountIs
<1>3. FrameAt = Scene.start + q
  BY <1>1 DEF FrameAt
<1> HIDE DEF length, n
<1>4. length * index \in Nat
  BY <1>1, <1>2
<1>5. q \in Nat /\ Near(q, length, m, index)
  BY <1>2, <1>4, Rounding DEF Near
<1> HIDE DEF q
<1>6. CASE length = 1
  <2>1. n = 1 /\ m = 2 /\ index = 1
    BY <1>2, <1>6
  <2>2. f = Scene.start
    BY <1>1, <1>3, <1>5, <1>6 DEF ClampToScene
  <2>3. Near(f - Scene.start, length, m, index)
    BY <1>1, <1>6, <2>1, <2>2 DEF Near
  <2>4. f \in Scene.start..(Scene.end - 1)
    BY <1>1, <1>6, <2>2
  <2> QED
    BY <2>3, <2>4 DEF Placed, LengthOf, length, n
<1>7. CASE length >= 2
  <2>1. q < length
    <3>1. length * index <= length * m - length
      <4>1. length * (m - index) >= length
        <5>1. m - index \in Int /\ m - index >= 1
          BY <1>2
        <5> QED
          BY <1>1, <5>1, Product
      <4> QED
        BY <1>1, <1>2, <4>1
    <3>2. m * (length - q) > 0
      <4>1. m * (length - q) = length * m - m * q
        BY <1>1, <1>2, <1>5
      <4>2. m * q \in Int /\ length * m \in Int /\ length * index \in Int
        BY <1>1, <1>2, <1>5
      <4> QED
        BY <1>1, <1>2, <1>5, <1>7, <3>1, <4>1, <4>2 DEF Near
    <3> QED
      BY <1>1, <1>2, <1>5, <3>2, Product
  <2>2. f = Scene.start + q
    BY <1>1, <1>3, <1>5, <2>1 DEF ClampToScene
  <2>3. f \in Scene.start..(Scene.end - 1) /\ f - Scene.start = q
    BY <1>1, <1>5, <2>1, <2>2
  <2> QED
    BY <1>5, <2>3 DEF Placed, LengthOf, length, n
<1> QED
  BY <1>1, <1>6, <1>7

(***************************************************************************)
(* The inductive invariant.  A scene that is done has all its keyframes,   *)
(* each near its mark; the scene at hand has those before the index.       *)
(***************************************************************************)
AllPlaced(frames, scene) ==
    /\ Len(frames) = KeyframeCount(LengthOf(scene))
    /\ \A i \in DOMAIN frames : Placed(frames[i], scene, i)

Selecting ==
    /\ index \in 1..(KeyframeCount(SceneLength) + 1)
    /\ Len(selected) = index - 1
    /\ \A i \in DOMAIN selected : Placed(selected[i], Scene, i)

SpreadInv ==
    /\ ScenesInv
    /\ cap \in Nat \ {0}
    /\ keyframes \in Seq(Seq(Nat))
    /\ selected \in Seq(Nat)
    /\ pc = "detect" => keyframes = <<>>
    /\ Len(keyframes) <= Len(scenes)
    /\ \A k \in DOMAIN keyframes : AllPlaced(keyframes[k], scenes[k])
    /\ IF ScenesLeft THEN Selecting ELSE selected = <<>> /\ index = 1

\* Nothing is selected while the scenes are detected.
LEMMA InitSpreadInv == Init => SpreadInv
<1> SUFFICES ASSUME Init PROVE SpreadInv
  OBVIOUS
<1>1. cap \in Nat \ {0} /\ keyframes = <<>> /\ selected = <<>> /\ index = 1 /\ scenes = <<>> /\ ~ScenesLeft
  BY CapsAssumption DEF Init, ScenesLeft
<1> QED
  BY <1>1, InitScenesInv DEF SpreadInv

\* A scene that is left is a scene of the list, and has a length.
LEMMA SceneLeft ==
    ASSUME SpreadInv, ScenesLeft
    PROVE  /\ Len(keyframes) \in Nat /\ Len(keyframes) + 1 \in DOMAIN scenes
           /\ Scene \in SceneRecords /\ Scene.start < Scene.end
           /\ SceneLength = LengthOf(Scene) /\ SceneLength \in Nat \ {0}
           /\ KeyframeCount(SceneLength) \in 1..SceneLength
<1>1. Len(keyframes) \in Nat /\ Len(keyframes) + 1 \in DOMAIN scenes
  BY DEF SpreadInv, ScenesInv, ScenesLeft
<1>2. Scene \in SceneRecords /\ Scene.start < Scene.end
  BY <1>1 DEF SpreadInv, ScenesInv, Scene, Filled
<1>3. SceneLength = LengthOf(Scene) /\ SceneLength \in Nat \ {0}
  BY <1>2 DEF SceneLength, LengthOf, SceneRecords
<1> QED
  BY <1>1, <1>2, <1>3, KeyframeCountIs DEF SpreadInv

\* Detection leaves the keyframes alone, and none is there (scenes.py:12-47).
LEMMA DetectionSpreads ==
    ASSUME SpreadInv, ScenesInv', pc = "detect", UNCHANGED keyframeVars
    PROVE  SpreadInv'
<1>1. /\ keyframes = <<>> /\ keyframes' = keyframes /\ selected' = selected /\ index' = index /\ cap' = cap
      /\ selected = <<>> /\ index = 1 /\ cap \in Nat \ {0}
  BY DEF SpreadInv, ScenesLeft, keyframeVars
<1>2. scenes' \in Seq(SceneRecords) /\ Len(scenes') \in Nat
  BY DEF ScenesInv
<1>3. ASSUME ScenesLeft' PROVE Selecting'
  <2>1. 1 \in DOMAIN scenes' /\ scenes'[1] \in SceneRecords /\ Scene' = scenes'[1]
    BY <1>1, <1>2, <1>3 DEF ScenesLeft, Scene
  <2>2. scenes'[1].start < scenes'[1].end
    BY <2>1 DEF ScenesInv, Filled
  <2>3. SceneLength' \in Nat \ {0}
    BY <2>1, <2>2 DEF SceneLength, SceneRecords
  <2>4. KeyframeCount(SceneLength)' = KeyframeCount(SceneLength')
    BY <1>1 DEF KeyframeCount
  <2>5. KeyframeCount(SceneLength') \in 1..SceneLength'
    BY <1>1, <2>3, KeyframeCountIs
  <2> QED
    BY <1>1, <2>3, <2>4, <2>5 DEF Selecting
<1> QED
  BY <1>1, <1>2, <1>3 DEF SpreadInv

\* The frame selected is past the ones selected before it, so that the test
\* for duplicates never drops it (keyframes.py:26-31).
LEMMA SelectKeyframeSpreads == SpreadInv /\ ScenesInv' /\ SelectKeyframe => SpreadInv'
<1> SUFFICES ASSUME SpreadInv, ScenesInv', SelectKeyframe PROVE SpreadInv'
  OBVIOUS
<1> DEFINE f == ClampToScene(FrameAt)
           n == KeyframeCount(SceneLength)
<1>1. /\ ScenesLeft /\ index <= n /\ index' = index + 1
      /\ selected' = IF \E i \in DOMAIN selected : selected[i] = f THEN selected ELSE Append(selected, f)
      /\ scenes' = scenes /\ keyframes' = keyframes /\ cap' = cap /\ pc' = pc
  BY DEF SelectKeyframe, detectVars
<1>2. /\ Scene \in SceneRecords /\ Scene.start < Scene.end /\ SceneLength = LengthOf(Scene)
      /\ SceneLength \in Nat \ {0} /\ n \in 1..SceneLength
  BY <1>1, SceneLeft
<1>3. /\ index \in 1..n /\ Len(selected) = index - 1 /\ selected \in Seq(Nat) /\ cap \in Nat \ {0}
      /\ \A i \in DOMAIN selected : Placed(selected[i], Scene, i)
  BY <1>1, <1>2 DEF SpreadInv, Selecting
<1>4. Placed(f, Scene, index)
  BY <1>2, <1>3, KeyframeIsPlaced
<1> HIDE DEF f
<1>5. f \in Nat
  BY <1>2, <1>4 DEF Placed, SceneRecords
<1>6. ASSUME NEW i \in DOMAIN selected PROVE selected[i] # f
  <2>1. i \in 1..(index - 1) /\ i \in Nat /\ index \in Nat /\ i < index /\ n >= 2
    BY <1>2, <1>3
  <2>2. SceneLength > n + 1 /\ n + 1 \in Nat \ {0}
    <3>1. n >= 2 => SceneLength > n + 1
      BY <1>2, <1>3, KeyframeCountIs
    <3> QED
      BY <1>2, <2>1, <3>1
  <2> DEFINE x == selected[i] - Scene.start
             y == f - Scene.start
  <2>3. selected[i] \in Nat /\ Scene.start \in Nat
    BY <1>2, <1>3 DEF SceneRecords
  <2>4. x \in Int /\ y \in Int
    BY <1>5, <2>3
  <2>5. Near(x, SceneLength, n + 1, i) /\ Near(y, SceneLength, n + 1, index)
    BY <1>2, <1>3, <1>4 DEF Placed
  <2> HIDE DEF x, y, n
  <2>6. x < y
    BY <1>2, <2>1, <2>2, <2>4, <2>5, NearFurther
  <2> QED
    BY <2>4, <2>6 DEF x, y
<1>7. selected' = Append(selected, f)
  BY <1>1, <1>6
<1>8. Scene' = Scene /\ SceneLength' = SceneLength /\ ScenesLeft'
  BY <1>1 DEF Scene, SceneLength, ScenesLeft
<1>9. KeyframeCount(SceneLength)' = n
  BY <1>1, <1>8 DEF KeyframeCount
<1>10. \A scene, g, i : Placed(g, scene, i)' <=> Placed(g, scene, i)
  BY <1>1 DEF Placed, KeyframeCount
<1>11. Selecting'
  <2>1. index' \in 1..(n + 1) /\ Len(selected') = index' - 1
    BY <1>1, <1>2, <1>3, <1>5, <1>7
  <2>2. ASSUME NEW i \in DOMAIN selected' PROVE Placed(selected'[i], Scene, i)
    <3>1. CASE i = index
      BY <1>3, <1>4, <1>5, <1>7, <3>1
    <3>2. CASE i # index
      BY <1>3, <1>5, <1>7, <2>2, <3>2
    <3> QED
      BY <3>1, <3>2
  <2> QED
    BY <1>8, <1>9, <1>10, <2>1, <2>2 DEF Selecting
<1>12. \A k \in DOMAIN keyframes : AllPlaced(keyframes[k], scenes[k])'
  BY <1>1, <1>10 DEF SpreadInv, AllPlaced, KeyframeCount
<1>13. selected' \in Seq(Nat)
  BY <1>3, <1>5, <1>7
<1> QED
  BY <1>1, <1>8, <1>11, <1>12, <1>13 DEF SpreadInv, ScenesLeft

\* A scene that ends has as many keyframes as its count (keyframes.py:32).
LEMMA EndSceneSpreads == SpreadInv /\ ScenesInv' /\ EndScene => SpreadInv'
<1> SUFFICES ASSUME SpreadInv, ScenesInv', EndScene PROVE SpreadInv'
  OBVIOUS
<1> DEFINE done == Len(keyframes) + 1
<1>1. /\ ScenesLeft /\ index > KeyframeCount(SceneLength) /\ index' = 1 /\ selected' = <<>>
      /\ keyframes' = Append(keyframes, selected)
      /\ scenes' = scenes /\ cap' = cap /\ pc' = pc /\ pc # "detect"
  BY DEF EndScene, detectVars, ScenesLeft
<1>2. /\ done \in DOMAIN scenes /\ done \in Nat /\ Scene = scenes[done]
      /\ SceneLength = LengthOf(Scene) /\ SceneLength \in Nat \ {0}
      /\ KeyframeCount(SceneLength) \in 1..SceneLength
  BY <1>1, SceneLeft DEF Scene
<1>3. /\ index \in 1..(KeyframeCount(SceneLength) + 1) /\ Len(selected) = index - 1
      /\ \A i \in DOMAIN selected : Placed(selected[i], Scene, i)
  BY <1>1 DEF SpreadInv, Selecting
<1>4. AllPlaced(selected, Scene)
  <2>1. Len(selected) = KeyframeCount(SceneLength)
    BY <1>1, <1>2, <1>3
  <2> QED
    BY <1>2, <1>3, <2>1 DEF AllPlaced
<1>6. /\ keyframes \in Seq(Seq(Nat)) /\ selected \in Seq(Nat) /\ cap \in Nat \ {0}
      /\ \A k \in DOMAIN keyframes : AllPlaced(keyframes[k], scenes[k])
  BY DEF SpreadInv
<1>7. /\ keyframes' \in Seq(Seq(Nat)) /\ Len(keyframes') = done
      /\ \A k \in DOMAIN keyframes' : k \in DOMAIN keyframes \/ k = done
      /\ \A k \in DOMAIN keyframes : keyframes'[k] = keyframes[k]
      /\ keyframes'[done] = selected
  BY <1>1, <1>6
<1>5. \A k \in DOMAIN keyframes' : AllPlaced(keyframes'[k], scenes[k])
  BY <1>2, <1>4, <1>6, <1>7
<1>8. (\A k \in DOMAIN keyframes : AllPlaced(keyframes[k], scenes[k]))'
  BY <1>1, <1>5 DEF AllPlaced, Placed, KeyframeCount
<1>9. Len(keyframes') <= Len(scenes')
  BY <1>1, <1>2, <1>7 DEF SpreadInv, ScenesInv
<1>10. ASSUME ScenesLeft' PROVE Selecting'
  <2>1. Len(keyframes') + 1 \in DOMAIN scenes' /\ Scene' = scenes'[Len(keyframes') + 1]
    BY <1>7, <1>10 DEF ScenesLeft, ScenesInv, Scene
  <2>2. Scene' \in SceneRecords /\ Scene'.start < Scene'.end
    BY <2>1 DEF ScenesInv, Filled
  <2>3. SceneLength' \in Nat \ {0}
    BY <2>2 DEF SceneLength, SceneRecords
  <2>4. KeyframeCount(SceneLength') \in 1..SceneLength'
    BY <1>6, <2>3, KeyframeCountIs
  <2>5. KeyframeCount(SceneLength)' = KeyframeCount(SceneLength')
    BY <1>1 DEF KeyframeCount
  <2> QED
    BY <1>1, <2>3, <2>4, <2>5 DEF Selecting
<1> QED
  BY <1>1, <1>6, <1>7, <1>8, <1>9, <1>10 DEF SpreadInv

LEMMA SpreadPreserved == SpreadInv /\ ScenesInv' /\ [Next]_vars => SpreadInv'
<1> SUFFICES ASSUME SpreadInv, ScenesInv', [Next]_vars PROVE SpreadInv'
  OBVIOUS
<1>1. CASE TakeScene \/ WholeVideo \/ WidenScenes
  BY <1>1, DetectionSpreads DEF TakeScene, WholeVideo, WidenScenes
<1>2. CASE SelectKeyframe
  BY <1>2, SelectKeyframeSpreads
<1>3. CASE EndScene
  BY <1>3, EndSceneSpreads
<1>4. CASE Finish
  <2>1. /\ scenes' = scenes /\ keyframes' = keyframes /\ selected' = selected /\ index' = index /\ cap' = cap
        /\ pc = "keyframes" /\ pc' = "done" /\ ~ScenesLeft /\ ~ScenesLeft'
    BY <1>4 DEF Finish, detectVars, keyframeVars, SpreadInv, ScenesInv, ScenesLeft
  <2>2. \A k \in DOMAIN keyframes : AllPlaced(keyframes[k], scenes[k])'
    BY <2>1 DEF SpreadInv, AllPlaced, Placed, KeyframeCount
  <2> QED
    BY <2>1, <2>2 DEF SpreadInv
<1>5. CASE UNCHANGED vars
  <2>1. /\ scenes' = scenes /\ keyframes' = keyframes /\ selected' = selected /\ index' = index /\ cap' = cap
        /\ pc' = pc
    BY <1>5 DEF vars, detectVars, keyframeVars
  <2>2. \A k \in DOMAIN keyframes : AllPlaced(keyframes[k], scenes[k])'
    BY <2>1 DEF SpreadInv, AllPlaced, Placed, KeyframeCount
  <2>3. (ScenesLeft' <=> ScenesLeft) /\ (Selecting' <=> Selecting)
    BY <2>1 DEF ScenesLeft, Selecting, Scene, SceneLength, Placed, KeyframeCount
  <2> QED
    BY <2>1, <2>2, <2>3 DEF SpreadInv
<1> QED
  BY <1>1, <1>2, <1>3, <1>4, <1>5 DEF Next

\* The number of started intervals is the only one that fits.
LEMMA OneWanted ==
    ASSUME NEW length \in Nat \ {0}
    PROVE  (CHOOSE m \in 1..length : /\ m * KEYFRAME_INTERVAL_FRAMES >= length
                                     /\ (m - 1) * KEYFRAME_INTERVAL_FRAMES < length) = Started(length)
<1>1. /\ Started(length) \in 1..length
      /\ Started(length) * 60 >= length /\ (Started(length) - 1) * 60 < length
  BY StartedIs DEF KEYFRAME_INTERVAL_FRAMES
<1>2. ASSUME NEW m \in 1..length, m * 60 >= length, (m - 1) * 60 < length PROVE m = Started(length)
  <2> DEFINE c == Started(length)
  <2> HIDE DEF c
  <2>1. c \in 1..length /\ c * 60 >= length /\ (c - 1) * 60 < length
    BY <1>1 DEF c
  <2>2. m = c
    BY <1>2, <2>1
  <2> QED
    BY <2>2 DEF c
<1> QED
  BY <1>1, <1>2 DEF KEYFRAME_INTERVAL_FRAMES

\* The marks of a scene are its keyframes between its ends.
LEMMA BetweenEnds ==
    ASSUME NEW x \in Nat, NEW s \in Seq(Nat), NEW y \in Nat, NEW t, t = <<x>> \o s \o <<y>>
    PROVE  /\ t \in Seq(Nat) /\ Len(t) = Len(s) + 2
           /\ t[1] = x /\ t[Len(s) + 2] = y
           /\ \A i \in 1..Len(s) : t[i + 1] = s[i]
<1> DEFINE d == <<x>> \o s
<1>1. /\ <<x>> \in Seq(Nat) /\ Len(<<x>>) = 1 /\ <<x>>[1] = x
      /\ <<y>> \in Seq(Nat) /\ Len(<<y>>) = 1 /\ <<y>>[1] = y /\ Len(s) \in Nat
  OBVIOUS
<1>2. d \in Seq(Nat) /\ Len(d) = Len(s) + 1
  BY <1>1, ConcatProperties
<1>3. d[1] = x
  BY <1>1, ConcatProperties
<1>4. ASSUME NEW i \in 1..Len(s) PROVE d[i + 1] = s[i]
  <2>1. i + 1 \in 1..(Len(<<x>>) + Len(s)) /\ ~(i + 1 <= Len(<<x>>)) /\ (i + 1) - Len(<<x>>) = i
    BY <1>1
  <2>2. d[i + 1] = s[(i + 1) - Len(<<x>>)]
    BY <1>1, <2>1, ConcatProperties
  <2> QED
    BY <2>1, <2>2
<1>5. t = d \o <<y>>
  OBVIOUS
<1> HIDE DEF d
<1>6. t \in Seq(Nat) /\ Len(t) = Len(s) + 2
  BY <1>1, <1>2, <1>5, ConcatProperties
<1>7. ASSUME NEW i \in 1..(Len(s) + 1) PROVE t[i] = d[i]
  <2>1. i \in 1..(Len(d) + Len(<<y>>)) /\ i <= Len(d)
    BY <1>1, <1>2
  <2> QED
    BY <1>1, <1>2, <1>5, <2>1, ConcatProperties
<1>8. t[Len(s) + 2] = y
  <2> DEFINE i == Len(s) + 2
  <2>1. i \in 1..(Len(d) + Len(<<y>>)) /\ ~(i <= Len(d)) /\ i - Len(d) = 1
    BY <1>1, <1>2
  <2> HIDE DEF i
  <2>2. t[i] = <<y>>[i - Len(d)]
    BY <1>1, <1>2, <1>5, <2>1, ConcatProperties
  <2> QED
    BY <1>1, <2>1, <2>2 DEF i
<1>9. 1 \in 1..(Len(s) + 1) /\ \A i \in 1..Len(s) : i + 1 \in 1..(Len(s) + 1)
  BY <1>1
<1> QED
  BY <1>3, <1>4, <1>6, <1>7, <1>8, <1>9

\* Keyframes near their marks are in order and cut the scene evenly.
LEMMA KeptIsSpread ==
    ASSUME NEW k \in DOMAIN scenes, scenes[k] \in SceneRecords, scenes[k].start < scenes[k].end,
           keyframes[k] \in Seq(Nat), cap \in Nat \ {0}, AllPlaced(keyframes[k], scenes[k])
    PROVE  /\ \A i, j \in DOMAIN keyframes[k] : i < j => keyframes[k][i] < keyframes[k][j]
           /\ \A g, h \in Gaps(k) : g - h <= 1
<1> DEFINE length == LengthOf(scenes[k])
           n == Len(keyframes[k])
           m == n + 1
           start == scenes[k].start
<1>0. scenes[k].start \in Nat /\ scenes[k].end \in Nat
  BY DEF SceneRecords
<1>1. length \in Nat \ {0} /\ start \in Nat /\ scenes[k].end = start + length
  BY DEF LengthOf, SceneRecords
<1>2. n = KeyframeCount(length)
  BY DEF AllPlaced
<1>3. n \in 1..length /\ m \in Nat \ {0} /\ (n >= 2 => length > m)
  <2>1. n \in 1..length /\ (n >= 2 => length > n + 1)
    <3> HIDE DEF n, length
    <3> QED
      BY <1>1, <1>2, KeyframeCountIs
  <2> HIDE DEF n, length
  <2> QED
    BY <1>1, <2>1
<1>4. ASSUME NEW i \in 1..n PROVE keyframes[k][i] \in Nat /\ Near(keyframes[k][i] - start, length, m, i)
  BY <1>2, <1>3 DEF AllPlaced, Placed
<1>5. ASSUME NEW i \in DOMAIN keyframes[k], NEW j \in DOMAIN keyframes[k], i < j
      PROVE  keyframes[k][i] < keyframes[k][j]
  <2> DEFINE x == keyframes[k][i] - start
             y == keyframes[k][j] - start
  <2>1. i \in 1..n /\ j \in 1..n
    OBVIOUS
  <2>2. /\ keyframes[k][i] \in Nat /\ keyframes[k][j] \in Nat
        /\ Near(x, length, m, i) /\ Near(y, length, m, j)
    BY <1>4, <2>1
  <2>3. x \in Int /\ y \in Int
    BY <1>1, <2>2
  <2> HIDE DEF length, n, x, y
  <2>4. i \in Nat /\ j \in Nat /\ length > m
    BY <1>3, <1>5, <2>1
  <2>5. x < y
    BY <1>1, <1>3, <1>5, <2>2, <2>3, <2>4, NearFurther
  <2> QED
    BY <1>1, <2>2, <2>5 DEF x, y
<1>6. /\ Marks(k) \in Seq(Nat) /\ Len(Marks(k)) = n + 2
      /\ Marks(k)[1] = start /\ Marks(k)[n + 2] = scenes[k].end
      /\ \A i \in 1..n : Marks(k)[i + 1] = keyframes[k][i]
  <2> DEFINE s == keyframes[k]
             end == scenes[k].end
             t == Marks(k)
  <2>1. s \in Seq(Nat) /\ end \in Nat /\ t = <<start>> \o s \o <<end>>
    BY <1>0 DEF Marks
  <2> HIDE DEF s, start, end, t
  <2>2. /\ t \in Seq(Nat) /\ Len(t) = Len(s) + 2
        /\ t[1] = start /\ t[Len(s) + 2] = end
        /\ \A i \in 1..Len(s) : t[i + 1] = s[i]
    BY <1>1, <2>1, BetweenEnds
  <2> QED
    BY <2>2 DEF s, end, t
<1> DEFINE u == [i \in 0..m |-> Marks(k)[i + 1] - start]
<1>7. u \in [0..m -> Int]
  <2> SUFFICES ASSUME NEW i \in 0..m PROVE Marks(k)[i + 1] - start \in Int
    OBVIOUS
  <2>1. i + 1 \in 1..(n + 2)
    BY <1>3
  <2>2. Marks(k)[i + 1] \in Nat
    BY <1>6, <2>1
  <2> HIDE DEF start
  <2> QED
    BY <1>1, <2>2
<1>8. ASSUME NEW i \in 0..m PROVE Near(u[i], length, m, i)
  <2>1. CASE i = 0
    <3>1. u[i] = 0
      BY <1>1, <1>6, <2>1
    <3> HIDE DEF length, n, u
    <3> QED
      BY <1>1, <1>3, <2>1, <3>1 DEF Near
  <2>2. CASE i \in 1..n
    <3>1. u[i] = keyframes[k][i] - start
      BY <1>6, <2>2
    <3> QED
      BY <1>4, <2>2, <3>1
  <2>3. CASE i = m
    <3>1. u[i] = length
      BY <1>1, <1>3, <1>6, <2>3
    <3>2. length * m = m * length /\ length * m \in Int
      <4> HIDE DEF length, n
      <4> QED
        BY <1>1, <1>3
    <3> HIDE DEF length, n, u
    <3> QED
      BY <1>1, <1>3, <2>3, <3>1, <3>2 DEF Near
  <2> QED
    BY <1>3, <2>1, <2>2, <2>3
<1>9. ASSUME NEW i \in 0..n, NEW j \in 0..n PROVE (u[i + 1] - u[i]) - (u[j + 1] - u[j]) <= 1
  <2>1. i \in 0..(m - 1) /\ j \in 0..(m - 1)
    BY <1>3
  <2> HIDE DEF u, length, n
  <2> QED
    BY <1>1, <1>3, <1>7, <1>8, <2>1, PartsAreEven
<1>10. ASSUME NEW g \in Gaps(k) PROVE \E i \in 0..n : g = u[i + 1] - u[i]
  <2>1. PICK p \in 1..(Len(Marks(k)) - 1) : g = Marks(k)[p + 1] - Marks(k)[p]
    BY DEF Gaps
  <2>2. p \in 1..(n + 1) /\ p - 1 \in 0..n /\ p - 1 \in 0..m /\ p \in 0..m
        /\ p \in DOMAIN Marks(k) /\ p + 1 \in DOMAIN Marks(k) /\ (p - 1) + 1 = p
    <3>1. DOMAIN Marks(k) = 1..(n + 2) /\ p \in 1..((n + 2) - 1)
      BY <1>6, <2>1
    <3> HIDE DEF n
    <3> QED
      BY <1>3, <3>1
  <2>3. Marks(k)[p] \in Nat /\ Marks(k)[p + 1] \in Nat
    <3>1. Marks(k) \in Seq(Nat)
      BY <1>6
    <3>2. p \in DOMAIN Marks(k) /\ p + 1 \in DOMAIN Marks(k)
      BY <2>2
    <3> QED
      BY <3>1, <3>2
  <2>4. u[p] = Marks(k)[p + 1] - start /\ u[p - 1] = Marks(k)[p] - start
    BY <2>2
  <2>5. g = u[(p - 1) + 1] - u[p - 1]
    BY <1>1, <2>1, <2>2, <2>3, <2>4
  <2> QED
    BY <2>2, <2>5
<1>11. ASSUME NEW g \in Gaps(k), NEW h \in Gaps(k) PROVE g - h <= 1
  BY <1>9, <1>10
<1> QED
  BY <1>5, <1>11

LEMMA SpreadInvSpreads == SpreadInv => KeyframesSpread
<1> SUFFICES ASSUME SpreadInv, NEW k \in DOMAIN keyframes
             PROVE  LET length == scenes[k].end - scenes[k].start
                        wanted == CHOOSE m \in 1..length : /\ m * KEYFRAME_INTERVAL_FRAMES >= length
                                                           /\ (m - 1) * KEYFRAME_INTERVAL_FRAMES < length
                    IN  /\ Len(keyframes[k]) = IF wanted < cap THEN wanted ELSE cap
                        /\ \A i \in DOMAIN keyframes[k] : keyframes[k][i] \in scenes[k].start..(scenes[k].end - 1)
                        /\ \A g, h \in Gaps(k) : g - h <= 1
                        /\ \A i, j \in DOMAIN keyframes[k] : i < j => keyframes[k][i] < keyframes[k][j]
  BY DEF KeyframesSpread
<1>1. /\ k \in DOMAIN scenes /\ scenes[k] \in SceneRecords /\ scenes[k].start < scenes[k].end
      /\ keyframes[k] \in Seq(Nat) /\ cap \in Nat \ {0} /\ AllPlaced(keyframes[k], scenes[k])
  BY DEF SpreadInv, ScenesInv, Filled
<1>2. LengthOf(scenes[k]) = scenes[k].end - scenes[k].start /\ LengthOf(scenes[k]) \in Nat \ {0}
  BY <1>1 DEF LengthOf, SceneRecords
<1>3. Len(keyframes[k]) = IF Started(LengthOf(scenes[k])) < cap THEN Started(LengthOf(scenes[k])) ELSE cap
  BY <1>1, <1>2, KeyframeCountIs DEF AllPlaced
<1>4. \A i \in DOMAIN keyframes[k] : keyframes[k][i] \in scenes[k].start..(scenes[k].end - 1)
  BY <1>1 DEF AllPlaced, Placed
<1> QED
  BY <1>1, <1>2, <1>3, <1>4, OneWanted, KeptIsSpread

\* A scene gets a keyframe per started interval, up to the cap: in it, in order
\* and evenly, whatever its length (select_initial_scene_keyframe_indexes).
THEOREM KeyframesAlwaysSpread == Spec => []KeyframesSpread
<1>1. SpreadInv /\ [Next]_vars => SpreadInv'
  BY ScenesInvKept, SpreadPreserved DEF SpreadInv
<1> QED
  BY InitSpreadInv, <1>1, SpreadInvSpreads, PTL DEF Spec

-----------------------------------------------------------------------------
(***************************************************************************)
(* Scene analysis.                                                         *)
(***************************************************************************)
Steps == {"waiting", "queued", "prepare", "check", "construct", "store",
          "invoke", "answered", "failed"}

Building(i) == step[i] \in {"construct", "store"}

(***************************************************************************)
(* The inductive invariant.  Only the calling thread ever builds a client, *)
(* while it analyses the first scene alone; before any other thread starts *)
(* the first scene has been answered, and an answered scene has traced     *)
(* through a client that is set.                                           *)
(***************************************************************************)
Traced(i) == step[i] \in {"invoke", "answered"} => client # "unset"

ClientsCounted ==
    built = IF client = "client" \/ \E i \in Scenes : step[i] = "store" THEN 1 ELSE 0

FirstAlone ==
    main = "first" => 1 \in Scenes /\ \A i \in Scenes : i # 1 => step[i] = "waiting"

\* Without a client no scene but the first is under way.
QuietWithoutClient ==
    client = "unset" /\ main # "first" => \A i \in Scenes : step[i] \in {"waiting", "failed"}

AnalysisInv ==
    /\ count \in Nat
    /\ enabled \in BOOLEAN
    /\ client \in {"unset", "none", "client"}
    /\ step \in [Scenes -> Steps]
    /\ built \in {0, 1}
    /\ from \in Nat
    /\ ClientsCounted
    /\ FirstAlone
    /\ QuietWithoutClient
    /\ \A i \in Scenes : Traced(i)
    /\ \A i \in Scenes : Building(i) => main = "first" /\ client = "unset"
    /\ main \in {"next", "collect", "leave"} => client # "unset"

\* Nothing is built before the first call.
LEMMA InitAnalysisInv == AnalysisInit => AnalysisInv
  BY ParametersAssumption DEF AnalysisInit, AnalysisInv, Scenes, Steps, Building, Traced, ClientsCounted, FirstAlone, QuietWithoutClient

\* One step of get_langfuse_client or of the model call, in any thread.
LEMMA AnalysePreserves == ASSUME NEW i \in Scenes, AnalysisInv, Analyse(i) PROVE AnalysisInv'
<1> USE DEF Scenes, Steps, Goto
<1>0. step \in [Scenes -> Steps] /\ count' = count /\ main' = main /\ from' = from /\ enabled' = enabled
  BY DEF AnalysisInv, Analyse, Prepare, CheckClient, Construct, Store, Answer, Raise
<1>1. CASE Prepare(i)
  BY <1>0, <1>1 DEF Prepare, AnalysisInv, Building, Traced, ClientsCounted, FirstAlone, QuietWithoutClient
<1>2. CASE CheckClient(i)
  BY <1>0, <1>2 DEF CheckClient, AnalysisInv, Building, Traced, ClientsCounted, FirstAlone, QuietWithoutClient
<1>3. CASE Construct(i)
  BY <1>0, <1>3 DEF Construct, AnalysisInv, Building, Traced, ClientsCounted, FirstAlone, QuietWithoutClient
<1>4. CASE Store(i)
  BY <1>0, <1>4 DEF Store, AnalysisInv, Building, Traced, ClientsCounted, FirstAlone, QuietWithoutClient
<1>5. CASE Answer(i)
  BY <1>0, <1>5 DEF Answer, AnalysisInv, Building, Traced, ClientsCounted, FirstAlone, QuietWithoutClient
<1>6. CASE Raise(i)
  BY <1>0, <1>6 DEF Raise, AnalysisInv, Building, Traced, ClientsCounted, FirstAlone, QuietWithoutClient
<1> QED
  BY <1>1, <1>2, <1>3, <1>4, <1>5, <1>6 DEF Analyse

\* At most one Langfuse client is ever built, however many threads trace
\* (get_langfuse_client, which has no lock, under analyze_initial_scenes).
THEOREM OneClientOnly == AnalysisSpec => []OneClient
<1>1. AnalysisInv /\ [AnalysisNext]_analysisVars => AnalysisInv'
  <2> SUFFICES ASSUME AnalysisInv, [AnalysisNext]_analysisVars PROVE AnalysisInv'
    OBVIOUS
  <2> USE DEF Scenes, Steps, Outside, Goto
  <2>1. ASSUME NEW i \in Scenes, Analyse(i) PROVE AnalysisInv'
    BY <2>1, AnalysePreserves
  <2>2. CASE Begin
    BY <2>2 DEF Begin, AnalysisInv, Building, Traced, ClientsCounted, FirstAlone, QuietWithoutClient
  <2>3. CASE TakeFirst
    BY <2>3 DEF TakeFirst, AnalysisInv, Building, Traced, ClientsCounted, FirstAlone, QuietWithoutClient
  <2>4. CASE FirstRaises
    BY <2>4 DEF FirstRaises, AnalysisInv, Building, Traced, ClientsCounted, FirstAlone, QuietWithoutClient
  <2>5. CASE SubmitBatch
    <3>1. Batch \subseteq Scenes
      BY ParametersAssumption DEF Batch, AnalysisInv
    <3> QED
      BY <2>5, <3>1 DEF SubmitBatch, AnalysisInv, Building, Traced, ClientsCounted, FirstAlone, QuietWithoutClient
  <2>6. ASSUME NEW i \in Scenes, PickUp(i) PROVE AnalysisInv'
    BY <2>6 DEF PickUp, AnalysisInv, Building, Traced, ClientsCounted, FirstAlone, QuietWithoutClient
  <2>7. CASE Collect \/ Leave \/ Return \/ EndBatch
    BY <2>7, ParametersAssumption
       DEF Collect, Leave, Return, EndBatch, AnalysisInv, Building, Traced, ClientsCounted, FirstAlone, QuietWithoutClient
  <2>8. CASE CollectRaises
    BY <2>8 DEF CollectRaises, AnalysisInv, Building, Traced, ClientsCounted, FirstAlone, QuietWithoutClient
  <2>9. CASE TraceAgent
    BY <2>9 DEF TraceAgent, AnalysisInv, Building, Traced, ClientsCounted, FirstAlone, QuietWithoutClient
  <2>10. CASE UNCHANGED analysisVars
    BY <2>10 DEF analysisVars, AnalysisInv, Building, Traced, ClientsCounted, FirstAlone, QuietWithoutClient
  <2> QED
    BY <2>1, <2>2, <2>3, <2>4, <2>5, <2>6, <2>7, <2>8, <2>9, <2>10 DEF AnalysisNext
<1>2. AnalysisInv => OneClient
  BY DEF AnalysisInv, OneClient
<1> QED
  BY InitAnalysisInv, <1>1, <1>2, PTL DEF AnalysisSpec

-----------------------------------------------------------------------------
(***************************************************************************)
(* What the calling thread has collected.                                  *)
(***************************************************************************)
\* The first scene that is not in the batches up to a number.
UpTo(n) == IF n < count THEN n ELSE count

InOrder == results \in Seq(Nat) /\ \A i \in 1..Len(results) : results[i] = i

\* The batches before this one are complete, of this one a beginning is there.
ResultsCollected ==
    /\ main = "first" => results = <<>>
    /\ main = "next" => Len(results) = UpTo(from)
    /\ main = "collect" => /\ from < count
                           /\ from <= Len(results) /\ Len(results) <= UpTo(from + BatchSize)
    /\ main = "done" => Len(results) = count

ResultsInv ==
    /\ count \in Nat /\ from \in Nat
    /\ main = "first" => count > 0
    /\ InOrder
    /\ ResultsCollected

\* A scene more in its place.
LEMMA AppendInOrder ==
    ASSUME InOrder, results' = Append(results, Len(results) + 1)
    PROVE  InOrder' /\ Len(results') = Len(results) + 1
  BY DEF InOrder

\* A returned analysis has every scene once and in order, whatever the size of the
\* last batch and the order in which the threads finish (analyze_initial_scenes,
\* executor.map).
THEOREM EverySceneAnalysed == AnalysisSpec => []EveryScene
<1>1. AnalysisInit => ResultsInv
  BY ParametersAssumption DEF AnalysisInit, ResultsInv, InOrder, ResultsCollected
<1>2. ResultsInv /\ [AnalysisNext]_analysisVars => ResultsInv'
  <2> SUFFICES ASSUME ResultsInv, [AnalysisNext]_analysisVars PROVE ResultsInv'
    OBVIOUS
  <2> USE ParametersAssumption DEF ResultsInv
  <2>1. CASE Begin
    BY <2>1 DEF Begin, InOrder, ResultsCollected, Outside, UpTo
  <2>2. CASE TakeFirst
    BY <2>2 DEF TakeFirst, InOrder, ResultsCollected, UpTo
  <2>3. CASE SubmitBatch
    BY <2>3 DEF SubmitBatch, InOrder, ResultsCollected, UpTo
  <2>4. CASE Collect
    <3>1. /\ main = "collect" /\ main' = main /\ from' = from /\ count' = count
          /\ Len(results) + 1 \in Batch
          /\ results' = Append(results, Len(results) + 1)
      BY <2>4 DEF Collect
    <3>2. InOrder' /\ Len(results') = Len(results) + 1
      BY <3>1, AppendInOrder
    <3>3. Len(results) + 1 <= UpTo(from + BatchSize)
      BY <3>1 DEF Batch, UpTo
    <3> QED
      BY <3>1, <3>2, <3>3 DEF ResultsCollected, UpTo, InOrder
  <2>5. CASE EndBatch
    <3>1. Len(results) >= UpTo(from + BatchSize)
      BY <2>5 DEF EndBatch, ResultsCollected, Batch, UpTo, InOrder
    <3> QED
      BY <3>1, <2>5 DEF EndBatch, InOrder, ResultsCollected, UpTo
  <2>6. CASE Return
    BY <2>6 DEF Return, InOrder, ResultsCollected, UpTo
  <2>7. CASE FirstRaises \/ CollectRaises \/ Leave
    BY <2>7 DEF FirstRaises, CollectRaises, Leave, InOrder, ResultsCollected
  <2>8. CASE TraceAgent
    BY <2>8 DEF TraceAgent, InOrder, ResultsCollected, UpTo
  <2>9. ASSUME NEW i \in Scenes, PickUp(i) \/ Analyse(i) PROVE ResultsInv'
    <3>1. UNCHANGED <<count, main, from, results>>
      BY <2>9 DEF PickUp, Analyse, Prepare, CheckClient, Construct, Store, Answer, Raise
    <3> QED
      BY <3>1 DEF InOrder, ResultsCollected, UpTo
  <2>10. CASE UNCHANGED analysisVars
    BY <2>10 DEF analysisVars, InOrder, ResultsCollected, UpTo
  <2> QED
    BY <2>1, <2>2, <2>3, <2>4, <2>5, <2>6, <2>7, <2>8, <2>9, <2>10 DEF AnalysisNext
<1>3. ResultsInv => EveryScene
  BY DEF ResultsInv, InOrder, ResultsCollected, EveryScene, Scenes
<1> QED
  BY <1>1, <1>2, <1>3, PTL DEF AnalysisSpec

-----------------------------------------------------------------------------
(***************************************************************************)
(* Crops.                                                                  *)
(***************************************************************************)
\* The padding of a box is a pixel or more, cut off at both edges of the
\* picture (crops.py:140-157).
LEMMA PadBoxShows ==
    ASSUME NEW b \in Nat \X Nat, b[1] < b[2], b[2] <= ImageSize
    PROVE  LET c == PadBox(b)
           IN  /\ 0 <= c[1] /\ c[1] < c[2] /\ c[2] <= ImageSize
               /\ c[1] < b[1] \/ (c[1] = 0 /\ b[1] = 0)
               /\ b[2] < c[2] \/ (c[2] = ImageSize /\ b[2] = ImageSize)
<1> DEFINE pad == LargerOf(RoundedTenth(LargerOf(b[2] - b[1], 1)), 1)
<1>1. /\ b[1] \in Nat /\ b[2] \in Nat /\ ImageSize \in Nat
  BY IdentityAssumption
<1>2. LargerOf(b[2] - b[1], 1) \in Nat
  BY <1>1 DEF LargerOf
<1>3. \A n \in Nat : RoundedTenth(n) \in Int
  BY DEF RoundedTenth
<1>4. pad \in Int /\ pad >= 1
  <2>1. RoundedTenth(LargerOf(b[2] - b[1], 1)) \in Int
    BY <1>2, <1>3
  <2> QED
    BY <2>1 DEF LargerOf
<1>5. PadBox(b) = <<LargerOf(b[1] - pad, 0), SmallerOf(b[2] + pad, ImageSize)>>
  BY DEF PadBox
<1> HIDE DEF pad
<1> QED
  BY <1>1, <1>4, <1>5 DEF LargerOf, SmallerOf

CropsInv ==
    /\ tracks \in TrackLists
    /\ identityStage # "crop" => crops = [t \in DOMAIN tracks |-> {PadBox(b) : b \in tracks[t].boxes}]

\* A crop shows its box with a margin and nothing outside the picture
\* (crop_tracks), and no later stage changes it.
THEOREM CropsAlwaysShow == IdentitySpec => []CropsShowTheirTracks
<1>1. IdentityInit => CropsInv
  BY DEF IdentityInit, CropsInv
<1>2. CropsInv /\ [IdentityNext]_identityVars => CropsInv'
  <2> SUFFICES ASSUME CropsInv, [IdentityNext]_identityVars PROVE CropsInv'
    OBVIOUS
  <2>1. CASE CropTracks
    BY <2>1 DEF CropsInv, CropTracks, PadBox
  <2>2. CASE BuildIdentity \/ BuildSources \/ InterpretSources \/ GroupEvents \/ RouteGroups \/ UNCHANGED identityVars
    <3>1. /\ UNCHANGED <<tracks, crops>>
          /\ identityStage = "crop" => identityStage' = "crop"
      BY <2>2 DEF BuildIdentity, BuildSources, InterpretSources, GroupEvents, RouteGroups, identityVars
    <3> QED
      BY <3>1 DEF CropsInv, PadBox
  <2> QED
    BY <2>1, <2>2 DEF IdentityNext
<1>3. CropsInv => CropsShowTheirTracks
  <2> SUFFICES ASSUME CropsInv, identityStage # "crop", NEW t \in DOMAIN tracks
               PROVE  /\ \A c \in crops[t] : 0 <= c[1] /\ c[1] < c[2] /\ c[2] <= ImageSize
                      /\ \A b \in tracks[t].boxes : \E c \in crops[t] :
                            /\ c[1] < b[1] \/ (c[1] = 0 /\ b[1] = 0)
                            /\ b[2] < c[2] \/ (c[2] = ImageSize /\ b[2] = ImageSize)
    BY DEF CropsShowTheirTracks
  <2>1. crops[t] = {PadBox(b) : b \in tracks[t].boxes}
    BY DEF CropsInv
  <2>2. \A b \in tracks[t].boxes : b \in Nat \X Nat /\ b[1] < b[2] /\ b[2] <= ImageSize
    <3>1. tracks \in Seq(ExtractedTracks)
      BY IdentityAssumption DEF CropsInv
    <3>2. tracks[t] \in ExtractedTracks
      BY <3>1
    <3>3. tracks[t].boxes \subseteq Nat \X Nat
      BY <3>2 DEF ExtractedTracks
    <3>4. \A b \in tracks[t].boxes : b[1] < b[2] /\ b[2] <= ImageSize
      BY IdentityAssumption DEF CropsInv
    <3> QED
      BY <3>3, <3>4
  <2>3. ASSUME NEW b \in tracks[t].boxes
        PROVE  /\ PadBox(b) \in crops[t]
               /\ 0 <= PadBox(b)[1] /\ PadBox(b)[1] < PadBox(b)[2] /\ PadBox(b)[2] <= ImageSize
               /\ PadBox(b)[1] < b[1] \/ (PadBox(b)[1] = 0 /\ b[1] = 0)
               /\ b[2] < PadBox(b)[2] \/ (PadBox(b)[2] = ImageSize /\ b[2] = ImageSize)
    BY <2>1, <2>2, PadBoxShows
  <2> QED
    BY <2>1, <2>3
<1> QED
  BY <1>1, <1>2, <1>3, PTL DEF IdentitySpec

-----------------------------------------------------------------------------
(***************************************************************************)
(* Proposal and grounding.                                                 *)
(***************************************************************************)
Clean == {l \in Labels : Normal[l] = l} \ {Blank}

LEMMA NormalisedIsClean ==
    ASSUME NEW L \in SUBSET Labels
    PROVE  /\ Normalised(L) \subseteq Clean
           /\ \A l \in L : Normal[l] # Blank => Normal[l] \in Normalised(L)
           /\ \A l \in L : l \in Clean => l \in Normalised(L)
  BY LabelsAssumption DEF Normalised, Clean

LEMMA ScoresBounded ==
    ASSUME NEW scores \in ScoreTables, NEW l \in Labels
    PROVE  /\ scores[l].frame \in Int /\ scores[l].frame <= 1000
           /\ scores[l].motion \in Int /\ scores[l].motion <= 1000
<1> DEFINE f == scores[l].frame
           m == scores[l].motion
<1>1. scores \in [Labels -> [frame : 0..1000, motion : 0..1000]]
  BY AnswersAssumption
<1>2. scores[l] \in [frame : 0..1000, motion : 0..1000]
  BY <1>1
<1>3. f \in 0..1000 /\ m \in 0..1000
  BY <1>2
<1> HIDE DEF f, m
<1>4. f \in Int /\ f <= 1000 /\ m \in Int /\ m <= 1000
  BY <1>3
<1> QED
  BY <1>4 DEF f, m

LEMMA BestScoreType ==
    ASSUME NEW card, card.name \in Labels, card.aliases \in SUBSET Labels,
           NEW scores \in ScoreTables, NEW moving \in BOOLEAN
    PROVE  BestScore(card, scores, moving) \in Int
<1> DEFINE of(l) == {scores[l].frame} \cup (IF moving THEN {scores[l].motion} ELSE {})
           all == {0} \cup UNION {of(l) : l \in Normalised(NamesOf(card))}
<1>1. Normalised(NamesOf(card)) \subseteq Labels
  BY NormalisedIsClean DEF NamesOf, Clean
<1>2. \A l \in Labels : /\ scores[l].frame \in Int /\ scores[l].frame <= 1000
                         /\ scores[l].motion \in Int /\ scores[l].motion <= 1000
  BY ScoresBounded
<1>3. ASSUME NEW l \in Labels, NEW s \in of(l) PROVE s \in Int /\ s <= 1000
  BY <1>2, <1>3
<1>4. all \subseteq Int /\ all # {} /\ \A s \in all : s <= 1000
  <2> HIDE DEF of
  <2> QED
    BY <1>1, <1>3
<1>5. \E s \in all : \A t \in all : s >= t
  <2> DEFINE b == 1000
  <2>1. b \in Int /\ all \subseteq Int /\ all # {} /\ \A s \in all : s <= b
    BY <1>4
  <2> HIDE DEF all, b
  <2> QED
    BY <2>1, GreatestBelow
<1>6. BestScore(card, scores, moving) = CHOOSE s \in all : \A t \in all : s >= t
  BY DEF BestScore
<1> HIDE DEF all
<1> QED
  BY <1>4, <1>5, <1>6

\* Of the cards that a region or a score backs, each is kept unless three are
\* (_fallback_grounded_source_cards).
LEMMA FallbackKeeps ==
    ASSUME NEW p \in WindowProposals, NEW scores \in ScoreTables, NEW moving \in BOOLEAN,
           NEW g, g.cards = FallbackCards(p, scores, moving),
           NEW c \in DOMAIN p.cards, p.cards[c].refs # {}
    PROVE  c \in Kept(p, g) \/ Cardinality(Kept(p, g)) >= MaxFallbackCards
<1> DEFINE promoted == Promoted(p.cards, scores, moving)
           worth(i) == Worth(p.cards[i], scores, moving)
           ahead == [i \in promoted |-> Before(i, promoted, p.cards, scores, moving)]
<1>1. p.cards \in Seq(SourceCards)
  BY DEF WindowProposals
<1>2. /\ promoted \subseteq DOMAIN p.cards /\ IsFiniteSet(promoted) /\ c \in promoted
      /\ IsFiniteSet(DOMAIN p.cards)
  <2>1. promoted \subseteq DOMAIN p.cards
    BY DEF Promoted
  <2>2. IsFiniteSet(DOMAIN p.cards)
    <3> DEFINE n == Len(p.cards)
    <3>1. n \in Int /\ 1 \in Int /\ DOMAIN p.cards = 1..n
      BY <1>1
    <3> HIDE DEF n
    <3>2. IsFiniteSet(1..n)
      BY <3>1, FS_Interval
    <3> QED
      BY <3>1, <3>2
  <2>3. c \in promoted
    BY DEF Promoted
  <2> QED
    BY <2>1, <2>2, <2>3, FS_Subset
<1>3. \A i \in promoted : worth(i) \in Int
  <2> SUFFICES ASSUME NEW i \in promoted PROVE worth(i) \in Int
    OBVIOUS
  <2>1. p.cards[i] \in SourceCards
    BY <1>1, <1>2
  <2>2. BestScore(p.cards[i], scores, moving) \in Int
    BY <2>1, BestScoreType DEF SourceCards
  <2> DEFINE best == BestScore(p.cards[i], scores, moving)
             confidence == p.cards[i].confidence
  <2>3. confidence \in Int
    <3>1. confidence \in 0..1000
      BY <2>1 DEF SourceCards
    <3> HIDE DEF confidence
    <3> QED
      BY <3>1
  <2>4. worth(i) = IF best > 0 THEN best ELSE confidence
    BY DEF Worth
  <2> HIDE DEF worth, best, confidence
  <2>5. (IF best > 0 THEN best ELSE confidence) \in {best, confidence}
    OBVIOUS
  <2> QED
    BY <2>2, <2>3, <2>4, <2>5 DEF best
<1>4. \A i \in promoted :
         ahead[i] = {j \in promoted : worth(j) > worth(i) \/ (worth(j) = worth(i) /\ j < i)}
  BY DEF Before
<1>5. promoted \subseteq Int
  BY <1>1, <1>2
<1> HIDE DEF promoted, worth
<1>6. ahead \in [promoted -> SUBSET promoted]
  BY <1>4
<1>7. ASSUME NEW i \in promoted, NEW j \in ahead[i]
      PROVE  j \notin ahead[j] /\ ahead[j] \subseteq ahead[i]
  <2>1. j \in promoted /\ (worth(j) > worth(i) \/ (worth(j) = worth(i) /\ j < i))
    BY <1>4, <1>7
  <2>2. j \notin ahead[j]
    BY <1>3, <1>4, <1>5, <2>1
  <2>3. ASSUME NEW k \in ahead[j] PROVE k \in ahead[i]
    <3>1. k \in promoted /\ (worth(k) > worth(j) \/ (worth(k) = worth(j) /\ k < j))
      BY <1>4, <2>1, <2>3
    <3>2. worth(k) > worth(i) \/ (worth(k) = worth(i) /\ k < i)
      BY <1>3, <1>5, <2>1, <3>1
    <3> QED
      BY <1>4, <3>1, <3>2
  <2> QED
    BY <2>2, <2>3
\* The first of a part of them has all that come before it outside the part.
<1>8. ASSUME NEW S \in SUBSET promoted, S # {}
      PROVE  \E i \in S : ahead[i] \cap S = {}
  <2> DEFINE inside == [i \in S |-> ahead[i] \cap S]
  <2>1. IsFiniteSet(S)
    BY <1>2, <1>8, FS_Subset
  <2>2. inside \in [S -> SUBSET S]
    OBVIOUS
  <2>3. \A i \in S : \A j \in inside[i] : j \notin inside[j] /\ inside[j] \subseteq inside[i]
    BY <1>7
  <2> HIDE DEF inside, ahead
  <2>4. \E i \in S : inside[i] = {}
    BY <1>8, <2>1, <2>2, <2>3, FirstInOrder
  <2> QED
    BY <2>4 DEF inside
<1> DEFINE kept == Kept(p, g)
\* Whatever comes first, after one other or after two others is kept.
<1>9. ASSUME NEW i \in promoted, NEW j, NEW k, ahead[i] \subseteq {j, k} PROVE i \in kept
  <2>1. IsFiniteSet({j, k}) /\ Cardinality({j, k}) <= 2
    <3>1. IsFiniteSet({j}) /\ Cardinality({j}) = 1
      BY FS_Singleton
    <3>2. /\ IsFiniteSet({j} \cup {k})
          /\ Cardinality({j} \cup {k}) = IF k \in {j} THEN Cardinality({j})
                                                    ELSE Cardinality({j}) + 1
      BY <3>1, FS_AddElement, Zenon
    <3>3. {j, k} = {j} \cup {k}
      OBVIOUS
    <3> QED
      BY <3>1, <3>2, <3>3
  <2>2. Cardinality(ahead[i]) <= 2
    <3>1. IsFiniteSet(ahead[i]) /\ Cardinality(ahead[i]) <= Cardinality({j, k})
      BY <1>9, <2>1, FS_Subset
    <3>2. Cardinality(ahead[i]) \in Nat /\ Cardinality({j, k}) \in Nat
      BY <2>1, <3>1, FS_CardinalityType
    <3> HIDE DEF ahead
    <3> QED
      BY <2>1, <3>1, <3>2
  <2>3. Cardinality(Before(i, promoted, p.cards, scores, moving)) < MaxFallbackCards
    <3>1. Cardinality(ahead[i]) \in Nat
      BY <1>9, <2>1, FS_Subset, FS_CardinalityType
    <3>2. ahead[i] = Before(i, promoted, p.cards, scores, moving)
      OBVIOUS
    <3> HIDE DEF ahead
    <3> QED
      BY <2>2, <3>1, <3>2 DEF MaxFallbackCards
  <2>4. FallbackCard(p.cards[i]) \in g.cards
    BY <2>3 DEF FallbackCards, promoted
  <2> QED
    BY <1>2, <2>4 DEF Kept
<1> SUFFICES ASSUME c \notin kept PROVE Cardinality(kept) >= MaxFallbackCards
  OBVIOUS
<1> HIDE DEF ahead, kept
<1>10. PICK i \in promoted : ahead[i] = {}
  <2>1. \E i \in promoted : ahead[i] \cap promoted = {}
    BY <1>2, <1>8
  <2> QED
    BY <1>6, <2>1
<1>11. i \in kept
  BY <1>9, <1>10
<1>12. PICK j \in promoted \ {i} : ahead[j] \subseteq {i}
  <2>1. promoted \ {i} \in SUBSET promoted /\ promoted \ {i} # {}
    BY <1>2, <1>11
  <2>2. \E j \in promoted \ {i} : ahead[j] \cap (promoted \ {i}) = {}
    BY <1>8, <2>1
  <2> QED
    BY <1>6, <2>2
<1>13. j \in kept
  BY <1>9, <1>12
<1>14. PICK k \in promoted \ {i, j} : ahead[k] \subseteq {i, j}
  <2>1. promoted \ {i, j} \in SUBSET promoted /\ promoted \ {i, j} # {}
    BY <1>2, <1>11, <1>13
  <2>2. \E k \in promoted \ {i, j} : ahead[k] \cap (promoted \ {i, j}) = {}
    BY <1>8, <2>1
  <2> QED
    BY <1>6, <2>2
<1>15. k \in kept
  BY <1>9, <1>14
<1>16. Cardinality({i, j, k}) = 3
  <2>1. {i, j, k} = {i, j} \cup {k} /\ {i, j} = {i} \cup {j}
    OBVIOUS
  <2>2. Cardinality({i}) = 1 /\ IsFiniteSet({i})
    BY FS_Singleton
  <2>3. /\ IsFiniteSet({i} \cup {j})
        /\ Cardinality({i} \cup {j}) = IF j \in {i} THEN Cardinality({i})
                                                  ELSE Cardinality({i}) + 1
    BY <2>2, FS_AddElement, Zenon
  <2>4. IsFiniteSet({i, j}) /\ Cardinality({i, j}) = 2
    BY <1>12, <2>1, <2>2, <2>3
  <2>5. Cardinality({i, j} \cup {k}) = IF k \in {i, j} THEN Cardinality({i, j})
                                                     ELSE Cardinality({i, j}) + 1
    BY <2>4, FS_AddElement, Zenon
  <2> QED
    BY <1>14, <2>1, <2>4, <2>5
<1>17. IsFiniteSet(kept) /\ {i, j, k} \subseteq kept
  BY <1>2, <1>11, <1>13, <1>15, FS_Subset DEF kept, Kept
<1>18. Cardinality({i, j, k}) <= Cardinality(kept) /\ Cardinality(kept) \in Nat
  BY <1>17, FS_Subset, FS_CardinalityType
<1> QED
  BY <1>16, <1>18 DEF MaxFallbackCards

(***************************************************************************)
(* What the grounding of a window holds.                                   *)
(***************************************************************************)
GroundingRecords ==
    [cards : SUBSET GroundedCards, seeds : SUBSET [region : Int, hint : Labels],
     prompts : SUBSET Clean, unresolved : SUBSET Labels, answered : BOOLEAN]

\* Seeds, cards and prompts of one window belong together.
SeedsFit(g, w) ==
    /\ \A s \in g.seeds : /\ s.region \in 0..(regions[w] - 1)
                          /\ s.hint # Blank => s.hint \in g.prompts
    /\ \A c \in g.cards : /\ PromptOf(c) \in g.prompts \cup {Blank}
                          /\ \A r \in c.refs : r \in 0..(regions[w] - 1) =>
                                \E s \in g.seeds : s.region = r /\ s.hint = PromptOf(c)

\* Without an answer no phrase is lost, and a card with a region only to three
\* others.
NothingLost(g, w) ==
    ~g.answered =>
        /\ CandidatePhrases(proposals[w]) \subseteq g.unresolved
        /\ \A i \in DOMAIN proposals[w].cards : proposals[w].cards[i].refs # {} =>
              i \in Kept(proposals[w], g) \/ Cardinality(Kept(proposals[w], g)) >= MaxFallbackCards

GroundedRight(g, w) ==
    g \in GroundingRecords /\ SeedsFit(g, w) /\ NothingLost(g, w)

LEMMA PromptIsClean ==
    ASSUME NEW c \in GroundedCards
    PROVE  PromptOf(c) \in Labels /\ (PromptOf(c) # Blank => PromptOf(c) \in Clean)
<1>1. (IF c.prompt \in {None, Blank} THEN c.name ELSE c.prompt) \in Labels
  BY DEF GroundedCards
<1> QED
  BY <1>1, LabelsAssumption DEF PromptOf, Clean

LEMMA PromptsAreClean ==
    ASSUME NEW cards \in SUBSET GroundedCards
    PROVE  /\ PromptsOf(cards) \subseteq Clean
           /\ \A c \in cards : PromptOf(c) \in PromptsOf(cards) \cup {Blank}
  BY PromptIsClean DEF PromptsOf

LEMMA SeedIs ==
    ASSUME NEW cards, NEW w, NEW s
    PROVE  s \in SeedsOf(cards, w) <=>
             \E c \in cards : \E r \in c.refs \cap (0..(regions[w] - 1)) :
                s = [region |-> r, hint |-> PromptOf(c)]
  BY DEF SeedsOf

\* Whatever the prompts of the cards are joined with, seeds and cards fit.
LEMMA GroundingFits ==
    ASSUME NEW cards \in SUBSET GroundedCards, NEW w, NEW prompts \in SUBSET Clean,
           PromptsOf(cards) \subseteq prompts,
           NEW unresolved \in SUBSET Labels, NEW answered \in BOOLEAN
    PROVE  LET g == Grounding(cards, prompts, unresolved, answered, w)
           IN  g \in GroundingRecords /\ SeedsFit(g, w)
<1> DEFINE g == Grounding(cards, prompts, unresolved, answered, w)
<1>1. /\ g.cards = cards /\ g.seeds = SeedsOf(cards, w) /\ g.prompts = prompts
      /\ g = [cards |-> cards, seeds |-> SeedsOf(cards, w), prompts |-> prompts,
              unresolved |-> unresolved, answered |-> answered]
  BY DEF Grounding
<1>2. ASSUME NEW s \in SeedsOf(cards, w)
      PROVE  /\ s \in [region : Int, hint : Labels]
             /\ s.region \in 0..(regions[w] - 1)
             /\ s.hint # Blank => s.hint \in prompts
  <2>1. PICK c \in cards : \E r \in c.refs \cap (0..(regions[w] - 1)) :
                              s = [region |-> r, hint |-> PromptOf(c)]
    BY <1>2, SeedIs
  <2>2. PICK r \in c.refs \cap (0..(regions[w] - 1)) : s = [region |-> r, hint |-> PromptOf(c)]
    BY <2>1
  <2>3. c \in GroundedCards /\ r \in Int
    BY DEF GroundedCards
  <2> QED
    BY <2>2, <2>3, PromptIsClean, PromptsAreClean
<1>3. ASSUME NEW c \in cards
      PROVE  /\ PromptOf(c) \in prompts \cup {Blank}
             /\ \A r \in c.refs : r \in 0..(regions[w] - 1) =>
                   \E s \in SeedsOf(cards, w) : s.region = r /\ s.hint = PromptOf(c)
  <2>1. PromptOf(c) \in prompts \cup {Blank}
    BY PromptsAreClean
  <2>2. ASSUME NEW r \in c.refs, r \in 0..(regions[w] - 1)
        PROVE  \E s \in SeedsOf(cards, w) : s.region = r /\ s.hint = PromptOf(c)
    <3>1. [region |-> r, hint |-> PromptOf(c)] \in SeedsOf(cards, w)
      BY <2>2, SeedIs
    <3> QED
      BY <3>1
  <2> QED
    BY <2>1, <2>2
<1> HIDE DEF g
<1>4. g \in GroundingRecords
  BY <1>1, <1>2 DEF GroundingRecords
<1>5. SeedsFit(g, w)
  BY <1>1, <1>2, <1>3 DEF SeedsFit
<1> QED
  BY <1>4, <1>5 DEF g

\* One window, grounded by the model or by the fallback
\* (GeminiProposalGrounder.ground).
LEMMA WindowIsGroundedRight ==
    ASSUME NEW w, proposals[w] \in WindowProposals, regions[w] \in Nat,
           NEW scores \in ScoreTables, NEW payload \in Payloads \cup {None}
    PROVE  GroundedRight(Grounded(proposals[w], w, scores, payload), w)
<1> DEFINE p == proposals[w]
           moving == regions[w] > 0
           fallback == FallbackCards(p, scores, moving)
           cards == IF payload = None \/ payload.cards = {} THEN fallback ELSE payload.cards
           phrases == CandidatePhrases(p)
           g == Grounded(p, w, scores, payload)
<1>1. fallback \in SUBSET GroundedCards
  <2> SUFFICES ASSUME NEW i \in DOMAIN p.cards
               PROVE  FallbackCard(p.cards[i]) \in GroundedCards
    BY DEF FallbackCards, Promoted
  <2>1. p.cards \in Seq(SourceCards)
    BY DEF WindowProposals
  <2>2. p.cards[i] \in SourceCards
    BY <2>1
  <2> QED
    BY <2>2 DEF SourceCards, GroundedCards, FallbackCard
<1>2. payload # None => payload \in [cards : SUBSET GroundedCards, prompts : SUBSET Labels, unresolved : SUBSET Labels]
  BY AnswersAssumption
<1>3. cards \in SUBSET GroundedCards
  BY <1>1, <1>2
<1>4. phrases \in SUBSET Labels
  <2> DEFINE written == (UNION {NamesOf(c) : c \in Range(p.cards)}) \cup p.visible \cup p.background \cup p.cues \cup p.uncertain
  <2>1. p \in WindowProposals
    OBVIOUS
  <2>2. p.cards \in Seq(SourceCards)
    BY <2>1 DEF WindowProposals
  <2>3. \A c \in Range(p.cards) : NamesOf(c) \subseteq Labels
    <3> SUFFICES ASSUME NEW i \in DOMAIN p.cards PROVE NamesOf(p.cards[i]) \subseteq Labels
      BY DEF Range
    <3>1. p.cards[i] \in SourceCards
      BY <2>2
    <3> QED
      BY <3>1 DEF SourceCards, NamesOf
  <2>4. UNION {NamesOf(c) : c \in Range(p.cards)} \subseteq Labels
    BY <2>3
  <2>5. written \in SUBSET Labels
    <3>1. /\ p.visible \subseteq Labels /\ p.background \subseteq Labels
          /\ p.cues \subseteq Labels /\ p.uncertain \subseteq Labels
      BY <2>1 DEF WindowProposals
    <3> QED
      BY <2>4, <3>1
  <2>6. phrases = Normalised(written)
    BY DEF CandidatePhrases
  <2> HIDE DEF written, phrases
  <2> QED
    BY <2>5, <2>6, NormalisedIsClean DEF Clean
<1>5. \A h : h.cards = fallback =>
         \A i \in DOMAIN p.cards : p.cards[i].refs # {} =>
            i \in Kept(p, h) \/ Cardinality(Kept(p, h)) >= MaxFallbackCards
  <2>1. p \in WindowProposals /\ moving \in BOOLEAN
    OBVIOUS
  <2> HIDE DEF p, moving
  <2> QED
    BY <2>1, FallbackKeeps DEF fallback
<1> HIDE DEF fallback
<1>6. CASE phrases = {}
  <2>1. g = NothingToGround(p)
    BY <1>6 DEF Grounded
  <2> HIDE DEF g
  <2>2. g \in GroundingRecords /\ g.answered /\ g.cards = {} /\ g.seeds = {}
    BY <2>1 DEF NothingToGround, GroundingRecords
  <2>3. GroundedRight(g, w)
    BY <2>2 DEF GroundedRight, SeedsFit, NothingLost
  <2> QED
    BY <2>3 DEF g
<1>7. CASE phrases # {} /\ payload = None
  <2>1. g = Grounding(cards, PromptsOf(cards), phrases, FALSE, w) /\ cards = fallback
    BY <1>7 DEF Grounded, fallback
  <2> HIDE DEF g, cards, p, phrases
  <2>2. g \in GroundingRecords /\ SeedsFit(g, w)
    BY <1>3, <1>4, <2>1, GroundingFits, PromptsAreClean
  <2>3. g.unresolved = phrases /\ g.cards = fallback
    BY <2>1 DEF Grounding
  <2>4. NothingLost(g, w)
    BY <1>5, <2>3 DEF NothingLost, p, phrases
  <2> QED
    BY <2>2, <2>4 DEF GroundedRight, g, p
<1>8. CASE phrases # {} /\ payload # None
  <2> DEFINE prompts == Normalised(payload.prompts) \cup PromptsOf(cards)
             unresolved == Normalised(payload.unresolved)
  <2>1. g = Grounding(cards, prompts, unresolved, TRUE, w)
    BY <1>8 DEF Grounded, fallback
  <2>2. prompts \in SUBSET Clean /\ unresolved \in SUBSET Labels
    BY <1>2, <1>3, <1>8, NormalisedIsClean, PromptsAreClean DEF Clean
  <2>3. PromptsOf(cards) \subseteq prompts
    OBVIOUS
  <2> HIDE DEF g, cards, p, phrases, prompts, unresolved
  <2>4. g \in GroundingRecords /\ SeedsFit(g, w)
    BY <1>3, <2>1, <2>2, <2>3, GroundingFits
  <2>5. NothingLost(g, w)
    BY <2>1 DEF NothingLost, Grounding
  <2> QED
    BY <2>4, <2>5 DEF GroundedRight, g, p
<1> QED
  BY <1>6, <1>7, <1>8

\* Filling empty lists from the cards leaves a proposal a proposal.
LEMMA WithListsType ==
    ASSUME NEW answer \in Answers
    PROVE  WithLists(answer) \in WindowProposals /\ WithLists(answer).cards = answer.cards
<1>1. answer \in WindowProposals
  BY AnswersAssumption
<1>2. answer.cards \in Seq(SourceCards)
  BY <1>1 DEF WindowProposals
<1>3. \A c \in Range(answer.cards) : c.name \in Labels /\ c.cue \in Labels
  <2> SUFFICES ASSUME NEW i \in DOMAIN answer.cards
               PROVE  answer.cards[i].name \in Labels /\ answer.cards[i].cue \in Labels
    BY DEF Range
  <2>1. answer.cards[i] \in SourceCards
    BY <1>2
  <2> QED
    BY <2>1 DEF SourceCards
<1>4. ASSUME NEW list \in SUBSET Labels, NEW labels \in SUBSET Labels
      PROVE  FilledIn(list, labels) \in SUBSET Labels
  BY <1>4, NormalisedIsClean DEF FilledIn, Clean
<1> DEFINE cards == Range(answer.cards)
           visible == FilledIn(answer.visible, {c.name : c \in cards})
           background == FilledIn(answer.background, {c.name : c \in {d \in cards : d.ambience}})
           cues == FilledIn(answer.cues, {c.cue : c \in cards})
<1>5. visible \in SUBSET Labels /\ background \in SUBSET Labels /\ cues \in SUBSET Labels
  <2>1. /\ {c.name : c \in cards} \in SUBSET Labels
        /\ {c.name : c \in {d \in cards : d.ambience}} \in SUBSET Labels
        /\ {c.cue : c \in cards} \in SUBSET Labels
    BY <1>3
  <2>2. /\ answer.visible \in SUBSET Labels /\ answer.background \in SUBSET Labels
        /\ answer.cues \in SUBSET Labels
    BY <1>1 DEF WindowProposals
  <2> QED
    BY <1>4, <2>1, <2>2
<1>6. WithLists(answer) = [answer EXCEPT !.visible = visible, !.background = background, !.cues = cues]
  BY DEF WithLists
<1> HIDE DEF visible, background, cues
<1> QED
  BY <1>1, <1>5, <1>6 DEF WindowProposals

(***************************************************************************)
(* The inductive invariant of the stage.  The two loops go through the     *)
(* windows one after the other: those behind have what they can get, and   *)
(* what they could not get is remembered until it is reported.             *)
(***************************************************************************)
GroundingTypes ==
    /\ changes \in Changes
    /\ window \in 1..(Len(changes) + 1)
    /\ lastError \in BOOLEAN
    /\ groundingStage \in {"regions", "propose", "ground", "failed", "label", "labelled"}
    /\ groundingStage # "regions" => regions \in [Windows -> Nat]
    /\ DOMAIN proposals \subseteq Windows
    /\ \A w \in DOMAIN proposals : proposals[w] \in WindowProposals
    /\ DOMAIN grounded \subseteq DOMAIN proposals
    /\ groundingStage \in {"regions", "propose"} => DOMAIN grounded = {}

GroundedAll == \A w \in DOMAIN grounded : GroundedRight(grounded[w], w)

ProposalsTold ==
    \A w \in Windows : changes[w] # None /\ w \notin DOMAIN proposals =>
        /\ groundingStage = "propose" /\ w < window => lastError
        /\ groundingStage \in {"ground", "label", "labelled"} => "proposal" \in warnings

GroundingsTold ==
    \A w \in DOMAIN proposals :
        /\ groundingStage = "ground" /\ w < window => w \in DOMAIN grounded
        /\ groundingStage \in {"label", "labelled"} => w \in DOMAIN grounded
        /\ w \in DOMAIN grounded /\ ~grounded[w].answered =>
              /\ groundingStage = "ground" => lastError
              /\ groundingStage \in {"label", "labelled"} => "grounding" \in warnings

GroundingInv ==
    /\ GroundingTypes
    /\ GroundedAll
    /\ ProposalsTold
    /\ GroundingsTold
    /\ groundingStage = "regions" => window = 1
    /\ groundingStage = "labelled" => vocabulary = Normalised(Words)

\* Nothing is proposed yet.
LEMMA InitGroundingInv == GroundingInit => GroundingInv
<1> SUFFICES ASSUME GroundingInit PROVE GroundingInv
  OBVIOUS
<1>1. /\ changes \in Changes /\ Len(changes) \in Nat
      /\ window = 1 /\ lastError = FALSE /\ groundingStage = "regions"
      /\ DOMAIN proposals = {} /\ DOMAIN grounded = {}
  BY AnswersAssumption DEF GroundingInit
<1>2. GroundingTypes
  <2>1. window \in 1..(Len(changes) + 1)
    BY <1>1
  <2>3. lastError \in BOOLEAN
    BY <1>1
  <2>2. /\ \A w \in DOMAIN proposals : proposals[w] \in WindowProposals
        /\ DOMAIN grounded \subseteq DOMAIN proposals
        /\ DOMAIN proposals \subseteq Windows
    BY <1>1
  <2> QED
    BY <1>1, <2>1, <2>2, <2>3 DEF GroundingTypes
<1>3. GroundedAll /\ ProposalsTold /\ GroundingsTold
  BY <1>1 DEF GroundedAll, ProposalsTold, GroundingsTold
<1> QED
  BY <1>1, <1>2, <1>3 DEF GroundingInv

\* A window with a proposal more, the others unchanged.
LEMMA ProposeForWindowPreserves == GroundingInv /\ ProposeForWindow => GroundingInv'
<1> SUFFICES ASSUME GroundingInv, ProposeForWindow PROVE GroundingInv'
  OBVIOUS
<1>1. /\ changes' = changes /\ Windows' = Windows /\ Windows = 1..Len(changes) /\ Len(changes) \in Nat
      /\ window \in Windows /\ window' = window + 1
      /\ regions' = regions /\ grounded' = grounded /\ DOMAIN grounded = {}
      /\ groundingStage = "propose" /\ groundingStage' = "propose"
  BY AnswersAssumption DEF ProposeForWindow, Windows, GroundingInv, GroundingTypes
<1> DEFINE AllKept ==
             /\ DOMAIN proposals \subseteq DOMAIN proposals'
             /\ DOMAIN proposals' \subseteq Windows
             /\ \A w \in DOMAIN proposals' : proposals'[w] \in WindowProposals
           Told ==
             /\ lastError' \in BOOLEAN /\ (lastError => lastError')
             /\ changes[window] = None \/ window \in DOMAIN proposals' \/ lastError'
<1>2. AllKept /\ Told
  <2>0. DOMAIN proposals \subseteq Windows /\ lastError \in BOOLEAN
        /\ \A w \in DOMAIN proposals : proposals[w] \in WindowProposals
    BY DEF GroundingInv, GroundingTypes
  <2>1. CASE UNCHANGED proposals /\ UNCHANGED lastError /\ changes[window] = None
    BY <2>0, <2>1
  <2>2. CASE UNCHANGED proposals /\ lastError' = TRUE
    BY <2>0, <2>2
  <2>3. ASSUME NEW answer \in Answers, UNCHANGED lastError,
               proposals' = [w \in DOMAIN proposals \cup {window} |->
                                IF w = window THEN WithLists(answer) ELSE proposals[w]]
        PROVE  AllKept /\ Told
    <3>1. WithLists(answer) \in WindowProposals
      BY WithListsType
    <3>2. DOMAIN proposals' = DOMAIN proposals \cup {window}
      BY <2>3
    <3>3. AllKept
      BY <1>1, <2>0, <2>3, <3>1, <3>2
    <3>4. Told
      BY <2>0, <2>3, <3>2
    <3> QED
      BY <3>3, <3>4
  <2> HIDE DEF AllKept, Told
  <2>4. \/ UNCHANGED proposals /\ UNCHANGED lastError /\ changes[window] = None
        \/ UNCHANGED proposals /\ lastError' = TRUE
        \/ \E answer \in Answers :
              /\ UNCHANGED lastError
              /\ proposals' = [w \in DOMAIN proposals \cup {window} |->
                                 IF w = window THEN WithLists(answer) ELSE proposals[w]]
    BY DEF ProposeForWindow
  <2> QED
    BY <2>1, <2>2, <2>3, <2>4
<1>3. GroundingTypes'
  BY <1>1, <1>2 DEF GroundingInv, GroundingTypes
<1>4. ProposalsTold'
  <2> SUFFICES ASSUME NEW w \in Windows, changes[w] # None, w \notin DOMAIN proposals', w < window + 1
               PROVE  lastError'
    BY <1>1 DEF ProposalsTold
  <2>1. CASE w = window
    BY <1>2, <2>1
  <2>2. CASE w < window
    BY <1>1, <1>2, <2>2 DEF GroundingInv, ProposalsTold
  <2> QED
    BY <1>1, <2>1, <2>2
<1>5. GroundedAll' /\ GroundingsTold'
  BY <1>1 DEF GroundedAll, GroundingsTold
<1> QED
  BY <1>1, <1>3, <1>4, <1>5 DEF GroundingInv

\* A window is grounded, or has nothing to be grounded.
LEMMA GroundWindowPreserves == GroundingInv /\ GroundWindow => GroundingInv'
<1> SUFFICES ASSUME GroundingInv, GroundWindow PROVE GroundingInv'
  OBVIOUS
<1>1. /\ changes' = changes /\ Windows' = Windows /\ Windows = 1..Len(changes) /\ Len(changes) \in Nat
      /\ window \in Windows /\ window' = window + 1
      /\ regions' = regions /\ proposals' = proposals /\ warnings' = warnings
      /\ groundingStage = "ground" /\ groundingStage' = "ground"
      /\ regions \in [Windows -> Nat] /\ DOMAIN proposals \subseteq Windows
  BY AnswersAssumption DEF GroundWindow, Windows, GroundingInv, GroundingTypes
<1>2. /\ DOMAIN grounded' \subseteq DOMAIN proposals
      /\ DOMAIN grounded \subseteq DOMAIN grounded'
      /\ window \in DOMAIN proposals => window \in DOMAIN grounded'
      /\ \A w \in DOMAIN grounded' : /\ GroundedRight(grounded'[w], w)
                                     /\ ~grounded'[w].answered => lastError'
      /\ lastError' \in BOOLEAN
  <2>0. /\ DOMAIN grounded \subseteq DOMAIN proposals /\ lastError \in BOOLEAN
        /\ \A w \in DOMAIN grounded : /\ GroundedRight(grounded[w], w)
                                      /\ ~grounded[w].answered => lastError
    BY <1>1 DEF GroundingInv, GroundingTypes, GroundedAll, GroundingsTold
  <2>1. CASE window \notin DOMAIN proposals
    BY <2>0, <2>1 DEF GroundWindow
  <2>2. CASE window \in DOMAIN proposals
    <3>1. PICK scores \in ScoreTables, payload \in Payloads \cup {None} :
             LET g == Grounded(proposals[window], window, scores, payload)
             IN  /\ grounded' = [w \in DOMAIN grounded \cup {window} |->
                                   IF w = window THEN g ELSE grounded[w]]
                 /\ lastError' = (lastError \/ ~g.answered)
      BY <2>2 DEF GroundWindow
    <3> DEFINE g == Grounded(proposals[window], window, scores, payload)
    <3>2. GroundedRight(g, window)
      BY <1>1, <2>2, WindowIsGroundedRight DEF GroundingInv, GroundingTypes
    <3>3. g.answered \in BOOLEAN
      BY <3>2 DEF GroundedRight, GroundingRecords
    <3>4. /\ grounded' = [w \in DOMAIN grounded \cup {window} |-> IF w = window THEN g ELSE grounded[w]]
          /\ lastError' = (lastError \/ ~g.answered)
      BY <3>1
    <3> HIDE DEF g
    <3> QED
      BY <2>0, <2>2, <3>2, <3>3, <3>4
  <2> QED
    BY <2>1, <2>2
<1>3. GroundingTypes'
  BY <1>1, <1>2 DEF GroundingInv, GroundingTypes
<1>4. ProposalsTold'
  BY <1>1 DEF GroundingInv, ProposalsTold
<1>5. GroundedAll'
  BY <1>1, <1>2 DEF GroundedAll, GroundedRight, SeedsFit, NothingLost, CandidatePhrases, PromptOf
<1>6. GroundingsTold'
  <2> SUFFICES ASSUME NEW w \in DOMAIN proposals, w < window + 1 PROVE w \in DOMAIN grounded'
    BY <1>1, <1>2 DEF GroundingsTold
  <2>1. CASE w = window
    BY <1>2, <2>1
  <2>2. CASE w < window
    BY <1>1, <1>2, <2>2 DEF GroundingInv, GroundingsTold
  <2> QED
    BY <1>1, <2>1, <2>2
<1> QED
  BY <1>1, <1>3, <1>4, <1>5, <1>6 DEF GroundingInv

\* The other steps: the regions, the reports and the vocabulary.
LEMMA MovingRegionsType ==
    ASSUME changes \in Changes, NEW w \in Windows PROVE MovingRegions(w) \in Nat
<1>1. CASE changes[w] = None
  BY <1>1 DEF MovingRegions
<1>2. CASE changes[w] # None
  <2> DEFINE moving == {i \in DOMAIN changes[w] : changes[w][i] >= MotionThreshold}
  <2>1. changes[w] \in Seq(Nat)
    BY <1>2, AnswersAssumption DEF Windows
  <2>2. IsFiniteSet(DOMAIN changes[w]) /\ moving \in SUBSET (DOMAIN changes[w])
    <3> DEFINE one == 1
               n == Len(changes[w])
               all == DOMAIN changes[w]
    <3>1. all = one..n /\ one \in Int /\ n \in Int
      BY <2>1
    <3>2. IsFiniteSet(all)
      <4> HIDE DEF one, n, all
      <4> QED
        BY <3>1, FS_Interval
    <3> QED
      BY <3>2
  <2>3. Cardinality(moving) \in Nat
    <3> HIDE DEF moving
    <3>1. IsFiniteSet(moving)
      BY <2>2, FS_Subset
    <3> QED
      BY <3>1, FS_CardinalityType
  <2> QED
    BY <1>2, <2>3 DEF MovingRegions
<1> QED
  BY <1>1, <1>2

LEMMA GroundingStepPreserves == GroundingInv /\ [GroundingNext]_groundingVars => GroundingInv'
<1> SUFFICES ASSUME GroundingInv, [GroundingNext]_groundingVars PROVE GroundingInv'
  OBVIOUS
<1>0. Windows = 1..Len(changes) /\ Len(changes) \in Nat /\ GroundingTypes
  BY AnswersAssumption DEF Windows, GroundingInv, GroundingTypes
<1>1. CASE ProposeMovingRegions
  <2>1. /\ UNCHANGED <<changes, window, proposals, grounded, lastError, warnings, vocabulary>>
        /\ groundingStage = "regions" /\ groundingStage' = "propose"
        /\ regions' = [w \in Windows |-> MovingRegions(w)]
        /\ window = 1 /\ DOMAIN grounded = {}
    BY <1>1 DEF ProposeMovingRegions, GroundingInv, GroundingTypes
  <2>2. regions' \in [Windows -> Nat]
    BY <1>0, <2>1, MovingRegionsType DEF GroundingTypes
  <2>3. GroundingTypes'
    BY <1>0, <2>1, <2>2 DEF GroundingTypes, Windows
  <2>4. ProposalsTold'
    BY <1>0, <2>1 DEF ProposalsTold, Windows
  <2> QED
    BY <2>1, <2>3, <2>4 DEF GroundingInv, GroundedAll, GroundingsTold
<1>2. CASE ReportProposals
  <2>1. /\ UNCHANGED <<changes, regions, proposals, grounded, vocabulary>>
        /\ groundingStage = "propose" /\ groundingStage' = "ground"
        /\ window' = 1 /\ lastError' = FALSE
        /\ \A w \in Windows : w < window
        /\ lastError => "proposal" \in warnings'
        /\ DOMAIN grounded = {}
    BY <1>0, <1>2 DEF ReportProposals, GroundingTypes
  <2>2. GroundingTypes'
    <3>1. 1 \in 1..(Len(changes) + 1)
      BY <1>0
    <3> QED
      BY <1>0, <2>1, <3>1 DEF GroundingTypes, Windows
  <2>3. ProposalsTold'
    BY <2>1 DEF GroundingInv, ProposalsTold, Windows
  <2>4. GroundingsTold'
    <3>1. \A w \in DOMAIN proposals : ~(w < 1)
      BY <1>0 DEF GroundingTypes
    <3> QED
      BY <2>1, <3>1 DEF GroundingsTold
  <2> QED
    BY <2>1, <2>2, <2>3, <2>4 DEF GroundingInv, GroundedAll
<1>3. CASE ScoringFails
  <2>1. /\ UNCHANGED <<changes, window, regions, proposals, grounded, lastError, warnings, vocabulary>>
        /\ groundingStage = "ground" /\ groundingStage' = "failed"
    BY <1>3 DEF ScoringFails
  <2> QED
    BY <2>1 DEF GroundingInv, GroundingTypes, GroundedAll, GroundedRight, SeedsFit, NothingLost, CandidatePhrases,
                PromptOf, ProposalsTold, GroundingsTold, Windows
<1>4. CASE ReportGrounding
  <2>1. /\ UNCHANGED <<changes, window, regions, proposals, grounded, lastError, vocabulary>>
        /\ groundingStage = "ground" /\ groundingStage' = "label"
        /\ \A w \in Windows : w < window
        /\ lastError => "grounding" \in warnings'
        /\ warnings \subseteq warnings'
    BY <1>0, <1>4 DEF ReportGrounding, GroundingTypes
  <2>2. GroundingTypes'
    BY <1>0, <2>1 DEF GroundingTypes, Windows
  <2>3. ProposalsTold'
    BY <2>1 DEF GroundingInv, ProposalsTold, Windows
  <2>4. GroundingsTold'
    BY <1>0, <2>1 DEF GroundingInv, GroundingTypes, GroundingsTold, Windows
  <2>5. GroundedAll'
    BY <2>1 DEF GroundingInv, GroundedAll, GroundedRight, SeedsFit, NothingLost, CandidatePhrases, PromptOf
  <2> QED
    BY <2>1, <2>2, <2>3, <2>4, <2>5 DEF GroundingInv
<1>5. CASE BuildVocabulary
  <2>1. /\ UNCHANGED <<changes, window, regions, proposals, grounded, lastError, warnings>>
        /\ groundingStage = "label" /\ groundingStage' = "labelled"
        /\ vocabulary' = Normalised(Words)
    BY <1>5 DEF BuildVocabulary
  <2>2. GroundingTypes' /\ ProposalsTold' /\ GroundingsTold'
    BY <2>1 DEF GroundingInv, GroundingTypes, ProposalsTold, GroundingsTold, Windows
  <2>3. GroundedAll'
    BY <2>1 DEF GroundingInv, GroundedAll, GroundedRight, SeedsFit, NothingLost, CandidatePhrases, PromptOf
  <2>4. vocabulary' = Normalised(Words)'
    BY <2>1 DEF Words, Normalised
  <2> QED
    BY <2>1, <2>2, <2>3, <2>4 DEF GroundingInv
<1>6. CASE UNCHANGED groundingVars
  <2>1. vocabulary' = vocabulary /\ Normalised(Words)' = Normalised(Words) /\ window' = window
        /\ groundingStage' = groundingStage
    BY <1>6 DEF groundingVars, Words, Normalised
  <2>2. GroundingTypes' /\ ProposalsTold' /\ GroundingsTold' /\ GroundedAll'
    BY <1>6 DEF groundingVars, GroundingInv, GroundingTypes, ProposalsTold, GroundingsTold, Windows,
                GroundedAll, GroundedRight, SeedsFit, NothingLost, CandidatePhrases, PromptOf
  <2> QED
    BY <2>1, <2>2 DEF GroundingInv
<1> QED
  BY <1>1, <1>2, <1>3, <1>4, <1>5, <1>6, ProposeForWindowPreserves, GroundWindowPreserves DEF GroundingNext

\* What is normalised of a word is in the vocabulary, unless it is blank.
LEMMA WordsOfProposals ==
    ASSUME NEW w \in DOMAIN proposals, NEW c \in Range(proposals[w].cards)
    PROVE  Normalised(NamesOf(c)) \subseteq Normalised(Words)
<1>1. NamesOf(c) \subseteq Words
  <2> DEFINE names == UNION {NamesOf(d) : d \in Range(proposals[w].cards)}
             of(v) == proposals[v].visible \cup proposals[v].background \cup proposals[v].uncertain
                      \cup (UNION {NamesOf(d) : d \in Range(proposals[v].cards)})
  <2>1. NamesOf(c) \subseteq of(w)
    OBVIOUS
  <2>2. of(w) \subseteq UNION {of(v) : v \in DOMAIN proposals}
    <3> HIDE DEF of
    <3> QED
      OBVIOUS
  <2>3. UNION {of(v) : v \in DOMAIN proposals} \subseteq Words
    BY DEF Words
  <2> HIDE DEF of
  <2> QED
    BY <2>1, <2>2, <2>3
<1> QED
  BY <1>1 DEF Normalised

LEMMA WordsOfGrounding ==
    ASSUME NEW w \in DOMAIN grounded, grounded[w].prompts \subseteq Clean
    PROVE  grounded[w].prompts \subseteq Normalised(Words)
<1>1. grounded[w].prompts \subseteq Words
  <2> DEFINE of(v) == grounded[v].prompts
                      \cup (UNION {NamesOf(c) \cup ({c.prompt} \ {None}) : c \in grounded[v].cards})
  <2>1. grounded[w].prompts \subseteq of(w)
    OBVIOUS
  <2>2. of(w) \subseteq UNION {of(v) : v \in DOMAIN grounded}
    <3> HIDE DEF of
    <3> QED
      OBVIOUS
  <2>3. UNION {of(v) : v \in DOMAIN grounded} \subseteq Words
    BY DEF Words
  <2> HIDE DEF of
  <2> QED
    BY <2>1, <2>2, <2>3
<1> QED
  BY <1>1 DEF Normalised, Clean

\* Every seed is a region of its window with a prompt the labels know, whatever
\* the models answer and whichever fails (verify_scene_hypotheses).
THEOREM SeedsCanAlwaysBeExtracted == GroundingSpec => []SeedsCanBeExtracted
<1>1. GroundingInv => SeedsCanBeExtracted
  <2> SUFFICES ASSUME GroundingInv, NEW w \in DOMAIN grounded
               PROVE  /\ SeedsFit(grounded[w], w)
                      /\ groundingStage = "labelled" => grounded[w].prompts \subseteq vocabulary
    BY DEF SeedsCanBeExtracted, SeedsFit
  <2>1. grounded[w] \in GroundingRecords /\ SeedsFit(grounded[w], w)
    BY DEF GroundingInv, GroundedAll, GroundedRight
  <2>2. grounded[w].prompts \subseteq Clean
    BY <2>1 DEF GroundingRecords
  <2> QED
    BY <2>1, <2>2, WordsOfGrounding DEF GroundingInv
<1> QED
  BY InitGroundingInv, GroundingStepPreserves, <1>1, PTL DEF GroundingSpec

\* No window with frames is given up without a warning, and what a failed
\* grounding could not settle is kept as unresolved; a card that points at a
\* region is kept unless three are (propose_source_hypotheses,
\* verify_scene_hypotheses, _fallback_grounded_source_cards).
THEOREM LossesAreAlwaysReported == GroundingSpec => []LossesAreReported
<1>1. GroundingInv => LossesAreReported
  <2> SUFFICES ASSUME GroundingInv, groundingStage = "labelled",
                      NEW w \in Windows, changes[w] # None
               PROVE  /\ w \notin DOMAIN grounded => "proposal" \in warnings
                      /\ w \in DOMAIN grounded =>
                           /\ UNION {Normalised(NamesOf(c)) : c \in Range(proposals[w].cards)} \subseteq vocabulary
                           /\ ~grounded[w].answered =>
                                /\ "grounding" \in warnings
                                /\ CandidatePhrases(proposals[w]) \subseteq grounded[w].unresolved
                                /\ \A i \in DOMAIN proposals[w].cards : proposals[w].cards[i].refs # {} =>
                                      \/ i \in Kept(proposals[w], grounded[w])
                                      \/ Cardinality(Kept(proposals[w], grounded[w])) >= MaxFallbackCards
    BY DEF LossesAreReported
  <2>1. DOMAIN grounded = DOMAIN proposals
    BY DEF GroundingInv, GroundingTypes, GroundingsTold
  <2>2. w \notin DOMAIN grounded => "proposal" \in warnings
    BY <2>1 DEF GroundingInv, ProposalsTold
  <2>3. ASSUME w \in DOMAIN grounded
        PROVE  /\ UNION {Normalised(NamesOf(c)) : c \in Range(proposals[w].cards)} \subseteq vocabulary
               /\ ~grounded[w].answered => "grounding" \in warnings
               /\ NothingLost(grounded[w], w)
    <3>1. \A c \in Range(proposals[w].cards) : Normalised(NamesOf(c)) \subseteq Normalised(Words)
      BY <2>1, <2>3, WordsOfProposals
    <3>2. vocabulary = Normalised(Words)
      BY DEF GroundingInv
    <3>3. UNION {Normalised(NamesOf(c)) : c \in Range(proposals[w].cards)} \subseteq vocabulary
      BY <3>1, <3>2
    <3>4. ~grounded[w].answered => "grounding" \in warnings
      BY <2>1, <2>3 DEF GroundingInv, GroundingsTold
    <3>5. NothingLost(grounded[w], w)
      BY <2>3 DEF GroundingInv, GroundedAll, GroundedRight
    <3> QED
      BY <3>3, <3>4, <3>5
  <2> QED
    BY <2>2, <2>3 DEF NothingLost
<1> QED
  BY InitGroundingInv, GroundingStepPreserves, <1>1, PTL DEF GroundingSpec

-----------------------------------------------------------------------------
(***************************************************************************)
(* Evidence windows: means.                                                *)
(***************************************************************************)
LEMMA ProductsGrow ==
    ASSUME NEW a \in Int, NEW b \in Int, a <= b, NEW w \in Nat
    PROVE  a * w <= b * w /\ a * w \in Int /\ b * w \in Int
  OBVIOUS

LEMMA ProductsAdd ==
    ASSUME NEW a \in Int, NEW v \in Int, NEW w \in Int
    PROVE  a * (v + w) = a * v + a * w /\ a * v \in Int /\ a * w \in Int
  OBVIOUS

\* What is divided by a weight and lies between two multiples of it is rounded
\* to something between the two.
LEMMA NearestBetween ==
    ASSUME NEW w \in Nat \ {0}, NEW sum \in Int, NEW a \in Int, NEW b \in Int,
           a * w <= sum, sum <= b * w
    PROVE  Nearest(sum, w) \in Int /\ a <= Nearest(sum, w) /\ Nearest(sum, w) <= b
<1> DEFINE double == 2 * w
           q == (2 * sum + w) \div double
<1>1. double \in Nat /\ double > 0 /\ 2 * sum + w \in Int
  OBVIOUS
<1>2. q \in Int /\ double * q <= 2 * sum + w /\ 2 * sum + w < double * (q + 1)
  <2> DEFINE x == 2 * sum + w
  <2> HIDE DEF double, x
  <2>1. x \div double \in Int /\ double * (x \div double) <= x /\ x < double * ((x \div double) + 1)
    BY <1>1 DEF x
  <2> QED
    BY <2>1 DEF x
<1>3. Nearest(sum, w) = q
  BY DEF Nearest
<1> HIDE DEF q
<1>4. a <= q
  <2> SUFFICES ASSUME ~(a <= q) PROVE FALSE
    OBVIOUS
  <2>1. q + 1 <= a
    BY <1>2
  <2>2. (q + 1) * w <= a * w
    BY <1>2, <2>1, ProductsGrow
  <2>3. double * (q + 1) = 2 * ((q + 1) * w)
    BY <1>2
  <2> HIDE DEF double
  <2> QED
    BY <1>1, <1>2, <2>2, <2>3
<1>5. q <= b
  <2> SUFFICES ASSUME ~(q <= b) PROVE FALSE
    OBVIOUS
  <2>1. b + 1 <= q
    BY <1>2
  <2>2. (b + 1) * w <= q * w
    BY <1>2, <2>1, ProductsGrow
  <2>3. double * q = 2 * (q * w) /\ (b + 1) * w = b * w + w /\ q * w \in Int /\ b * w \in Int
    BY <1>2
  <2> HIDE DEF double
  <2> QED
    BY <1>1, <1>2, <2>2, <2>3
<1> QED
  BY <1>2, <1>3, <1>4, <1>5

-----------------------------------------------------------------------------
(***************************************************************************)
(* Proposals.                                                              *)
(***************************************************************************)
Confidences == 0..1000

CutData == [at : Nat, confidence : Confidences]

LEMMA CutFields ==
    ASSUME NEW given \in Seq(CutData), NEW i \in 1..Len(given)
    PROVE  /\ given[i] \in CutData
           /\ given[i].at \in Nat /\ given[i].confidence \in Confidences
           /\ given[i].confidence \in Int /\ 0 <= given[i].confidence /\ given[i].confidence <= 1000
<1>1. given[i] \in CutData
  OBVIOUS
<1> DEFINE cut == given[i]
<1>2. cut \in CutData
  BY <1>1
<1> HIDE DEF cut
<1>3. cut.at \in Nat /\ cut.confidence \in Confidences
  BY <1>2 DEF CutData
<1>4. cut.confidence \in Int /\ 0 <= cut.confidence /\ cut.confidence <= 1000
  <2> DEFINE c == cut.confidence
  <2>1. c \in Confidences
    BY <1>3
  <2> HIDE DEF c
  <2>2. c \in Int /\ 0 <= c /\ c <= 1000
    BY <2>1 DEF Confidences
  <2> QED
    BY <2>2 DEF c
<1> QED
  BY <1>2, <1>3, <1>4 DEF cut

\* Cuts in the order of time.
CutList(given) ==
    /\ given \in Seq(CutData)
    /\ \A i, j \in 1..Len(given) : i <= j => given[i].at <= given[j].at

CutListUpTo(given, end) ==
    /\ CutList(given)
    /\ \A i \in 1..Len(given) : given[i].at <= end

\* One more cut, not before the others.
LEMMA OneMoreCut ==
    ASSUME NEW given, NEW end \in Nat, CutListUpTo(given, end),
           NEW cut \in CutData, end <= cut.at
    PROVE  CutListUpTo(Append(given, cut), cut.at)
<1> DEFINE more == Append(given, cut)
           n == Len(given)
<1>1. given \in Seq(CutData) /\ n \in Nat /\ cut.at \in Nat
  BY DEF CutListUpTo, CutList, CutData
<1>2. \A i \in 1..n : given[i].at \in Nat /\ given[i].at <= end
  <2>1. \A i \in 1..n : given[i] \in CutData
    BY <1>1
  <2> QED
    BY <2>1 DEF CutData, CutListUpTo
<1>3. /\ more \in Seq(CutData) /\ Len(more) = n + 1
      /\ \A i \in 1..n : more[i] = given[i]
      /\ more[n + 1] = cut
  BY <1>1
<1>4. \A i, j \in 1..n : i <= j => given[i].at <= given[j].at
  BY DEF CutListUpTo, CutList
<1> HIDE DEF more, n
<1>5. ASSUME NEW i \in 1..(n + 1) PROVE more[i].at <= cut.at
  <2>1. CASE i \in 1..n
    BY <1>1, <1>2, <1>3, <2>1
  <2>2. CASE i = n + 1
    BY <1>1, <1>3, <2>2
  <2> QED
    BY <1>1, <2>1, <2>2
<1>6. ASSUME NEW i \in 1..(n + 1), NEW j \in 1..(n + 1), i <= j PROVE more[i].at <= more[j].at
  <2>1. CASE j = n + 1
    BY <1>3, <1>5, <2>1
  <2>2. CASE j # n + 1
    <3>1. i \in 1..n /\ j \in 1..n
      BY <1>1, <1>6, <2>2
    <3> QED
      BY <1>3, <1>4, <1>6, <3>1
  <2> QED
    BY <2>1, <2>2
<1> QED
  BY <1>3, <1>5, <1>6 DEF CutListUpTo, CutList, more

LEMMA LaterEnd ==
    ASSUME NEW given, NEW a \in Nat, NEW b \in Nat, CutListUpTo(given, a), a <= b
    PROVE  CutListUpTo(given, b)
<1>1. given \in Seq(CutData)
  BY DEF CutListUpTo, CutList
<1>2. \A i \in 1..Len(given) : given[i] \in CutData
  BY <1>1
<1>3. \A i \in 1..Len(given) : given[i].at \in Nat
  BY <1>2 DEF CutData
<1> QED
  BY <1>3 DEF CutListUpTo

VideoOK ==
    /\ duration \in Nat /\ period \in Nat \ {0}
    /\ \E m \in Nat : differences \in [1..m -> Confidences]

LEMMA ProposalsAre ==
    ASSUME VideoOK
    PROVE  CutList(Proposals)
<1>1. PICK m \in Nat : differences \in [1..m -> Confidences]
  BY DEF VideoOK
<1> DEFINE S == 1..m
           T == Seq(CutData)
           order == [i \in DOMAIN differences |-> i]
           With(found, i) == IF Proposes(i) THEN Append(found, Proposal(i)) ELSE found
           Solves(it) == it = [s \in SUBSET DOMAIN order |->
                                 IF s = {} THEN <<>> ELSE With(it[s \ {Max(s)}], order[Max(s)])]
           found == CHOOSE it : Solves(it)
           end(k) == Smaller(k * period, duration)
<1>2. Proposals = IF duration = 0 THEN <<>> ELSE found[DOMAIN order]
  BY Zenon DEF Proposals, FoldLeft, MapThenFoldSet
<1>3. DOMAIN order = S /\ \A i \in S : order[i] = i
  BY <1>1
<1>4. \A k \in Nat : k * period \in Nat /\ k * period <= (k + 1) * period
  BY DEF VideoOK
<1>5. \A k \in Nat : end(k) \in Nat /\ end(k) <= end(k + 1)
  <2> SUFFICES ASSUME NEW k \in Nat PROVE end(k) \in Nat /\ end(k) <= end(k + 1)
    OBVIOUS
  <2> DEFINE a == k * period
             b == (k + 1) * period
  <2>1. a \in Nat /\ b \in Nat /\ a <= b /\ duration \in Nat
    BY <1>4 DEF VideoOK
  <2> HIDE DEF a, b
  <2>2. Smaller(a, duration) \in Nat /\ Smaller(a, duration) <= Smaller(b, duration)
    BY <2>1 DEF Smaller
  <2> QED
    BY <2>2 DEF a, b
<1>6. ASSUME NEW i \in S
      PROVE  Proposal(i) \in CutData /\ Proposal(i).at = end(i)
  <2>1. i \in Nat /\ differences[i] \in Confidences
    <3>1. differences \in [S -> Confidences]
      BY Zenon, <1>1
    <3>2. i \in S
      BY Zenon
    <3>3. i \in Nat
      BY <3>2
    <3> HIDE DEF S
    <3>4. differences[i] \in Confidences
      BY <3>1, <3>2
    <3> QED
      BY <3>3, <3>4
  <2>2. Proposal(i) = [at |-> end(i), confidence |-> differences[i]]
    BY DEF Proposal
  <2> HIDE DEF end
  <2>3. end(i) \in Nat
    BY <1>5, <2>1
  <2> QED
    BY <2>1, <2>2, <2>3 DEF CutData
<1>7. Solves(found)
  <2> DEFINE none == <<>>
             add == [p \in S \X T |-> With(p[2], p[1])]
  <2>1. none \in T
    OBVIOUS
  <2>2. add \in [S \X T -> T]
    <3> SUFFICES ASSUME NEW i \in S, NEW s \in T PROVE With(s, i) \in T
      OBVIOUS
    <3> QED
      BY <1>6
  <2>3. \A i \in S, s \in T : add[<<i, s>>] = With(s, i)
    OBVIOUS
  <2>4. HasFoldOfItems(m, T, none, add)
    <3> HIDE DEF T, none, add
    <3> QED
      BY <2>1, <2>2, FoldOfItemsExists
  <2>5. PICK it : FoldOfItems(it, m, T, none, add)
    BY <2>4 DEF HasFoldOfItems
  <2>6. Solves(it)
    <3> HIDE DEF With, add, order, T
    <3>1. \A s \in SUBSET S : it[s] = IF s = {} THEN <<>>
                                      ELSE With(it[s \ {Max(s)}], order[Max(s)])
      BY <1>3, <2>3, <2>5 DEF FoldOfItems
    <3>2. it = [s \in SUBSET S |-> it[s]]
      BY <2>5 DEF FoldOfItems
    <3> QED
      BY <1>3, <3>1, <3>2
  <2> HIDE DEF Solves
  <2> QED
    BY <2>6
<1>8. found[1..0] = <<>>
  <2>1. 1..0 = {} /\ 1..0 \in SUBSET DOMAIN order
    BY <1>3
  <2> HIDE DEF found, order, With
  <2> QED
    BY <1>7, <2>1
<1>9. ASSUME NEW k \in S PROVE found[1..k] = With(found[1..(k - 1)], k)
  <2>1. 1..k \in SUBSET DOMAIN order /\ 1..k # {} /\ order[Max(1..k)] = k
        /\ (1..k) \ {Max(1..k)} = 1..(k - 1)
    BY <1>3, LastOfFirst
  <2> HIDE DEF found, order, With
  <2> QED
    BY <1>7, <2>1
<1> HIDE DEF found, order, end
<1> DEFINE wrong == {k \in 0..m : ~CutListUpTo(found[1..k], end(k))}
<1>10. wrong = {}
  <2>1. SUFFICES ASSUME wrong # {} PROVE FALSE
    OBVIOUS
  <2>2. PICK k \in wrong : \A j \in wrong : k <= j
    <3>1. wrong \subseteq Nat
      OBVIOUS
    <3> HIDE DEF wrong
    <3> QED
      BY <2>1, <3>1, LeastNatural
  <2>3. k # 0
    <3>1. CutListUpTo(<<>>, end(0))
      BY DEF CutListUpTo, CutList
    <3> QED
      BY <1>8, <2>2, <3>1
  <2> DEFINE j == k - 1
  <2>4. k \in S /\ j \in 0..m /\ j \in Nat /\ k = j + 1 /\ ~(k <= j)
    BY <2>2, <2>3
  <2>5. CutListUpTo(found[1..j], end(j)) /\ end(j) \in Nat /\ end(j) <= end(k) /\ end(k) \in Nat
    <3>1. k \in Nat /\ end(k) = end(j + 1)
      BY <2>4
    <3>2. CutListUpTo(found[1..j], end(j))
      BY <2>2, <2>4
    <3> QED
      BY <1>5, <2>4, <3>1, <3>2
  <2>6. found[1..k] = With(found[1..j], k)
    BY <1>9, <2>4
  <2> HIDE DEF j
  <2>7. CASE Proposes(k)
    <3>1. Proposal(k) \in CutData /\ Proposal(k).at = end(k)
      BY <1>6, <2>4
    <3>2. CutListUpTo(Append(found[1..j], Proposal(k)), end(k))
      BY <2>5, <3>1, OneMoreCut
    <3>3. found[1..k] = Append(found[1..j], Proposal(k))
      BY <2>6, <2>7
    <3> QED
      BY <2>2, <3>2, <3>3
  <2>8. CASE ~Proposes(k)
    <3>3. CutListUpTo(found[1..j], end(k))
      BY <2>5, LaterEnd
    <3> QED
      BY <2>2, <2>6, <2>8, <3>3
  <2> QED
    BY <2>7, <2>8
<1>11. CutList(found[S])
  <2>1. m \in 0..m
    OBVIOUS
  <2> QED
    BY <1>10, <2>1 DEF CutListUpTo
<1>12. CutList(<<>>)
  BY DEF CutList
<1> QED
  BY <1>2, <1>3, <1>11, <1>12

-----------------------------------------------------------------------------
(***************************************************************************)
(* The mean of a group.                                                    *)
(***************************************************************************)
\* upTo[k] is the sum of the first k numbers.
AddsUp(upTo, n, s) ==
    /\ upTo \in [0..n -> Nat]
    /\ upTo[0] = 0
    /\ \A k \in 1..n : upTo[k] = upTo[k - 1] + s[k]

LEMMA TotalIs ==
    ASSUME NEW n \in Nat, NEW s \in [1..n -> Nat]
    PROVE  \E upTo : AddsUp(upTo, n, s) /\ Total(s) = upTo[n]
<1> DEFINE S == 1..n
           zero == 0
           Solves(it) == it = [t \in SUBSET DOMAIN s |->
                                 IF t = {} THEN 0 ELSE it[t \ {Max(t)}] + s[Max(t)]]
           sum == CHOOSE it : Solves(it)
           add == [p \in S \X Nat |-> p[2] + s[p[1]]]
           upTo == [k \in 0..n |-> sum[1..k]]
<1>1. Total(s) = sum[DOMAIN s]
  BY Zenon DEF Total, FoldLeft, MapThenFoldSet
<1>2. DOMAIN s = S /\ \A i \in S : s[i] \in Nat
  OBVIOUS
<1>3. zero \in Nat /\ add \in [S \X Nat -> Nat]
  OBVIOUS
<1>4. \A i \in S, t \in Nat : add[<<i, t>>] = t + s[i]
  OBVIOUS
<1>5. PICK it : FoldOfItems(it, n, Nat, zero, add)
  <2>1. HasFoldOfItems(n, Nat, zero, add)
    <3> HIDE DEF zero, add
    <3> QED
      BY <1>3, FoldOfItemsExists
  <2> QED
    BY <2>1 DEF HasFoldOfItems
<1>6. Solves(it)
  <2> HIDE DEF add
  <2>1. \A t \in SUBSET S : it[t] = IF t = {} THEN 0 ELSE it[t \ {Max(t)}] + s[Max(t)]
    BY <1>4, <1>5 DEF FoldOfItems
  <2>2. it = [t \in SUBSET S |-> it[t]]
    BY <1>5 DEF FoldOfItems
  <2> QED
    BY <1>2, <2>1, <2>2
<1>7. Solves(sum)
  <2> HIDE DEF Solves
  <2> QED
    BY <1>6
<1> HIDE DEF sum
<1>8. ASSUME NEW k \in S PROVE sum[1..k] = sum[1..(k - 1)] + s[k]
  <2>1. 1..k \in SUBSET DOMAIN s /\ 1..k # {} /\ Max(1..k) = k /\ (1..k) \ {Max(1..k)} = 1..(k - 1)
    BY <1>2, LastOfFirst
  <2> QED
    BY <1>7, <2>1
<1>9. sum[1..0] = 0
  <2>1. 1..0 = {} /\ 1..0 \in SUBSET DOMAIN s
    BY <1>2
  <2> QED
    BY <1>7, <2>1
<1> DEFINE wrong == {k \in 0..n : sum[1..k] \notin Nat}
<1>10. wrong = {}
  <2>1. SUFFICES ASSUME wrong # {} PROVE FALSE
    OBVIOUS
  <2>2. PICK k \in wrong : \A j \in wrong : k <= j
    <3>1. wrong \subseteq Nat
      OBVIOUS
    <3> HIDE DEF wrong
    <3> QED
      BY <2>1, <3>1, LeastNatural
  <2>3. k # 0
    BY <1>9, <2>2
  <2> DEFINE j == k - 1
  <2>4. k \in S /\ j \in 0..n /\ ~(k <= j)
    BY <2>2, <2>3
  <2>5. sum[1..j] \in Nat
    BY <2>2, <2>4
  <2>6. sum[1..k] = sum[1..j] + s[k] /\ s[k] \in Nat
    BY <1>2, <1>8, <2>4
  <2> HIDE DEF j
  <2> QED
    BY <2>2, <2>5, <2>6
<1>11. \A k \in 0..n : upTo[k] = sum[1..k] /\ sum[1..k] \in Nat
  BY <1>10
<1>12. AddsUp(upTo, n, s)
  <2>1. upTo \in [0..n -> Nat]
    BY <1>11
  <2>2. 0 \in 0..n /\ \A k \in 1..n : k \in 0..n /\ k - 1 \in 0..n /\ k \in S
    OBVIOUS
  <2> HIDE DEF upTo, S
  <2> QED
    BY <1>8, <1>9, <1>11, <2>1, <2>2 DEF AddsUp
<1>13. Total(s) = upTo[n]
  <2>1. n \in 0..n
    OBVIOUS
  <2> QED
    BY <1>1, <1>2, <1>11, <2>1
<1> HIDE DEF upTo
<1> QED
  BY <1>12, <1>13

\* A merged cut lies between the first and the last of its group.
LEMMA MergedLiesBetween ==
    ASSUME NEW group \in Seq(CutData), group # <<>>, NEW a \in Nat, NEW b \in Nat,
           \A i \in 1..Len(group) : a <= group[i].at /\ group[i].at <= b
    PROVE  /\ MergeCutGroup(group) \in CutData
           /\ a <= MergeCutGroup(group).at /\ MergeCutGroup(group).at <= b
<1> DEFINE n == Len(group)
           weight == [i \in DOMAIN group |-> Larger(group[i].confidence, 1)]
           product == [i \in DOMAIN group |-> group[i].at * weight[i]]
           confidences == {group[i].confidence : i \in DOMAIN group}
           highest == CHOOSE c \in confidences : \A i \in DOMAIN group : c >= group[i].confidence
<1>1. n \in Nat \ {0} /\ DOMAIN group = 1..n
  OBVIOUS
<1>2. \A i \in 1..n : /\ group[i].at \in Nat /\ group[i].confidence \in Confidences
                      /\ group[i].confidence \in Int /\ group[i].confidence <= 1000
  BY CutFields
<1>3. \A i \in 1..n : weight[i] \in Nat /\ weight[i] > 0
  BY <1>1, <1>2 DEF Larger
<1>4. \A i \in 1..n : /\ product[i] = group[i].at * weight[i]
                      /\ product[i] \in Nat
                      /\ a * weight[i] <= product[i] /\ product[i] <= b * weight[i]
  <2> SUFFICES ASSUME NEW i \in 1..n
               PROVE  /\ product[i] = group[i].at * weight[i]
                      /\ product[i] \in Nat
                      /\ a * weight[i] <= product[i] /\ product[i] <= b * weight[i]
    OBVIOUS
  <2>1. product[i] = group[i].at * weight[i]
    BY <1>1
  <2> HIDE DEF product, weight
  <2>2. group[i].at \in Nat /\ weight[i] \in Nat /\ a <= group[i].at /\ group[i].at <= b
    BY <1>2, <1>3
  <2> DEFINE x == group[i].at
             w == weight[i]
  <2>3. x \in Nat /\ w \in Nat /\ a <= x /\ x <= b
    BY <2>2
  <2> HIDE DEF x, w
  <2>4. x * w \in Nat /\ a * w <= x * w /\ x * w <= b * w
    BY <2>3, ProductsGrow
  <2> HIDE DEF product, weight
  <2> QED
    BY <2>1, <2>4 DEF x, w
<1>5. weight \in [1..n -> Nat] /\ product \in [1..n -> Nat]
  <2>1. DOMAIN weight = 1..n /\ DOMAIN product = 1..n
    BY <1>1
  <2>2. weight = [i \in 1..n |-> weight[i]] /\ product = [i \in 1..n |-> product[i]]
    BY <2>1
  <2> HIDE DEF weight, product, n
  <2> QED
    BY <1>3, <1>4, <2>2
<1>6. MergeCutGroup(group) = [at |-> Nearest(Total(product), Total(weight)), confidence |-> highest]
  BY DEF MergeCutGroup
<1> HIDE DEF n, weight, product
<1>7. PICK weights : AddsUp(weights, n, weight) /\ Total(weight) = weights[n]
  BY <1>1, <1>5, TotalIs
<1>8. PICK products : AddsUp(products, n, product) /\ Total(product) = products[n]
  BY <1>1, <1>5, TotalIs
<1> DEFINE Within(k) == /\ a * weights[k] <= products[k] /\ products[k] <= b * weights[k]
                        /\ weights[k] >= k
           wrong == {k \in 0..n : ~Within(k)}
<1>9. \A k \in 0..n : weights[k] \in Nat /\ products[k] \in Nat
  BY <1>7, <1>8 DEF AddsUp
<1>10. wrong = {}
  <2>1. SUFFICES ASSUME wrong # {} PROVE FALSE
    OBVIOUS
  <2>2. PICK k \in wrong : \A j \in wrong : k <= j
    <3>1. wrong \subseteq Nat
      OBVIOUS
    <3> HIDE DEF wrong
    <3> QED
      BY <2>1, <3>1, LeastNatural
  <2>3. k # 0
    <3>1. weights[0] = 0 /\ products[0] = 0 /\ a * 0 = 0 /\ b * 0 = 0
      BY <1>7, <1>8 DEF AddsUp
    <3> QED
      BY <2>2, <3>1
  <2> DEFINE j == k - 1
  <2>4. k \in 1..n /\ j \in 0..n /\ ~(k <= j) /\ k = j + 1 /\ j \in Nat
    BY <1>1, <2>2, <2>3
  <2>5. Within(j)
    BY <2>2, <2>4
  <2>6. weights[k] = weights[j] + weight[k] /\ products[k] = products[j] + product[k]
    BY <1>7, <1>8, <2>4 DEF AddsUp
  <2> HIDE DEF j
  <2> DEFINE w == weight[k]  p == product[k]  wj == weights[j]  pj == products[j]
  <2>7. /\ w \in Nat /\ w > 0 /\ p \in Nat /\ wj \in Nat /\ pj \in Nat
        /\ a * w <= p /\ p <= b * w /\ a * wj <= pj /\ pj <= b * wj /\ wj >= j
    BY <1>3, <1>4, <1>9, <2>4, <2>5
  <2>8. weights[k] = wj + w /\ products[k] = pj + p
    BY <2>6
  <2> HIDE DEF w, p, wj, pj
  <2>9. a * (wj + w) = a * wj + a * w /\ b * (wj + w) = b * wj + b * w
        /\ a * wj \in Int /\ a * w \in Int /\ b * wj \in Int /\ b * w \in Int
    <3>1. a \in Int /\ b \in Int /\ wj \in Int /\ w \in Int
      BY <2>7
    <3>2. a * (wj + w) = a * wj + a * w /\ a * wj \in Int /\ a * w \in Int
      BY <3>1, ProductsAdd
    <3>3. b * (wj + w) = b * wj + b * w /\ b * wj \in Int /\ b * w \in Int
      BY <3>1, ProductsAdd
    <3> QED
      BY <3>2, <3>3
  <2>10. a * (wj + w) <= pj + p /\ pj + p <= b * (wj + w) /\ wj + w >= k
    BY <2>4, <2>7, <2>9
  <2> QED
    BY <2>2, <2>8, <2>10
<1>11. /\ a * Total(weight) <= Total(product) /\ Total(product) <= b * Total(weight)
       /\ Total(weight) \in Nat \ {0} /\ Total(product) \in Int
  <2>1. n \in 0..n /\ n >= 1
    BY <1>1
  <2>2. Within(n)
    BY <1>10, <2>1
  <2>3. weights[n] \in Nat /\ products[n] \in Nat
    BY <1>9, <2>1
  <2> QED
    BY <1>7, <1>8, <2>1, <2>2, <2>3
<1>12. highest \in Confidences
  <2>1. confidences \subseteq Int /\ confidences # {} /\ \A c \in confidences : c <= 1000
    BY <1>1, <1>2
  <2>2. PICK c \in confidences : \A d \in confidences : c >= d
    <3> DEFINE top == 1000
    <3>1. confidences \subseteq Int /\ confidences # {} /\ top \in Int
          /\ \A c \in confidences : c <= top
      BY <2>1
    <3> HIDE DEF confidences, top
    <3> QED
      BY <3>1, GreatestBelow
  <2>3. \A i \in DOMAIN group : c >= group[i].confidence
    BY <2>2
  <2>4. highest \in confidences
    BY <2>2, <2>3
  <2> HIDE DEF highest
  <2> QED
    BY <1>1, <1>2, <2>4
<1> HIDE DEF highest
<1>13. /\ Nearest(Total(product), Total(weight)) \in Int
       /\ a <= Nearest(Total(product), Total(weight)) /\ Nearest(Total(product), Total(weight)) <= b
  <2> DEFINE w == Total(weight)
             sum == Total(product)
  <2>1. w \in Nat \ {0} /\ sum \in Int /\ a \in Int /\ b \in Int /\ a * w <= sum /\ sum <= b * w
    BY <1>11
  <2> HIDE DEF w, sum
  <2>2. Nearest(sum, w) \in Int /\ a <= Nearest(sum, w) /\ Nearest(sum, w) <= b
    BY <2>1, NearestBetween
  <2> QED
    BY <2>2 DEF w, sum
<1> QED
  BY <1>6, <1>12, <1>13 DEF CutData

-----------------------------------------------------------------------------
(***************************************************************************)
(* Groups of cuts.                                                         *)
(***************************************************************************)
\* Cut j is close to the one before it.
FollowsClosely(given, j) == given[j].at - given[j - 1].at <= CutSpacing

\* The group has the cuts from a up to, but without, z.
IsGroup(given, group, a, z) ==
    /\ a \in Nat \ {0} /\ z \in Nat /\ a < z /\ z <= Len(given) + 1
    /\ group \in Seq(CutData) /\ Len(group) = z - a
    /\ \A j \in 1..(z - a) : group[j] = given[a + j - 1]
    /\ \A j \in (a + 1)..(z - 1) : FollowsClosely(given, j)
    /\ a = 1 \/ ~FollowsClosely(given, a)

\* The first k cuts are in groups, one after the other.
AreGroups(grouped, given, k, first) ==
    /\ grouped \in Seq(Seq(CutData))
    /\ first[1] = 1 /\ first[Len(grouped) + 1] = k + 1
    /\ \A g \in 1..Len(grouped) : IsGroup(given, grouped[g], first[g], first[g + 1])

HasGroups(grouped, given, k) == \E first : AreGroups(grouped, given, k, first)

LEMMA LastGroup ==
    ASSUME NEW T, NEW grouped \in Seq(T), grouped # <<>>
    PROVE  /\ Len(grouped) \in Nat \ {0}
           /\ Last(grouped) \in T /\ Last(grouped) = grouped[Len(grouped)]
           /\ Front(grouped) \in Seq(T) /\ Len(Front(grouped)) = Len(grouped) - 1
           /\ \A g \in 1..(Len(grouped) - 1) : Front(grouped)[g] = grouped[g]
<1> DEFINE n == Len(grouped)
           one == 1
           m == n - 1
<1>1. n \in Nat \ {0} /\ Last(grouped) = grouped[n] /\ grouped[n] \in T
  BY DEF Last
<1>2. one \in Int /\ m \in Int /\ \A i \in one..m : grouped[i] \in T
  <2>1. \A i \in 1..n : grouped[i] \in T
    OBVIOUS
  <2>2. \A i \in one..m : i \in 1..n
    BY <1>1
  <2>3. one \in Int /\ m \in Int
    BY <1>1
  <2> HIDE DEF one, m, n
  <2> QED
    BY <2>1, <2>2, <2>3
<1>3. Front(grouped) = SubSeq(grouped, one, m)
  BY DEF Front
<1>4. (IF one <= m THEN m - one + 1 ELSE 0) = n - 1 /\ \A g \in 1..(n - 1) : one + g - 1 = g
  <2> HIDE DEF n
  <2> QED
    BY <1>1
<1> HIDE DEF one, m, n
<1>5. /\ SubSeq(grouped, one, m) \in Seq(T)
      /\ Len(SubSeq(grouped, one, m)) = IF one <= m THEN m - one + 1 ELSE 0
  BY <1>2, SubSeqProperties
<1>6. \A g \in 1..(m - one + 1) : SubSeq(grouped, one, m)[g] = grouped[one + g - 1]
  BY <1>2, SubSeqProperties
<1>7. \A g \in 1..(n - 1) : SubSeq(grouped, one, m)[g] = grouped[g]
  <2>1. m - one + 1 = n - 1
    BY <1>1 DEF m, one
  <2> QED
    BY <1>4, <1>6, <2>1
<1> QED
  BY <1>1, <1>3, <1>4, <1>5, <1>7 DEF n

LEMMA LongerGroup ==
    ASSUME NEW given, NEW group, NEW a, NEW k, IsGroup(given, group, a, k), given[k] \in CutData,
           FollowsClosely(given, k), k + 1 <= Len(given) + 1
    PROVE  IsGroup(given, Append(group, given[k]), a, k + 1)
<1>1. /\ a \in Nat \ {0} /\ k \in Nat /\ a < k
      /\ group \in Seq(CutData) /\ Len(group) = k - a
      /\ \A j \in 1..(k - a) : group[j] = given[a + j - 1]
      /\ \A j \in (a + 1)..(k - 1) : FollowsClosely(given, j)
      /\ a = 1 \/ ~FollowsClosely(given, a)
  BY DEF IsGroup
<1> DEFINE cut == given[k]
           more == Append(group, cut)
<1>2. /\ more \in Seq(CutData) /\ Len(more) = (k + 1) - a
      /\ \A j \in 1..(k - a) : more[j] = group[j]
      /\ more[(k - a) + 1] = cut
  <2> DEFINE m == k - a
  <2>1. m \in Nat /\ Len(group) = m /\ group \in Seq(CutData) /\ cut \in CutData
        /\ (k + 1) - a = m + 1
    BY <1>1
  <2> HIDE DEF m, cut
  <2>2. /\ more \in Seq(CutData) /\ Len(more) = m + 1
        /\ \A j \in 1..m : more[j] = group[j]
        /\ more[m + 1] = cut
    BY <2>1
  <2> HIDE DEF more
  <2> QED
    BY <2>1, <2>2 DEF m
<1> HIDE DEF more
<1>3. ASSUME NEW j \in 1..((k + 1) - a) PROVE more[j] = given[a + j - 1]
  <2>1. CASE j \in 1..(k - a)
    BY <1>1, <1>2, <2>1
  <2>2. CASE j = (k - a) + 1
    <3>1. a + j - 1 = k
      BY <1>1, <2>2
    <3> QED
      BY <1>2, <2>2, <3>1
  <2> QED
    BY <1>1, <2>1, <2>2
<1>4. \A j \in (a + 1)..((k + 1) - 1) : FollowsClosely(given, j)
  <2> SUFFICES ASSUME NEW j \in (a + 1)..((k + 1) - 1) PROVE FollowsClosely(given, j)
    OBVIOUS
  <2>1. j \in (a + 1)..(k - 1) \/ j = k
    BY <1>1
  <2> QED
    BY <1>1, <2>1
<1>5. k + 1 \in Nat /\ a < k + 1
  BY <1>1
<1> QED
  BY <1>1, <1>2, <1>3, <1>4, <1>5 DEF IsGroup, more

LEMMA FirstOfGroup ==
    ASSUME NEW given, NEW k \in Nat \ {0}, given[k] \in CutData, k = 1 \/ ~FollowsClosely(given, k),
           k + 1 <= Len(given) + 1
    PROVE  IsGroup(given, <<given[k]>>, k, k + 1)
<1> DEFINE cut == given[k]
           group == <<cut>>
<1>1. group \in Seq(CutData) /\ Len(group) = (k + 1) - k /\ group[1] = cut
  OBVIOUS
<1> HIDE DEF group
<1>2. \A j \in 1..((k + 1) - k) : group[j] = given[k + j - 1]
  <2> SUFFICES ASSUME NEW j \in 1..((k + 1) - k) PROVE group[j] = given[k + j - 1]
    OBVIOUS
  <2>1. j = 1 /\ k + j - 1 = k
    OBVIOUS
  <2> QED
    BY <1>1, <2>1
<1>3. \A j \in (k + 1)..((k + 1) - 1) : FollowsClosely(given, j)
  OBVIOUS
<1>4. k + 1 \in Nat /\ k < k + 1
  OBVIOUS
<1> QED
  BY <1>1, <1>2, <1>3, <1>4 DEF IsGroup, group

\* One more cut joins the last group or begins one.
WithCut(grouped, cut) ==
    IF grouped # <<>> /\ cut.at - Last(Last(grouped)).at <= CutSpacing
    THEN Append(Front(grouped), Append(Last(grouped), cut))
    ELSE Append(grouped, <<cut>>)

LEMMA OneMoreGrouped ==
    ASSUME NEW given \in Seq(CutData), NEW k \in 1..Len(given), NEW grouped, HasGroups(grouped, given, k - 1)
    PROVE  HasGroups(WithCut(grouped, given[k]), given, k)
<1> DEFINE n == Len(grouped)
           cut == given[k]
           T == Seq(CutData)
<1>1. PICK first : AreGroups(grouped, given, k - 1, first)
  BY DEF HasGroups
<1>2. /\ grouped \in Seq(T) /\ n \in Nat
      /\ first[1] = 1 /\ first[n + 1] = k
      /\ \A g \in 1..n : IsGroup(given, grouped[g], first[g], first[g + 1])
  <2>1. (k - 1) + 1 = k
    OBVIOUS
  <2> QED
    BY <1>1, <2>1 DEF AreGroups
<1>3. cut \in CutData /\ k \in Nat \ {0} /\ k + 1 <= Len(given) + 1
  OBVIOUS
<1>4. grouped # <<>> => (cut.at - Last(Last(grouped)).at <= CutSpacing <=> FollowsClosely(given, k))
  <2> SUFFICES ASSUME grouped # <<>> PROVE Last(Last(grouped)) = given[k - 1]
    BY DEF FollowsClosely
  <2>1. n \in 1..n /\ Last(grouped) = grouped[n]
    <3> HIDE DEF T
    <3>1. n \in Nat \ {0} /\ Last(grouped) = grouped[n]
      BY <1>2, LastGroup
    <3> QED
      BY <3>1
  <2>2. IsGroup(given, grouped[n], first[n], k)
    BY <1>2, <2>1
  <2> DEFINE a == first[n]
             m == k - a
  <2>3. m \in 1..m /\ Len(grouped[n]) = m /\ grouped[n][m] = given[a + m - 1] /\ a + m - 1 = k - 1
    <3>1. a \in Nat /\ a < k /\ m \in Nat \ {0}
      BY <1>3, <2>2 DEF IsGroup
    <3>2. m \in 1..m /\ a + m - 1 = k - 1
      BY <1>3, <3>1
    <3> QED
      BY <2>2, <3>2 DEF IsGroup
  <2> QED
    BY <2>1, <2>3 DEF Last
<1> HIDE DEF T
<1>5. CASE grouped # <<>> /\ FollowsClosely(given, k)
  <2> DEFINE front == Front(grouped)
             longer == Append(Last(grouped), cut)
             more == Append(front, longer)
             following == [g \in 1..(n + 1) |-> IF g = n + 1 THEN k + 1 ELSE first[g]]
  <2>1. /\ n \in Nat \ {0} /\ Last(grouped) \in T /\ Last(grouped) = grouped[n]
        /\ front \in Seq(T) /\ Len(front) = n - 1
        /\ \A g \in 1..(n - 1) : front[g] = grouped[g]
    BY <1>2, <1>5, LastGroup
  <2>2. longer \in T
    BY <1>3, <2>1 DEF T
  <2>3. WithCut(grouped, cut) = more
    BY <1>4, <1>5 DEF WithCut
  <2> HIDE DEF front, longer
  <2>4. /\ more \in Seq(T) /\ Len(more) = n
        /\ \A g \in 1..(n - 1) : more[g] = grouped[g]
        /\ more[n] = longer
    BY <2>1, <2>2
  <2> HIDE DEF more
  <2>5. IsGroup(given, longer, first[n], k + 1)
    <3>1. n \in 1..n
      BY <2>1
    <3>2. IsGroup(given, grouped[n], first[n], k)
      BY <1>2, <3>1
    <3> QED
      BY <1>3, <1>5, <2>1, <3>2, LongerGroup DEF longer
  <2>6. following[1] = 1 /\ following[n + 1] = k + 1 /\ following[n] = first[n]
        /\ \A g \in 1..(n - 1) : following[g] = first[g] /\ following[g + 1] = first[g + 1]
    BY <1>2, <2>1
  <2> HIDE DEF following
  <2>7. \A g \in 1..n : IsGroup(given, more[g], following[g], following[g + 1])
    <3> SUFFICES ASSUME NEW g \in 1..n PROVE IsGroup(given, more[g], following[g], following[g + 1])
      OBVIOUS
    <3>1. CASE g = n
      BY <2>4, <2>5, <2>6, <3>1
    <3>2. CASE g # n
      <4>1. g \in 1..(n - 1)
        BY <2>1, <3>2
      <4> QED
        BY <1>2, <2>4, <2>6, <4>1
    <3> QED
      BY <3>1, <3>2
  <2>8. AreGroups(more, given, k, following)
    BY <2>4, <2>6, <2>7 DEF AreGroups, T
  <2> QED
    BY <2>3, <2>8 DEF HasGroups
<1>6. CASE ~(grouped # <<>> /\ FollowsClosely(given, k))
  <2> DEFINE single == <<cut>>
             more == Append(grouped, single)
             following == [g \in 1..(n + 2) |-> IF g = n + 2 THEN k + 1 ELSE first[g]]
  <2>1. WithCut(grouped, cut) = more
    BY <1>4, <1>6 DEF WithCut
  <2>2. single \in T
    BY <1>3 DEF T
  <2>3. k = 1 \/ ~FollowsClosely(given, k)
    <3> SUFFICES ASSUME grouped = <<>> PROVE k = 1
      BY <1>6
    <3>1. n = 0
      OBVIOUS
    <3> QED
      BY <1>2, <3>1
  <2>4. IsGroup(given, single, k, k + 1)
    BY <1>3, <2>3, FirstOfGroup
  <2> HIDE DEF single
  <2>5. /\ more \in Seq(T) /\ Len(more) = n + 1
        /\ \A g \in 1..n : more[g] = grouped[g]
        /\ more[n + 1] = single
    BY <1>2, <2>2
  <2> HIDE DEF more
  <2>6. following[1] = 1 /\ following[n + 2] = k + 1 /\ following[n + 1] = k
        /\ \A g \in 1..n : following[g] = first[g] /\ following[g + 1] = first[g + 1]
    BY <1>2
  <2> HIDE DEF following
  <2>7. \A g \in 1..(n + 1) : IsGroup(given, more[g], following[g], following[g + 1])
    <3> SUFFICES ASSUME NEW g \in 1..(n + 1) PROVE IsGroup(given, more[g], following[g], following[g + 1])
      OBVIOUS
    <3>1. CASE g = n + 1
      <4>1. g + 1 = n + 2
        BY <1>2, <3>1
      <4> QED
        BY <2>4, <2>5, <2>6, <3>1, <4>1
    <3>2. CASE g # n + 1
      <4>1. g \in 1..n
        BY <1>2, <3>2
      <4> QED
        BY <1>2, <2>5, <2>6, <4>1
    <3> QED
      BY <3>1, <3>2
  <2>8. (n + 1) + 1 = n + 2
    BY <1>2
  <2>9. AreGroups(more, given, k, following)
    BY <2>5, <2>6, <2>7, <2>8 DEF AreGroups, T
  <2> QED
    BY <2>1, <2>9 DEF HasGroups
<1> QED
  BY <1>5, <1>6

LEMMA CutGroupsAre ==
    ASSUME NEW given \in Seq(CutData)
    PROVE  HasGroups(CutGroups(given), given, Len(given))
<1> DEFINE n == Len(given)
           S == 1..n
           T == Seq(Seq(CutData))
           With(grouped, cut) == IF grouped # <<>> /\ cut.at - Last(Last(grouped)).at <= CutSpacing
                                THEN Append(Front(grouped), Append(Last(grouped), cut))
                                ELSE Append(grouped, <<cut>>)
           Solves(it) == it = [s \in SUBSET DOMAIN given |->
                                 IF s = {} THEN <<>> ELSE With(it[s \ {Max(s)}], given[Max(s)])]
           grouped == CHOOSE it : Solves(it)
<1>1. CutGroups(given) = grouped[DOMAIN given]
  BY Zenon DEF CutGroups, FoldLeft, MapThenFoldSet
<1>2. n \in Nat /\ DOMAIN given = S
  OBVIOUS
<1>3. \A i \in S : given[i] \in CutData
  OBVIOUS
<1>4. \A it, cut : With(it, cut) = WithCut(it, cut)
  BY DEF WithCut
<1>5. Solves(grouped)
  <2> DEFINE none == <<>>
             add == [p \in S \X T |-> WithCut(p[2], given[p[1]])]
  <2>1. none \in T
    OBVIOUS
  <2>2. add \in [S \X T -> T]
    <3> SUFFICES ASSUME NEW i \in S, NEW it \in T PROVE WithCut(it, given[i]) \in T
      OBVIOUS
    <3> DEFINE cut == given[i]
               G == Seq(CutData)
    <3>1. cut \in CutData
      BY <1>3
    <3> HIDE DEF cut
    <3>2. <<cut>> \in G /\ \A s \in G : Append(s, cut) \in G
      BY <3>1
    <3> HIDE DEF G
    <3>3. it # <<>> => Last(it) \in G /\ Front(it) \in Seq(G)
      BY LastGroup DEF G
    <3>4. WithCut(it, cut) \in Seq(G)
      BY <3>2, <3>3 DEF WithCut, G
    <3> QED
      BY <3>4 DEF G, cut
  <2>3. \A i \in S, it \in T : add[<<i, it>>] = WithCut(it, given[i])
    OBVIOUS
  <2>4. HasFoldOfItems(n, T, none, add)
    <3> HIDE DEF T, none, add, n
    <3> QED
      BY <1>2, <2>1, <2>2, FoldOfItemsExists
  <2>5. PICK it : FoldOfItems(it, n, T, none, add)
    BY <2>4 DEF HasFoldOfItems
  <2>6. Solves(it)
    <3> HIDE DEF With, add, T, n
    <3>1. \A s \in SUBSET S : it[s] = IF s = {} THEN <<>>
                                      ELSE With(it[s \ {Max(s)}], given[Max(s)])
      BY <1>2, <1>4, <2>3, <2>5 DEF FoldOfItems
    <3>2. it = [s \in SUBSET S |-> it[s]]
      BY <2>5 DEF FoldOfItems
    <3> QED
      BY <1>2, <3>1, <3>2
  <2> HIDE DEF Solves
  <2> QED
    BY <2>6
<1> HIDE DEF grouped, With
<1>6. grouped[1..0] = <<>>
  <2>1. 1..0 = {} /\ 1..0 \in SUBSET DOMAIN given
    BY <1>2
  <2> QED
    BY <1>5, <2>1
<1>7. ASSUME NEW k \in S PROVE grouped[1..k] = WithCut(grouped[1..(k - 1)], given[k])
  <2>1. 1..k \in SUBSET DOMAIN given /\ 1..k # {} /\ Max(1..k) = k
        /\ (1..k) \ {Max(1..k)} = 1..(k - 1)
    <3> HIDE DEF n
    <3> QED
      BY <1>2, LastOfFirst
  <2> QED
    BY <1>4, <1>5, <2>1
<1> HIDE DEF Solves
<1> DEFINE wrong == {k \in 0..n : ~HasGroups(grouped[1..k], given, k)}
<1>8. wrong = {}
  <2>1. SUFFICES ASSUME wrong # {} PROVE FALSE
    OBVIOUS
  <2>2. PICK k \in wrong : \A j \in wrong : k <= j
    <3>1. wrong \subseteq Nat
      OBVIOUS
    <3> HIDE DEF wrong
    <3> QED
      BY <2>1, <3>1, LeastNatural
  <2>3. k # 0
    <3> DEFINE first == [g \in {1} |-> 1]
               none == <<>>
    <3>1. none \in Seq(Seq(CutData)) /\ Len(none) = 0 /\ first[1] = 1
      OBVIOUS
    <3> HIDE DEF none, first
    <3>2. AreGroups(none, given, 0, first)
      BY <3>1 DEF AreGroups
    <3>3. HasGroups(<<>>, given, 0)
      BY <3>2 DEF HasGroups, none
    <3> QED
      BY <1>6, <2>2, <3>3
  <2> DEFINE j == k - 1
  <2>4. k \in S /\ j \in 0..n /\ ~(k <= j)
    BY <2>2, <2>3
  <2>5. HasGroups(grouped[1..j], given, j)
    BY <2>2, <2>4
  <2>6. HasGroups(WithCut(grouped[1..j], given[k]), given, k)
    BY <2>4, <2>5, OneMoreGrouped
  <2>7. grouped[1..k] = WithCut(grouped[1..j], given[k])
    BY <1>7, <2>4
  <2> HIDE DEF j
  <2> QED
    BY <2>2, <2>6, <2>7
<1>9. n \in 0..n
  BY <1>2
<1> QED
  BY <1>1, <1>2, <1>8, <1>9

-----------------------------------------------------------------------------
(***************************************************************************)
(* Merged cuts.                                                            *)
(***************************************************************************)
\* Cuts further apart than the spacing.
Spaced(given) ==
    /\ given \in Seq(CutData)
    /\ \A i \in 1..(Len(given) - 1) : given[i + 1].at - given[i].at > CutSpacing

\* The cut stands for the group from a up to z.
StandsFor(cut, given, a, z) ==
    /\ a \in 1..Len(given) /\ z - 1 \in a..Len(given)
    /\ given[a].at <= cut.at /\ cut.at <= given[z - 1].at
    /\ \A j \in (a + 1)..(z - 1) : FollowsClosely(given, j)

LEMMA MergedStandsFor ==
    ASSUME NEW given, CutList(given), NEW group, NEW a, NEW z, IsGroup(given, group, a, z)
    PROVE  MergeCutGroup(group) \in CutData /\ StandsFor(MergeCutGroup(group), given, a, z)
<1> DEFINE n == Len(given)
           m == z - a
           low == given[a].at
           high == given[z - 1].at
<1>1. /\ a \in Nat \ {0} /\ z \in Nat /\ a < z /\ z <= n + 1 /\ n \in Nat
      /\ group \in Seq(CutData) /\ Len(group) = m
      /\ \A j \in 1..m : group[j] = given[a + j - 1]
      /\ \A j \in (a + 1)..(z - 1) : FollowsClosely(given, j)
  BY DEF IsGroup, CutList
<1>2. a \in 1..n /\ z - 1 \in a..n /\ z - 1 \in 1..n /\ m \in Nat \ {0}
  <2> HIDE DEF n
  <2> QED
    BY <1>1
<1>3. \A i, j \in 1..n : i <= j => given[i].at <= given[j].at
  BY DEF CutList
<1>4. low \in Nat /\ high \in Nat
  BY <1>2, CutFields DEF CutList
<1>5. ASSUME NEW j \in 1..m PROVE low <= group[j].at /\ group[j].at <= high
  <2> DEFINE i == a + j - 1
  <2>1. i \in 1..n /\ a <= i /\ i <= z - 1
    <3> HIDE DEF n
    <3> QED
      BY <1>1
  <2>2. group[j] = given[i]
    BY <1>1
  <2> HIDE DEF i, n
  <2> QED
    BY <1>2, <1>3, <2>1, <2>2
<1>6. group # <<>>
  BY <1>1, <1>2
<1> HIDE DEF low, high
<1>7. /\ MergeCutGroup(group) \in CutData
      /\ low <= MergeCutGroup(group).at /\ MergeCutGroup(group).at <= high
  BY <1>1, <1>4, <1>5, <1>6, MergedLiesBetween
<1> QED
  BY <1>1, <1>2, <1>7 DEF StandsFor, low, high

\* The merged cuts: n groups of the cuts, and a cut for each.
AreMerged(merged, given, first) ==
    /\ merged \in Seq(CutData)
    /\ first[1] = 1 /\ first[Len(merged) + 1] = Len(given) + 1
    /\ \A g \in 1..Len(merged) :
          /\ first[g] < first[g + 1] /\ first[g] \in Nat /\ first[g + 1] \in Nat
          /\ StandsFor(merged[g], given, first[g], first[g + 1])
          /\ g = 1 \/ ~FollowsClosely(given, first[g])

LEMMA MergedAre ==
    ASSUME NEW given, CutList(given)
    PROVE  \E first : AreMerged(MergeCandidateCuts(given), given, first)
<1> DEFINE grouped == CutGroups(given)
           m == Len(grouped)
           merged == MergeCandidateCuts(given)
<1>1. given \in Seq(CutData) /\ Len(given) \in Nat
  BY DEF CutList
<1>2. PICK first : AreGroups(grouped, given, Len(given), first)
  BY <1>1, CutGroupsAre DEF HasGroups
<1>3. merged = [g \in 1..m |-> MergeCutGroup(grouped[g])]
  BY DEF MergeCandidateCuts
<1>4. /\ grouped \in Seq(Seq(CutData)) /\ m \in Nat
      /\ first[1] = 1 /\ first[m + 1] = Len(given) + 1
      /\ \A g \in 1..m : IsGroup(given, grouped[g], first[g], first[g + 1])
  BY <1>2 DEF AreGroups
<1> HIDE DEF grouped, m, merged
<1>5. \A g \in 1..m : MergeCutGroup(grouped[g]) \in CutData
                      /\ StandsFor(MergeCutGroup(grouped[g]), given, first[g], first[g + 1])
  BY <1>4, MergedStandsFor
<1>6. merged \in Seq(CutData) /\ Len(merged) = m /\ \A g \in 1..m : merged[g] = MergeCutGroup(grouped[g])
  BY <1>3, <1>4, <1>5
<1>7. ASSUME NEW g \in 1..m
      PROVE  /\ first[g] < first[g + 1] /\ first[g] \in Nat /\ first[g + 1] \in Nat
             /\ g = 1 \/ ~FollowsClosely(given, first[g])
  <2>1. IsGroup(given, grouped[g], first[g], first[g + 1])
    BY <1>4
  <2>2. /\ first[g] < first[g + 1] /\ first[g] \in Nat /\ first[g + 1] \in Nat
        /\ first[g] = 1 \/ ~FollowsClosely(given, first[g])
    BY <2>1 DEF IsGroup
  <2>3. g # 1 => first[g] # 1
    <3> SUFFICES ASSUME g # 1 PROVE first[g] # 1
      OBVIOUS
    <3> DEFINE h == g - 1
    <3>1. h \in 1..m /\ h + 1 = g
      BY <1>4
    <3> HIDE DEF h
    <3>2. IsGroup(given, grouped[h], first[h], first[g])
      BY <1>4, <3>1
    <3> QED
      BY <3>2 DEF IsGroup
  <2> QED
    BY <2>2, <2>3
<1>8. AreMerged(merged, given, first)
  BY <1>4, <1>5, <1>6, <1>7 DEF AreMerged
<1> QED
  BY <1>8 DEF merged

LEMMA MergedAreSpaced ==
    ASSUME NEW given, CutList(given), NEW merged, NEW first, AreMerged(merged, given, first)
    PROVE  Spaced(merged)
<1> DEFINE m == Len(merged)
<1>1. merged \in Seq(CutData) /\ m \in Nat
  BY DEF AreMerged
<1>2. ASSUME NEW g \in 1..(m - 1) PROVE merged[g + 1].at - merged[g].at > CutSpacing
  <2> DEFINE h == g + 1
             z == first[h]
             following == first[h + 1]
  <2>1. g \in 1..m /\ h \in 1..m /\ h # 1
    BY <1>1
  <2>2. StandsFor(merged[g], given, first[g], z) /\ StandsFor(merged[h], given, z, following) /\ ~FollowsClosely(given, z)
    BY <2>1 DEF AreMerged
  <2>3. merged[g].at \in Nat /\ merged[h].at \in Nat
    BY <1>1, <2>1, CutFields
  <2>4. z \in 1..Len(given) /\ z - 1 \in 1..Len(given) /\ merged[g].at <= given[z - 1].at /\ given[z].at <= merged[h].at
    BY <2>2 DEF StandsFor
  <2>5. given[z].at \in Nat /\ given[z - 1].at \in Nat
    BY <2>4, CutFields DEF CutList
  <2>6. given[z].at - given[z - 1].at > CutSpacing
    BY <2>2, <2>5 DEF FollowsClosely, CutSpacing
  <2> HIDE DEF z
  <2> DEFINE p == merged[g].at  q == merged[h].at  x == given[z - 1].at  y == given[z].at
  <2>7. p \in Nat /\ q \in Nat /\ x \in Nat /\ y \in Nat /\ p <= x /\ y <= q /\ y - x > 750
    BY <2>3, <2>4, <2>5, <2>6 DEF CutSpacing
  <2> HIDE DEF p, q, x, y
  <2>8. q - p > 750
    BY <2>7
  <2> QED
    BY <2>8 DEF p, q, CutSpacing
<1> QED
  BY <1>1, <1>2 DEF Spaced

\* Every cut is in a group.
LEMMA CutsAreCovered ==
    ASSUME NEW given, CutList(given), NEW merged, NEW first, AreMerged(merged, given, first),
           NEW i \in 1..Len(given)
    PROVE  \E g \in 1..Len(merged) : first[g] <= i /\ i <= first[g + 1] - 1
<1> DEFINE m == Len(merged)
           n == Len(given)
           last == m + 1
           later == {h \in 1..last : i < first[h]}
<1>1. /\ m \in Nat /\ n \in Nat /\ last \in Nat /\ last \in 1..last
      /\ first[1] = 1 /\ first[last] = n + 1
      /\ \A g \in 1..m : first[g] \in Nat /\ first[g + 1] \in Nat
  BY DEF AreMerged, CutList
<1>2. i \in Nat /\ 1 <= i /\ i < n + 1
  OBVIOUS
<1>3. last \in later
  BY <1>1, <1>2
<1>4. PICK h \in later : \A j \in later : h <= j
  <2>1. later \subseteq Nat
    OBVIOUS
  <2> HIDE DEF later
  <2> QED
    BY <1>3, <2>1, LeastNatural
<1>5. h \in 1..last /\ i < first[h]
  BY <1>4
<1>6. h # 1
  BY <1>1, <1>2, <1>5
<1> DEFINE g == h - 1
<1>7. g \in 1..m /\ g + 1 = h /\ g \in 1..last /\ ~(h <= g)
  BY <1>1, <1>5, <1>6
<1>8. g \notin later
  BY <1>4, <1>7
<1> HIDE DEF g, m, n, last
<1>9. ~(i < first[g])
  BY <1>7, <1>8
<1>10. first[g] \in Nat /\ first[h] \in Nat
  BY <1>1, <1>7
<1>11. first[g] <= i /\ i <= first[g + 1] - 1
  BY <1>2, <1>5, <1>7, <1>9, <1>10
<1> QED
  BY <1>7, <1>11 DEF m

TimesOf(given) == {given[i].at : i \in 1..Len(given)}

Chained(given, low, high) ==
    \A t \in TimesOf(given) : low <= t /\ t < high =>
        \E u \in TimesOf(given) : t < u /\ u <= high /\ u - t <= CutSpacing

\* The cuts of a group follow each other within the spacing.
LEMMA GroupsAreChained ==
    ASSUME NEW given, CutList(given), NEW cut, NEW a, NEW z, StandsFor(cut, given, a, z)
    PROVE  Chained(given, given[a].at, given[z - 1].at)
<1> DEFINE n == Len(given)
           b == z - 1
<1>1. /\ n \in Nat /\ a \in 1..n /\ b \in a..n /\ b \in 1..n
      /\ \A j \in (a + 1)..b : FollowsClosely(given, j)
  BY DEF StandsFor, CutList
<1>2. \A i \in 1..n : given[i].at \in Nat
  BY CutFields DEF CutList
<1>3. \A i, j \in 1..n : i <= j => given[i].at <= given[j].at
  BY DEF CutList
<1> HIDE DEF n, b
<1>4. ASSUME NEW k \in 1..n, given[a].at <= given[k].at, given[k].at < given[b].at
      PROVE  \E i \in 1..n : /\ given[k].at < given[i].at /\ given[i].at <= given[b].at
                             /\ given[i].at - given[k].at <= CutSpacing
  <2> DEFINE t == given[k].at
             later == {i \in a..b : t < given[i].at}
  <2>1. b \in later
    BY <1>1, <1>4
  <2>2. PICK i \in later : \A j \in later : i <= j
    <3>1. later \subseteq Nat
      BY <1>1
    <3> HIDE DEF later
    <3> QED
      BY <2>1, <3>1, LeastNatural
  <2>3. i \in a..b /\ t < given[i].at
    BY <2>2
  <2>4. i # a
    BY <1>1, <1>2, <1>4, <2>3
  <2> DEFINE j == i - 1
  <2>5. j \in a..b /\ j \in 1..n /\ i \in 1..n /\ i \in (a + 1)..b /\ i <= b /\ ~(i <= j)
    BY <1>1, <2>3, <2>4
  <2>6. FollowsClosely(given, i)
    BY <1>1, <2>5
  <2>7. ~(t < given[j].at)
    <3> HIDE DEF j
    <3> QED
      BY <2>2, <2>5
  <2>8. given[i].at - given[j].at <= 750
    BY <2>6 DEF FollowsClosely, CutSpacing
  <2> HIDE DEF j
  <2>9. given[i].at \in Nat /\ given[j].at \in Nat /\ t \in Nat
    BY <1>2, <2>5
  <2>10. given[i].at - t <= CutSpacing
    <3> DEFINE x == given[i].at  y == given[j].at
    <3>1. x \in Nat /\ y \in Nat /\ t \in Nat /\ ~(t < y) /\ x - y <= 750
      BY <2>7, <2>8, <2>9
    <3> HIDE DEF x, y, t
    <3>2. x - t <= 750
      BY <3>1
    <3> QED
      BY <3>2 DEF x, CutSpacing
  <2>11. given[i].at <= given[b].at
    BY <1>1, <1>3, <2>5
  <2> QED
    BY <2>3, <2>5, <2>10, <2>11
<1>5. SUFFICES ASSUME NEW t \in TimesOf(given), given[a].at <= t, t < given[b].at
               PROVE  \E u \in TimesOf(given) : t < u /\ u <= given[b].at /\ u - t <= CutSpacing
  BY DEF Chained, b
<1>6. PICK k \in 1..n : t = given[k].at
  BY DEF TimesOf, n
<1>7. PICK i \in 1..n : /\ given[k].at < given[i].at /\ given[i].at <= given[b].at
                        /\ given[i].at - given[k].at <= CutSpacing
  BY <1>4, <1>5, <1>6
<1>8. given[i].at \in TimesOf(given)
  BY DEF TimesOf, n
<1> QED
  BY <1>6, <1>7, <1>8

\* A cut of the merged ones whose span, between two proposals, has the time.
Accounted(merged, given, t) ==
    \E i \in 1..Len(merged) : \E a, b \in TimesOf(given) :
        /\ a <= t /\ t <= b /\ a <= merged[i].at /\ merged[i].at <= b
        /\ Chained(given, a, b)

LEMMA MergedAccountForAll ==
    ASSUME NEW given, CutList(given), NEW t \in TimesOf(given)
    PROVE  Accounted(MergeCandidateCuts(given), given, t)
<1> DEFINE merged == MergeCandidateCuts(given)
<1>1. PICK first : AreMerged(merged, given, first)
  BY MergedAre
<1> HIDE DEF merged
<1>2. PICK k \in 1..Len(given) : t = given[k].at
  BY DEF TimesOf
<1>3. PICK g \in 1..Len(merged) : first[g] <= k /\ k <= first[g + 1] - 1
  BY <1>1, CutsAreCovered
<1> DEFINE a == first[g]
           z == first[g + 1]
<1>4. StandsFor(merged[g], given, a, z)
  BY <1>1 DEF AreMerged
<1> HIDE DEF a, z
<1>5. /\ a \in 1..Len(given) /\ z - 1 \in 1..Len(given)
      /\ given[a].at <= merged[g].at /\ merged[g].at <= given[z - 1].at
  <2>1. Len(given) \in Nat
    BY DEF CutList
  <2> QED
    BY <1>4, <2>1 DEF StandsFor
<1>6. Chained(given, given[a].at, given[z - 1].at)
  BY <1>4, GroupsAreChained
<1>7. given[a].at <= t /\ t <= given[z - 1].at
  BY <1>2, <1>3, <1>5 DEF CutList, a, z
<1>8. given[a].at \in TimesOf(given) /\ given[z - 1].at \in TimesOf(given)
  BY <1>5 DEF TimesOf
<1>9. Accounted(merged, given, t)
  BY <1>5, <1>6, <1>7, <1>8 DEF Accounted
<1> QED
  BY <1>9 DEF merged

LEMMA MeanOfOne ==
    ASSUME NEW cut \in CutData
    PROVE  MergeCutGroup(<<cut>>) = cut
<1> DEFINE group == <<cut>>
           merged == MergeCutGroup(group)
           confidences == {group[i].confidence : i \in DOMAIN group}
           highest == CHOOSE c \in confidences : \A i \in DOMAIN group : c >= group[i].confidence
           at == cut.at
<1>1. cut.at \in Nat /\ cut.confidence \in Confidences /\ cut = [at |-> cut.at, confidence |-> cut.confidence]
  BY DEF CutData
<1>2. group \in Seq(CutData) /\ group # <<>> /\ DOMAIN group = {1} /\ Len(group) = 1 /\ group[1] = cut
  OBVIOUS
<1>3. merged.confidence = highest
  BY DEF MergeCutGroup
<1>4. \E place : merged = [at |-> place, confidence |-> highest]
  BY DEF MergeCutGroup
<1>5. highest = cut.confidence
  <2>1. cut.confidence \in Int
    <3> DEFINE c == cut.confidence
    <3>1. c \in Confidences
      BY <1>1
    <3> HIDE DEF c
    <3>2. c \in Int
      BY <3>1 DEF Confidences
    <3> QED
      BY <3>2 DEF c
  <2>2. confidences = {cut.confidence}
    BY <1>2
  <2>3. \A i \in DOMAIN group : cut.confidence >= group[i].confidence
    BY <1>2, <2>1
  <2> QED
    BY <2>2, <2>3
<1> HIDE DEF highest, group, merged
<1>6. at \in Nat /\ \A i \in 1..Len(group) : at <= group[i].at /\ group[i].at <= at
  BY <1>1, <1>2
<1> HIDE DEF at
<1>7. merged \in CutData /\ at <= merged.at /\ merged.at <= at
  BY <1>2, <1>6, MergedLiesBetween DEF merged
<1>8. merged.at \in Nat
  BY <1>7 DEF CutData
<1>9. merged.at = cut.at
  BY <1>6, <1>7, <1>8 DEF at
<1> QED
  BY <1>1, <1>4, <1>5, <1>9 DEF merged, group

\* Cuts apart are not merged any more.
LEMMA MergedOnceForAll ==
    ASSUME NEW given, Spaced(given)
    PROVE  MergeCandidateCuts(given) = given
<1> DEFINE n == Len(given)
           grouped == CutGroups(given)
           m == Len(grouped)
<1>1. given \in Seq(CutData) /\ n \in Nat
  BY DEF Spaced
<1>2. PICK first : AreGroups(grouped, given, n, first)
  BY <1>1, CutGroupsAre DEF HasGroups
<1>3. /\ grouped \in Seq(Seq(CutData)) /\ m \in Nat
      /\ first[1] = 1 /\ first[m + 1] = n + 1
      /\ \A g \in 1..m : IsGroup(given, grouped[g], first[g], first[g + 1])
  BY <1>2 DEF AreGroups
<1>4. MergeCandidateCuts(given) = [g \in 1..m |-> MergeCutGroup(grouped[g])]
  BY DEF MergeCandidateCuts
<1>5. \A i \in 1..(n - 1) : ~FollowsClosely(given, i + 1)
  <2> SUFFICES ASSUME NEW i \in 1..(n - 1) PROVE ~FollowsClosely(given, i + 1)
    OBVIOUS
  <2>1. (i + 1) - 1 = i /\ i \in 1..n /\ i + 1 \in 1..n
    BY <1>1
  <2> DEFINE j == i + 1
  <2>2. given[i].at \in Nat /\ given[j].at \in Nat /\ given[j].at - given[i].at > 750
    BY <1>1, <2>1, CutFields DEF Spaced, CutSpacing
  <2>3. FollowsClosely(given, j) <=> given[j].at - given[i].at <= 750
    BY <2>1 DEF FollowsClosely, CutSpacing
  <2> QED
    BY <2>2, <2>3
<1> HIDE DEF n, grouped, m
<1>6. ASSUME NEW g \in 1..m
      PROVE  first[g] \in Nat \ {0} /\ first[g + 1] = first[g] + 1
  <2> DEFINE a == first[g]
             z == first[g + 1]
  <2>1. /\ a \in Nat \ {0} /\ z \in Nat /\ a < z /\ z <= n + 1
        /\ \A j \in (a + 1)..(z - 1) : FollowsClosely(given, j)
    BY <1>3 DEF IsGroup, n
  <2> HIDE DEF a, z
  <2>2. ASSUME z # a + 1 PROVE FALSE
    <3>1. a + 1 \in (a + 1)..(z - 1) /\ a \in 1..(n - 1)
      BY <1>1, <2>1, <2>2
    <3> QED
      BY <1>5, <2>1, <3>1
  <2> QED
    BY <2>1, <2>2 DEF a, z
<1> DEFINE wrong == {g \in 1..(m + 1) : first[g] # g}
<1>7. wrong = {}
  <2>1. SUFFICES ASSUME wrong # {} PROVE FALSE
    OBVIOUS
  <2>2. PICK g \in wrong : \A h \in wrong : g <= h
    <3>1. wrong \subseteq Nat
      OBVIOUS
    <3> HIDE DEF wrong
    <3> QED
      BY <2>1, <3>1, LeastNatural
  <2>3. g # 1
    BY <1>3, <2>2
  <2> DEFINE h == g - 1
  <2>4. h \in 1..m /\ h \in 1..(m + 1) /\ h + 1 = g /\ ~(g <= h)
    BY <1>3, <2>2, <2>3
  <2>5. first[h] = h
    BY <2>2, <2>4
  <2> HIDE DEF h
  <2>6. first[g] = h + 1
    BY <1>6, <2>4, <2>5
  <2> QED
    BY <2>2, <2>4, <2>6
<1>8. \A g \in 1..(m + 1) : first[g] = g
  BY <1>7
<1>9. m = n
  <2>1. m + 1 \in 1..(m + 1)
    BY <1>3
  <2> QED
    BY <1>1, <1>3, <1>8, <2>1
<1>10. ASSUME NEW g \in 1..n PROVE MergeCutGroup(grouped[g]) = given[g]
  <2> DEFINE group == grouped[g]
             one == 1
  <2>1. g \in 1..m /\ g \in 1..(m + 1) /\ g + 1 \in 1..(m + 1) /\ (g + 1) - g = one /\ one \in 1..one /\ g + one - 1 = g
    BY <1>1, <1>9
  <2>2. IsGroup(given, group, g, g + 1)
    <3>1. first[g] = g /\ first[g + 1] = g + 1
      BY <1>8, <2>1
    <3> QED
      BY <1>3, <2>1, <3>1
  <2>3. group \in Seq(CutData) /\ Len(group) = one /\ group[one] = given[g]
    <3> HIDE DEF group, one
    <3> QED
      BY <2>1, <2>2 DEF IsGroup
  <2> HIDE DEF group
  <2>4. group = <<given[g]>>
    BY <2>3
  <2>5. given[g] \in CutData
    BY <1>1, CutFields DEF n
  <2> QED
    BY <2>4, <2>5, MeanOfOne DEF group
<1>11. given = [g \in 1..n |-> given[g]]
  BY <1>1 DEF n
<1> QED
  BY <1>4, <1>9, <1>10, <1>11

LEMMA SpacedInOrder ==
    ASSUME NEW given, Spaced(given)
    PROVE  CutList(given)
<1> DEFINE n == Len(given)
<1>1. given \in Seq(CutData) /\ n \in Nat
  BY DEF Spaced
<1>2. \A i \in 1..n : given[i].at \in Nat
  BY <1>1, CutFields
<1>3. \A i \in 1..(n - 1) : given[i + 1].at - given[i].at > 750
  BY DEF Spaced, CutSpacing
<1> HIDE DEF n
<1>4. ASSUME NEW i \in 1..n, NEW j \in 1..n, i <= j PROVE given[i].at <= given[j].at
  <2> DEFINE wrong == {h \in i..n : ~(given[i].at <= given[h].at)}
  <2>1. wrong = {}
    <3>1. SUFFICES ASSUME wrong # {} PROVE FALSE
      OBVIOUS
    <3>2. PICK h \in wrong : \A g \in wrong : h <= g
      <4>1. wrong \subseteq Nat
        OBVIOUS
      <4> HIDE DEF wrong
      <4> QED
        BY <3>1, <4>1, LeastNatural
    <3>3. h # i
      BY <1>2, <3>2
    <3> DEFINE g == h - 1
    <3>4. g \in i..n /\ ~(h <= g) /\ g \in 1..(n - 1) /\ h \in 1..n /\ g \in 1..n /\ g + 1 = h
      BY <1>1, <3>2, <3>3
    <3>5. given[i].at <= given[g].at
      BY <3>2, <3>4
    <3> HIDE DEF g
    <3>6. given[h].at - given[g].at > 750
      BY <1>3, <3>4
    <3> DEFINE x == given[i].at  y == given[g].at  z == given[h].at
    <3>7. x \in Nat /\ y \in Nat /\ z \in Nat /\ x <= y /\ z - y > 750
      BY <1>2, <3>4, <3>5, <3>6
    <3> HIDE DEF x, y, z
    <3>8. x <= z
      BY <3>7
    <3> QED
      BY <3>2, <3>8 DEF x, z
  <2>2. j \in i..n
    BY <1>1, <1>4
  <2> QED
    BY <2>1, <2>2
<1> QED
  BY <1>1, <1>4 DEF CutList, n

-----------------------------------------------------------------------------
(***************************************************************************)
(* Accepted cuts.                                                          *)
(***************************************************************************)
Acceptable(accepted, cut) ==
    /\ 0 < cut.at /\ cut.at < duration
    /\ cut.at - (IF accepted = <<>> THEN 0 ELSE Last(accepted).at) >= MinimumWindow
    /\ 2 * (duration - cut.at) >= MinimumWindow

WithAcceptable(accepted, cut) ==
    IF Acceptable(accepted, cut) THEN Append(accepted, cut) ELSE accepted

\* A cut at t is accepted or leaves too short a window.
Settled(accepted, t) ==
    \/ t < MinimumWindow
    \/ \E i \in 1..Len(accepted) : accepted[i].at <= t /\ t - accepted[i].at < MinimumWindow
    \/ 2 * (duration - t) < MinimumWindow

\* The accepted ones among the first k cuts.
Accepts(accepted, given, k) ==
    /\ accepted \in Seq(CutData)
    /\ \A i \in 1..Len(accepted) : /\ accepted[i].at < duration
                                   /\ 2 * (duration - accepted[i].at) >= MinimumWindow
    /\ accepted # <<>> => accepted[1].at >= MinimumWindow
    /\ \A i \in 1..(Len(accepted) - 1) : accepted[i + 1].at - accepted[i].at >= MinimumWindow
    /\ \A i \in 1..Len(accepted), j \in 1..Len(given) : k <= j => accepted[i].at <= given[j].at
    /\ \A j \in 1..k : Settled(accepted, given[j].at)

LEMMA SettledStays ==
    ASSUME NEW accepted \in Seq(CutData), NEW cut \in CutData, NEW t, Settled(accepted, t)
    PROVE  Settled(Append(accepted, cut), t)
<1> DEFINE n == Len(accepted)
           more == Append(accepted, cut)
<1>1. n \in Nat /\ Len(more) = n + 1 /\ \A i \in 1..n : more[i] = accepted[i]
  OBVIOUS
<1> HIDE DEF more
<1>2. CASE \E i \in 1..n : accepted[i].at <= t /\ t - accepted[i].at < MinimumWindow
  <2>1. PICK i \in 1..n : accepted[i].at <= t /\ t - accepted[i].at < MinimumWindow
    BY <1>2
  <2>2. i \in 1..Len(more) /\ more[i] = accepted[i]
    BY <1>1
  <2>3. Settled(more, t)
    BY <2>1, <2>2 DEF Settled
  <2> QED
    BY <2>3 DEF more
<1>3. CASE t < MinimumWindow \/ 2 * (duration - t) < MinimumWindow
  BY <1>3 DEF Settled
<1> QED
  BY <1>2, <1>3 DEF Settled

LEMMA OneMoreAccepted ==
    ASSUME duration \in Nat, NEW given, CutList(given), NEW k \in 1..Len(given),
           NEW accepted, Accepts(accepted, given, k - 1)
    PROVE  Accepts(WithAcceptable(accepted, given[k]), given, k)
<1> DEFINE n == Len(accepted)
           cut == given[k]
           at == given[k].at
           last == IF accepted = <<>> THEN 0 ELSE Last(accepted).at
           more == Append(accepted, cut)
<1>1. /\ accepted \in Seq(CutData) /\ n \in Nat
      /\ \A i \in 1..n : /\ accepted[i].at < duration
                         /\ 2 * (duration - accepted[i].at) >= MinimumWindow
      /\ accepted # <<>> => accepted[1].at >= MinimumWindow
      /\ \A i \in 1..(n - 1) : accepted[i + 1].at - accepted[i].at >= MinimumWindow
      /\ \A i \in 1..n, j \in 1..Len(given) : k - 1 <= j => accepted[i].at <= given[j].at
      /\ \A j \in 1..(k - 1) : Settled(accepted, given[j].at)
  BY DEF Accepts
<1>2. cut \in CutData /\ at \in Nat
  BY CutFields DEF CutList
<1>3. \A i \in 1..n : accepted[i].at \in Nat
  BY <1>1, CutFields
<1>4. last \in Nat /\ (accepted # <<>> => n \in 1..n /\ last = accepted[n].at /\ last <= at)
  <2>1. accepted # <<>> => n \in 1..n
    BY <1>1
  <2>2. accepted # <<>> => last = accepted[n].at
    BY DEF Last
  <2>3. k \in 1..Len(given) /\ k - 1 <= k
    OBVIOUS
  <2>4. accepted # <<>> => accepted[n].at <= at
    BY <1>1, <2>1, <2>3
  <2>5. last \in Nat
    <3>1. CASE accepted = <<>>
      BY <3>1
    <3>2. CASE accepted # <<>>
      BY <1>3, <2>1, <2>2, <3>2
    <3> QED
      BY <3>1, <3>2
  <2> HIDE DEF last
  <2> QED
    BY <2>1, <2>2, <2>4, <2>5
<1>5. Acceptable(accepted, cut) <=> /\ 0 < at /\ at < duration /\ at - last >= MinimumWindow
                                    /\ 2 * (duration - at) >= MinimumWindow
  BY DEF Acceptable
<1>6. \A j \in 1..k : j \in 1..(k - 1) \/ j = k
  OBVIOUS
<1>7. \A j \in 1..Len(given) : k <= j => k - 1 <= j /\ at <= given[j].at
  BY DEF CutList
<1>8. last = 0 \/ accepted # <<>>
  OBVIOUS
<1> HIDE DEF n, cut, at, last
<1>9. CASE Acceptable(accepted, cut)
  <2>1. WithAcceptable(accepted, cut) = more
    BY <1>9 DEF WithAcceptable
  <2>2. /\ more \in Seq(CutData) /\ Len(more) = n + 1 /\ more # <<>>
        /\ \A i \in 1..n : more[i] = accepted[i]
        /\ more[n + 1] = cut
    <3>1. /\ more \in Seq(CutData) /\ Len(more) = n + 1
          /\ \A i \in 1..n : more[i] = accepted[i]
          /\ more[n + 1] = cut
      BY <1>1, <1>2 DEF n
    <3>2. n + 1 # 0
      BY <1>1
    <3> HIDE DEF more
    <3>3. more # <<>>
      BY <3>1, <3>2
    <3> QED
      BY <3>1, <3>3
  <2>3. \A j \in 1..(k - 1) : Settled(more, given[j].at)
    BY <1>1, <1>2, SettledStays
  <2> HIDE DEF more
  <2>4. cut.at = at
    BY DEF cut, at
  <2>5. Settled(more, at)
    <3>1. n + 1 \in 1..Len(more)
      BY <1>1, <2>2
    <3>2. at <= at /\ at - at < 1000
      BY <1>2
    <3> QED
      BY <2>2, <2>4, <3>1, <3>2 DEF Settled, MinimumWindow
  <2>6. \A j \in 1..k : Settled(more, given[j].at)
    BY <1>6, <2>3, <2>5 DEF at
  <2>7. /\ 0 < at /\ at < duration /\ at - last >= MinimumWindow
        /\ 2 * (duration - at) >= MinimumWindow
    BY <1>5, <1>9
  <2>8. \A i \in 1..Len(more) : i \in 1..n \/ i = n + 1
    BY <1>1, <2>2
  <2>9. \A i \in 1..Len(more) : /\ more[i].at < duration
                                /\ 2 * (duration - more[i].at) >= MinimumWindow
    BY <1>1, <2>2, <2>4, <2>7, <2>8
  <2>10. more[1].at >= MinimumWindow
    <3>1. CASE n = 0
      <4>1. last = 0
        BY <1>1, <1>8, <3>1 DEF n
      <4>2. at >= 1000
        BY <1>2, <2>7, <4>1 DEF MinimumWindow
      <4> QED
        BY <2>2, <2>4, <3>1, <4>2 DEF MinimumWindow
    <3>2. CASE n # 0
      <4>1. 1 \in 1..n /\ accepted # <<>>
        BY <1>1, <3>2 DEF n
      <4> QED
        BY <1>1, <2>2, <4>1
    <3> QED
      BY <3>1, <3>2
  <2>11. ASSUME NEW i \in 1..(Len(more) - 1)
         PROVE  more[i + 1].at - more[i].at >= MinimumWindow
    <3>1. CASE i \in 1..(n - 1)
      <4>1. i \in 1..n /\ i + 1 \in 1..n
        BY <1>1, <3>1
      <4> QED
        BY <1>1, <2>2, <3>1, <4>1
    <3>2. CASE i \notin 1..(n - 1)
      <4>1. i = n /\ n \in 1..n
        BY <1>1, <2>2, <3>2
      <4>2. more[i] = accepted[n] /\ more[i + 1] = cut /\ accepted # <<>>
        BY <2>2, <4>1 DEF n
      <4> QED
        BY <1>4, <2>4, <2>7, <4>2
    <3> QED
      BY <3>1, <3>2
  <2>12. \A i \in 1..Len(more), j \in 1..Len(given) : k <= j => more[i].at <= given[j].at
    BY <1>1, <1>7, <2>2, <2>4, <2>8
  <2>13. Accepts(more, given, k)
    BY <2>2, <2>6, <2>9, <2>10, <2>11, <2>12 DEF Accepts
  <2> QED
    BY <2>1, <2>13 DEF cut
<1>10. CASE ~Acceptable(accepted, cut)
  <2>1. WithAcceptable(accepted, cut) = accepted
    BY <1>10 DEF WithAcceptable
  <2>2. Settled(accepted, at)
    <3>1. ~(0 < at) \/ ~(at < duration) \/ ~(at - last >= 1000) \/ 2 * (duration - at) < 1000
      BY <1>2, <1>5, <1>10 DEF MinimumWindow
    <3>2. CASE at - last >= 1000
      <4>1. at < 1000 \/ 2 * (duration - at) < 1000
        BY <1>2, <3>1, <3>2
      <4> QED
        BY <4>1 DEF Settled, MinimumWindow
    <3>3. CASE ~(at - last >= 1000)
      <4>1. CASE last = 0
        <5>1. at < 1000
          BY <1>2, <3>3, <4>1
        <5> QED
          BY <5>1 DEF Settled, MinimumWindow
      <4>2. CASE accepted # <<>>
        <5>1. n \in 1..n /\ accepted[n].at <= at /\ at - accepted[n].at < 1000
          BY <1>2, <1>4, <3>3, <4>2
        <5> QED
          BY <5>1 DEF Settled, MinimumWindow, n
      <4> QED
        BY <1>8, <4>1, <4>2
    <3> QED
      BY <3>2, <3>3
  <2>3. \A j \in 1..k : Settled(accepted, given[j].at)
    BY <1>1, <1>6, <2>2 DEF at
  <2>4. \A i \in 1..n, j \in 1..Len(given) : k <= j => accepted[i].at <= given[j].at
    BY <1>1, <1>7
  <2>5. Accepts(accepted, given, k)
    BY <1>1, <2>3, <2>4 DEF Accepts, n
  <2> QED
    BY <2>1, <2>5 DEF cut
<1> QED
  BY <1>9, <1>10

LEMMA AcceptedCutsAre ==
    ASSUME duration \in Nat, NEW given, CutList(given)
    PROVE  Accepts(AcceptedCuts(given), given, Len(given))
<1> DEFINE n == Len(given)
           S == 1..n
           T == Seq(CutData)
           With(accepted, cut) ==
               IF /\ 0 < cut.at /\ cut.at < duration
                  /\ cut.at - (IF accepted = <<>> THEN 0 ELSE Last(accepted).at) >= MinimumWindow
                  /\ 2 * (duration - cut.at) >= MinimumWindow
               THEN Append(accepted, cut) ELSE accepted
           Solves(it) == it = [s \in SUBSET DOMAIN given |->
                                 IF s = {} THEN <<>> ELSE With(it[s \ {Max(s)}], given[Max(s)])]
           accepted == CHOOSE it : Solves(it)
<1>1. AcceptedCuts(given) = accepted[DOMAIN given]
  BY Zenon DEF AcceptedCuts, FoldLeft, MapThenFoldSet
<1>2. n \in Nat /\ DOMAIN given = S /\ \A i \in S : given[i] \in CutData
  <2>1. given \in Seq(CutData)
    BY DEF CutList
  <2> QED
    BY <2>1
<1>3. \A it, cut : With(it, cut) = WithAcceptable(it, cut)
  BY DEF WithAcceptable, Acceptable
<1>4. Solves(accepted)
  <2> DEFINE none == <<>>
             add == [p \in S \X T |-> WithAcceptable(p[2], given[p[1]])]
  <2>1. none \in T
    OBVIOUS
  <2>2. add \in [S \X T -> T]
    <3> SUFFICES ASSUME NEW i \in S, NEW it \in T PROVE WithAcceptable(it, given[i]) \in T
      OBVIOUS
    <3>1. given[i] \in CutData
      BY <1>2
    <3> QED
      BY <3>1 DEF WithAcceptable
  <2>3. \A i \in S, it \in T : add[<<i, it>>] = WithAcceptable(it, given[i])
    OBVIOUS
  <2>4. HasFoldOfItems(n, T, none, add)
    <3> HIDE DEF T, none, add, n
    <3> QED
      BY <1>2, <2>1, <2>2, FoldOfItemsExists
  <2>5. PICK it : FoldOfItems(it, n, T, none, add)
    BY <2>4 DEF HasFoldOfItems
  <2>6. Solves(it)
    <3> HIDE DEF With, add, T, n
    <3>1. \A s \in SUBSET S : it[s] = IF s = {} THEN <<>>
                                      ELSE With(it[s \ {Max(s)}], given[Max(s)])
      BY <1>2, <1>3, <2>3, <2>5 DEF FoldOfItems
    <3>2. it = [s \in SUBSET S |-> it[s]]
      BY <2>5 DEF FoldOfItems
    <3> QED
      BY <1>2, <3>1, <3>2
  <2> HIDE DEF Solves
  <2> QED
    BY <2>6
<1> HIDE DEF accepted, With, n
<1>5. accepted[1..0] = <<>>
  <2>1. 1..0 = {} /\ 1..0 \in SUBSET DOMAIN given
    BY <1>2
  <2> QED
    BY <1>4, <2>1
<1>6. ASSUME NEW k \in S PROVE accepted[1..k] = WithAcceptable(accepted[1..(k - 1)], given[k])
  <2>1. 1..k \in SUBSET DOMAIN given /\ 1..k # {} /\ Max(1..k) = k
        /\ (1..k) \ {Max(1..k)} = 1..(k - 1)
    BY <1>2, LastOfFirst
  <2> QED
    BY <1>3, <1>4, <2>1
<1> HIDE DEF Solves
<1> DEFINE wrong == {k \in 0..n : ~Accepts(accepted[1..k], given, k)}
<1>7. wrong = {}
  <2>1. SUFFICES ASSUME wrong # {} PROVE FALSE
    OBVIOUS
  <2>2. PICK k \in wrong : \A j \in wrong : k <= j
    <3>1. wrong \subseteq Nat
      OBVIOUS
    <3> HIDE DEF wrong
    <3> QED
      BY <2>1, <3>1, LeastNatural
  <2>3. k # 0
    <3>1. Accepts(<<>>, given, 0)
      BY DEF Accepts
    <3> QED
      BY <1>5, <2>2, <3>1
  <2> DEFINE j == k - 1
  <2>4. k \in S /\ j \in 0..n /\ ~(k <= j)
    BY <1>2, <2>2, <2>3
  <2>5. Accepts(accepted[1..j], given, j)
    BY <2>2, <2>4
  <2>6. Accepts(WithAcceptable(accepted[1..j], given[k]), given, k)
    <3>1. k \in 1..Len(given)
      BY <2>4 DEF n
    <3> QED
      BY <2>5, <3>1, OneMoreAccepted
  <2>7. accepted[1..k] = WithAcceptable(accepted[1..j], given[k])
    BY <1>6, <2>4
  <2> HIDE DEF j
  <2> QED
    BY <2>2, <2>6, <2>7
<1>8. n \in 0..n
  BY <1>2
<1> QED
  BY <1>1, <1>2, <1>7, <1>8 DEF n

-----------------------------------------------------------------------------
(***************************************************************************)
(* The boundaries of the windows.                                          *)
(***************************************************************************)
TakenCuts == AcceptedCuts(candidateCuts)

\* Where window i ends and window i + 1 starts.
Boundary(i) ==
    IF i = 0 THEN 0 ELSE IF i = Len(TakenCuts) + 1 THEN duration ELSE TakenCuts[i].at

LEMMA WindowsBetweenBoundaries ==
    ASSUME duration \in Nat, TakenCuts \in Seq(CutData)
    PROVE  WindowsOf(candidateCuts) =
             [i \in 1..(Len(TakenCuts) + 1) |->
                [start |-> Boundary(i - 1), end |-> Boundary(i), frames |-> {}]]
<1> DEFINE accepted == TakenCuts
           n == Len(accepted)
           ats == [i \in DOMAIN accepted |-> accepted[i].at]
           zero == <<0>>
           last == <<duration>>
           boundaries == zero \o ats \o last
<1>1. n \in Nat /\ DOMAIN accepted = 1..n
  OBVIOUS
<1>2. \A i \in 1..n : accepted[i].at \in Nat
  BY CutFields
<1>3. ats = [i \in 1..n |-> accepted[i].at]
  BY <1>1
<1>4. WindowsOf(candidateCuts) =
        [i \in 1..(Len(boundaries) - 1) |->
           [start |-> boundaries[i], end |-> boundaries[i + 1], frames |-> {}]]
  BY DEF WindowsOf, TakenCuts
<1> HIDE DEF accepted, n, ats
<1>5. ats \in Seq(Nat) /\ Len(ats) = n /\ \A i \in 1..n : ats[i] = accepted[i].at
  BY <1>1, <1>2, <1>3
<1>6. zero \in Seq(Nat) /\ Len(zero) = 1 /\ zero[1] = 0
      /\ last \in Seq(Nat) /\ Len(last) = 1 /\ last[1] = duration
  OBVIOUS
<1> HIDE DEF zero, last
<1>7. /\ Len(boundaries) = n + 2
      /\ \A i \in 1..(n + 2) : boundaries[i] = IF i <= n + 1
                                               THEN IF i = 1 THEN 0 ELSE ats[i - 1]
                                               ELSE duration
  <2> DEFINE front == zero \o ats
  <2>1. /\ front \in Seq(Nat) /\ Len(front) = n + 1
        /\ \A i \in 1..(n + 1) : front[i] = IF i <= 1 THEN zero[i] ELSE ats[i - 1]
    <3>1. /\ front \in Seq(Nat) /\ Len(front) = Len(zero) + Len(ats)
          /\ \A i \in 1..(Len(zero) + Len(ats)) : front[i] = IF i <= Len(zero) THEN zero[i] ELSE ats[i - Len(zero)]
      BY <1>5, <1>6, ConcatProperties
    <3>2. Len(zero) + Len(ats) = n + 1 /\ Len(zero) = 1
      BY <1>1, <1>5, <1>6
    <3> HIDE DEF front
    <3> QED
      BY <3>1, <3>2
  <2>2. boundaries = front \o last
    OBVIOUS
  <2> HIDE DEF front, boundaries
  <2>3. /\ Len(boundaries) = n + 2
        /\ \A i \in 1..(n + 2) : boundaries[i] = IF i <= n + 1 THEN front[i] ELSE last[i - (n + 1)]
    <3>1. /\ front \o last \in Seq(Nat) /\ Len(front \o last) = Len(front) + Len(last)
          /\ \A i \in 1..(Len(front) + Len(last)) :
                (front \o last)[i] = IF i <= Len(front) THEN front[i] ELSE last[i - Len(front)]
      BY <1>6, <2>1, ConcatProperties
    <3>2. Len(front) = n + 1 /\ Len(front) + Len(last) = n + 2
      BY <1>1, <1>6, <2>1
    <3> QED
      BY <2>2, <3>1, <3>2
  <2>4. ASSUME NEW i \in 1..(n + 2)
        PROVE  boundaries[i] = IF i <= n + 1 THEN IF i = 1 THEN 0 ELSE ats[i - 1] ELSE duration
    <3>1. i <= n + 1 => i \in 1..(n + 1)
      BY <1>1
    <3>2. ~(i <= n + 1) => i - (n + 1) = 1
      BY <1>1
    <3>3. i <= 1 <=> i = 1
      OBVIOUS
    <3> QED
      BY <1>6, <2>1, <2>3, <3>1, <3>2, <3>3
  <2> QED
    BY <2>3, <2>4
<1> HIDE DEF boundaries
<1>8. ASSUME NEW i \in 0..(n + 1) PROVE boundaries[i + 1] = Boundary(i)
  <2> DEFINE j == i + 1
  <2>1. j \in 1..(n + 2) /\ j - 1 = i /\ (j = 1 <=> i = 0) /\ (j <= n + 1 <=> i # n + 1)
    BY <1>1
  <2>2. i # 0 /\ i # n + 1 => i \in 1..n
    BY <1>1
  <2> HIDE DEF j
  <2>3. boundaries[j] = IF i # n + 1 THEN IF i = 0 THEN 0 ELSE ats[i] ELSE duration
    BY <1>7, <2>1
  <2>4. Boundary(i) = IF i = 0 THEN 0 ELSE IF i = n + 1 THEN duration ELSE accepted[i].at
    BY DEF Boundary, n, accepted
  <2>5. 0 # n + 1
    BY <1>1
  <2>6. boundaries[j] = Boundary(i)
    BY <1>5, <2>2, <2>3, <2>4, <2>5
  <2> QED
    BY <2>6 DEF j
<1>9. \A i \in 1..(n + 1) : boundaries[i] = Boundary(i - 1) /\ boundaries[i + 1] = Boundary(i)
  <2> SUFFICES ASSUME NEW i \in 1..(n + 1)
               PROVE  boundaries[i] = Boundary(i - 1) /\ boundaries[i + 1] = Boundary(i)
    OBVIOUS
  <2> DEFINE h == i - 1
  <2>1. i \in 0..(n + 1) /\ h \in 0..(n + 1) /\ h + 1 = i
    BY <1>1
  <2> HIDE DEF h
  <2>2. boundaries[i] = Boundary(h) /\ boundaries[i + 1] = Boundary(i)
    BY <1>8, <2>1
  <2> QED
    BY <2>2 DEF h
<1>10. Len(boundaries) - 1 = n + 1
  BY <1>1, <1>7
<1> QED
  BY <1>4, <1>9, <1>10 DEF n, accepted

LastWindow == Len(TakenCuts) + 1

BoundariesOK ==
    /\ LastWindow \in Nat \ {0}
    /\ \A i \in 0..LastWindow : Boundary(i) \in Nat
    /\ Boundary(0) = 0 /\ Boundary(LastWindow) = duration
    /\ \A i \in 1..(LastWindow - 1) : Boundary(i) - Boundary(i - 1) >= MinimumWindow
    /\ LastWindow > 1 => 2 * (Boundary(LastWindow) - Boundary(LastWindow - 1)) >= MinimumWindow
    /\ \A i, j \in 0..LastWindow : i <= j => Boundary(i) <= Boundary(j)
    /\ LastWindow > 1 => Boundary(LastWindow - 1) < duration

LEMMA BoundariesAre ==
    ASSUME duration \in Nat, Accepts(TakenCuts, candidateCuts, Len(candidateCuts))
    PROVE  BoundariesOK
<1> DEFINE n == Len(TakenCuts)
           At(i) == TakenCuts[i].at
<1>1. /\ TakenCuts \in Seq(CutData) /\ n \in Nat
      /\ \A i \in 1..n : At(i) < duration /\ 2 * (duration - At(i)) >= 1000
      /\ TakenCuts # <<>> => At(1) >= 1000
      /\ \A i \in 1..(n - 1) : At(i + 1) - At(i) >= 1000
  BY DEF Accepts, MinimumWindow
<1>2. \A i \in 1..n : At(i) \in Nat
  BY <1>1, CutFields
<1>3. \A i : Boundary(i) = IF i = 0 THEN 0 ELSE IF i = n + 1 THEN duration ELSE At(i)
  BY DEF Boundary
<1>4. n # 0 => At(1) >= 1000
  BY <1>1
<1>5. LastWindow = n + 1 /\ LastWindow \in Nat \ {0}
  BY <1>1 DEF LastWindow
<1> HIDE DEF n, At
<1>6. Boundary(0) = 0 /\ Boundary(n + 1) = duration /\ \A i \in 1..n : Boundary(i) = At(i)
  BY <1>1, <1>3
<1>7. \A i \in 0..(n + 1) : i = 0 \/ i = n + 1 \/ i \in 1..n
  BY <1>1
<1>8. \A i \in 0..(n + 1) : Boundary(i) \in Nat
  BY <1>2, <1>6, <1>7
<1>9. ASSUME NEW i \in 1..n PROVE Boundary(i) - Boundary(i - 1) >= 1000
  <2> DEFINE h == i - 1
  <2>1. h + 1 = i /\ (i # 1 => h \in 1..(n - 1) /\ h \in 1..n) /\ (i = 1 => h = 0 /\ n # 0)
    BY <1>1
  <2> HIDE DEF h
  <2>2. CASE i = 1
    <3>1. At(1) >= 1000 /\ Boundary(h) = 0 /\ Boundary(i) = At(1) /\ At(1) \in Nat
      BY <1>2, <1>4, <1>6, <2>1, <2>2
    <3> QED
      BY <3>1 DEF h
  <2>3. CASE i # 1
    <3>1. At(h + 1) - At(h) >= 1000
      BY <1>1, <2>1, <2>3
    <3>2. Boundary(i) = At(h + 1) /\ Boundary(h) = At(h)
      BY <1>6, <2>1, <2>3
    <3> QED
      BY <3>1, <3>2 DEF h
  <2> QED
    BY <2>2, <2>3
<1>10. n # 0 => 2 * (Boundary(n + 1) - Boundary(n)) >= 1000 /\ Boundary(n) < duration
  <2> SUFFICES ASSUME n # 0
               PROVE  2 * (Boundary(n + 1) - Boundary(n)) >= 1000 /\ Boundary(n) < duration
    OBVIOUS
  <2>1. n \in 1..n
    BY <1>1
  <2>2. At(n) < duration /\ 2 * (duration - At(n)) >= 1000 /\ Boundary(n) = At(n)
    BY <1>1, <1>6, <2>1
  <2> QED
    BY <1>6, <2>2
<1>11. ASSUME NEW i \in 0..n PROVE Boundary(i) <= Boundary(i + 1)
  <2>1. CASE i \in 0..(n - 1)
    <3> DEFINE j == i + 1
    <3>1. j \in 1..n /\ j - 1 = i /\ i \in 0..(n + 1) /\ j \in 0..(n + 1)
      BY <1>1, <2>1
    <3> HIDE DEF j
    <3>2. Boundary(j) - Boundary(i) >= 1000
      BY <1>9, <3>1
    <3>3. Boundary(i) \in Nat /\ Boundary(j) \in Nat
      BY <1>8, <3>1
    <3>4. Boundary(i) <= Boundary(j)
      BY <3>2, <3>3
    <3> QED
      BY <3>4 DEF j
  <2>2. CASE i = n
    <3>1. CASE n = 0
      <4>1. Boundary(i) = 0 /\ Boundary(i + 1) = duration
        BY <1>6, <2>2, <3>1
      <4> QED
        BY <4>1
    <3>2. CASE n # 0
      <4>1. Boundary(n) < duration /\ Boundary(n) \in Nat /\ Boundary(n + 1) = duration
        BY <1>1, <1>6, <1>8, <1>10, <3>2
      <4> QED
        BY <2>2, <4>1
    <3> QED
      BY <3>1, <3>2
  <2> QED
    BY <1>1, <2>1, <2>2
<1>12. ASSUME NEW i \in 0..(n + 1), NEW j \in 0..(n + 1), i <= j
       PROVE  Boundary(i) <= Boundary(j)
  <2> DEFINE wrong == {h \in i..(n + 1) : ~(Boundary(i) <= Boundary(h))}
  <2>1. wrong = {}
    <3>1. SUFFICES ASSUME wrong # {} PROVE FALSE
      OBVIOUS
    <3>2. PICK h \in wrong : \A g \in wrong : h <= g
      <4>1. wrong \subseteq Nat
        OBVIOUS
      <4> HIDE DEF wrong
      <4> QED
        BY <3>1, <4>1, LeastNatural
    <3>3. h # i
      BY <1>8, <3>2
    <3> DEFINE g == h - 1
    <3>4. g \in i..(n + 1) /\ ~(h <= g) /\ g \in 0..n /\ h \in 0..(n + 1) /\ g \in 0..(n + 1) /\ g + 1 = h
      BY <1>1, <3>2, <3>3
    <3>5. Boundary(i) <= Boundary(g)
      BY <3>2, <3>4
    <3> HIDE DEF g
    <3>6. Boundary(g) <= Boundary(h)
      BY <1>11, <3>4
    <3> DEFINE x == Boundary(i)  y == Boundary(g)  z == Boundary(h)
    <3>7. x \in Nat /\ y \in Nat /\ z \in Nat /\ x <= y /\ y <= z
      BY <1>8, <3>4, <3>5, <3>6
    <3> HIDE DEF x, y, z
    <3>8. x <= z
      BY <3>7
    <3> QED
      BY <3>2, <3>8 DEF x, z
  <2>2. j \in i..(n + 1)
    BY <1>1, <1>12
  <2> QED
    BY <2>1, <2>2
<1>13. LastWindow - 1 = n /\ (LastWindow > 1 => n # 0)
  BY <1>1, <1>5
<1> QED
  BY <1>5, <1>6, <1>8, <1>9, <1>10, <1>12, <1>13 DEF BoundariesOK, MinimumWindow

-----------------------------------------------------------------------------
(***************************************************************************)
(* Windows and batches.                                                    *)
(***************************************************************************)
\* The frames in the time from low to high.
FramesBetween(low, high, frames) ==
    UNION {{<<b, k>> : k \in {j \in DOMAIN frames[b] :
        low <= frames[b][j] /\ frames[b][j] <= high}} : b \in DOMAIN frames}

\* The windows the cuts bound, with the frames of the batches.
WindowsWith(frames) ==
    [i \in 1..LastWindow |->
        [start |-> Boundary(i - 1), end |-> Boundary(i),
         frames |-> FramesBetween(Boundary(i - 1), Boundary(i), frames)]]

SamplesBetween(low, high, n) ==
    IF low = high THEN <<low>> ELSE [j \in 1..n |-> low + Nearest((high - low) * j, n + 1)]

BatchesOf(n) == [i \in 1..LastWindow |-> SamplesBetween(Boundary(i - 1), Boundary(i), n)]

BoundedByCuts(ws) ==
    /\ DOMAIN ws = 1..LastWindow
    /\ \A i \in 1..LastWindow : \E frames :
          ws[i] = [start |-> Boundary(i - 1), end |-> Boundary(i), frames |-> frames]

LEMMA FreshWindows ==
    ASSUME duration \in Nat, TakenCuts \in Seq(CutData)
    PROVE  BoundedByCuts(WindowsOf(candidateCuts))
  BY WindowsBetweenBoundaries DEF BoundedByCuts, LastWindow

LEMMA RebuiltWindows ==
    ASSUME NEW frames
    PROVE  BoundedByCuts(WindowsWith(frames))
  BY DEF BoundedByCuts, WindowsWith

LEMMA HydrateRebuilds ==
    ASSUME NEW ws, BoundedByCuts(ws), NEW frames
    PROVE  Hydrate(ws, frames) = WindowsWith(frames)
<1>1. Hydrate(ws, frames) =
        [i \in DOMAIN ws |-> [ws[i] EXCEPT !.frames = FramesBetween(ws[i].start, ws[i].end, frames)]]
  BY DEF Hydrate, FramesBetween
<1>2. DOMAIN ws = 1..LastWindow
  BY DEF BoundedByCuts
<1>3. ASSUME NEW i \in 1..LastWindow
      PROVE  [ws[i] EXCEPT !.frames = FramesBetween(ws[i].start, ws[i].end, frames)]
               = [start |-> Boundary(i - 1), end |-> Boundary(i),
                  frames |-> FramesBetween(Boundary(i - 1), Boundary(i), frames)]
  <2>1. PICK old : ws[i] = [start |-> Boundary(i - 1), end |-> Boundary(i), frames |-> old]
    BY DEF BoundedByCuts
  <2>2. ws[i].start = Boundary(i - 1) /\ ws[i].end = Boundary(i)
    BY <2>1
  <2> DEFINE low == Boundary(i - 1)  high == Boundary(i)
             now == FramesBetween(low, high, frames)
  <2>3. FramesBetween(ws[i].start, ws[i].end, frames) = now
    BY <2>2
  <2>4. ws[i] = [start |-> low, end |-> high, frames |-> old]
    BY <2>1
  <2> HIDE DEF now, low, high
  <2>5. [ws[i] EXCEPT !.frames = now] = [start |-> low, end |-> high, frames |-> now]
    BY <2>4
  <2> QED
    BY <2>3, <2>5 DEF now, low, high
<1> QED
  BY <1>1, <1>2, <1>3 DEF WindowsWith

LEMMA SamplesOfWindows ==
    ASSUME NEW ws, BoundedByCuts(ws), NEW n
    PROVE  SampleFrames(ws, n) = BatchesOf(n)
<1>1. DOMAIN ws = 1..LastWindow
  BY DEF BoundedByCuts
<1>2. ASSUME NEW i \in 1..LastWindow
      PROVE  SampleTimestamps(ws[i], n) = SamplesBetween(Boundary(i - 1), Boundary(i), n)
  <2>1. ws[i].start = Boundary(i - 1) /\ ws[i].end = Boundary(i)
    BY DEF BoundedByCuts
  <2> QED
    BY <2>1 DEF SampleTimestamps, SamplesBetween
<1> QED
  BY <1>1, <1>2 DEF SampleFrames, BatchesOf

\* The samples of a time lie in it.
LEMMA SamplesLieBetween ==
    ASSUME NEW low \in Nat, NEW high \in Nat, low <= high, NEW n \in Nat
    PROVE  /\ DOMAIN SamplesBetween(low, high, n) = 1..Len(SamplesBetween(low, high, n))
           /\ Len(SamplesBetween(low, high, n)) = IF low = high THEN 1 ELSE n
           /\ \A j \in DOMAIN SamplesBetween(low, high, n) :
                 /\ SamplesBetween(low, high, n)[j] \in Int
                 /\ low <= SamplesBetween(low, high, n)[j]
                 /\ SamplesBetween(low, high, n)[j] <= high
<1> DEFINE samples == SamplesBetween(low, high, n)
<1>1. CASE low = high
  <2>1. samples = <<low>>
    BY <1>1 DEF SamplesBetween
  <2>2. DOMAIN samples = 1..1 /\ Len(samples) = 1 /\ samples[1] = low
    BY <2>1
  <2> HIDE DEF samples
  <2>3. \A j \in DOMAIN samples : samples[j] = low
    BY <2>2
  <2> QED
    BY <1>1, <2>2, <2>3 DEF samples
<1>2. CASE low # high
  <2> DEFINE w == n + 1
             length == high - low
             zero == 0
  <2>1. samples = [j \in 1..n |-> low + Nearest(length * j, w)]
    BY <1>2 DEF SamplesBetween
  <2>2. DOMAIN samples = 1..n /\ Len(samples) = n
    BY <2>1
  <2>3. w \in Nat \ {0} /\ length \in Nat /\ zero \in Int /\ length \in Int
    OBVIOUS
  <2>4. ASSUME NEW j \in 1..n
        PROVE  samples[j] \in Int /\ low <= samples[j] /\ samples[j] <= high
    <3> DEFINE sum == length * j
    <3>1. samples[j] = low + Nearest(sum, w)
      BY <2>1
    <3>2. j \in Int /\ w \in Int /\ j <= w /\ j \in Nat
      OBVIOUS
    <3> HIDE DEF w, length, zero
    <3>3. j * length <= w * length /\ j * length \in Int
      BY <2>3, <3>2, ProductsGrow
    <3>4. length * j = j * length /\ w * length = length * w /\ j * length >= 0
      BY <2>3, <3>2
    <3>5. zero * w = 0
      BY <2>3 DEF zero
    <3>6. sum \in Int /\ zero * w <= sum /\ sum <= length * w
      BY <3>3, <3>4, <3>5
    <3> HIDE DEF sum, samples
    <3>7. Nearest(sum, w) \in Int /\ zero <= Nearest(sum, w) /\ Nearest(sum, w) <= length
      BY <2>3, <3>6, NearestBetween
    <3> DEFINE x == Nearest(sum, w)
    <3>8. x \in Int /\ 0 <= x /\ x <= high - low /\ samples[j] = low + x
      BY <3>1, <3>7 DEF zero, length
    <3> HIDE DEF x
    <3> QED
      BY <3>8
  <2> HIDE DEF samples
  <2> QED
    BY <1>2, <2>2, <2>4 DEF samples
<1> QED
  BY <1>1, <1>2

-----------------------------------------------------------------------------
(***************************************************************************)
(* The invariant of the windows.                                           *)
(***************************************************************************)
HasBatches ==
    \E n \in Nat : batches = BatchesOf(n) /\ (duration > 0 => n >= FramesPerScene + 2 * densifyings)

WindowInv ==
    /\ VideoOK
    /\ densifyings \in Nat
    /\ stage \in {"cuts", "windows", "sampled", "refined"}
    /\ stage \in {"cuts", "windows"} => densifyings = 0
    /\ stage # "cuts" => candidateCuts = MergeCandidateCuts(Proposals)
    /\ stage \in {"sampled", "refined"} => windows = WindowsWith(batches) /\ HasBatches

LEMMA MergedCutsAre ==
    ASSUME VideoOK, candidateCuts = MergeCandidateCuts(Proposals)
    PROVE  /\ duration \in Nat /\ CutList(Proposals)
           /\ Spaced(candidateCuts) /\ CutList(candidateCuts)
           /\ Accepts(TakenCuts, candidateCuts, Len(candidateCuts))
           /\ TakenCuts \in Seq(CutData)
           /\ BoundariesOK
<1>1. CutList(Proposals) /\ duration \in Nat
  BY ProposalsAre DEF VideoOK
<1>2. Spaced(candidateCuts)
  BY <1>1, MergedAre, MergedAreSpaced
<1>3. CutList(candidateCuts)
  BY <1>2, SpacedInOrder
<1>4. Accepts(TakenCuts, candidateCuts, Len(candidateCuts))
  BY <1>1, <1>3, AcceptedCutsAre DEF TakenCuts
<1> QED
  BY <1>1, <1>2, <1>3, <1>4, BoundariesAre DEF Accepts

LEMMA BatchesAre ==
    ASSUME duration \in Nat, BoundariesOK, NEW n \in Nat
    PROVE  /\ DOMAIN BatchesOf(n) = 1..LastWindow
           /\ \A i \in 1..LastWindow :
                 /\ BatchesOf(n)[i] = SamplesBetween(Boundary(i - 1), Boundary(i), n)
                 /\ Len(BatchesOf(n)[i]) = IF Boundary(i - 1) = Boundary(i) THEN 1 ELSE n
                 /\ DOMAIN BatchesOf(n)[i] = 1..Len(BatchesOf(n)[i])
                 /\ \A j \in DOMAIN BatchesOf(n)[i] :
                       /\ BatchesOf(n)[i][j] \in Int
                       /\ Boundary(i - 1) <= BatchesOf(n)[i][j] /\ BatchesOf(n)[i][j] <= Boundary(i)
<1> DEFINE made == BatchesOf(n)
<1>1. DOMAIN made = 1..LastWindow
      /\ \A i \in 1..LastWindow : made[i] = SamplesBetween(Boundary(i - 1), Boundary(i), n)
  BY DEF BatchesOf
<1> HIDE DEF made
<1>2. ASSUME NEW i \in 1..LastWindow
      PROVE  /\ Len(made[i]) = IF Boundary(i - 1) = Boundary(i) THEN 1 ELSE n
             /\ DOMAIN made[i] = 1..Len(made[i])
             /\ \A j \in DOMAIN made[i] : /\ made[i][j] \in Int
                                         /\ Boundary(i - 1) <= made[i][j] /\ made[i][j] <= Boundary(i)
  <2> DEFINE h == i - 1
             low == Boundary(h)
             high == Boundary(i)
  <2>1. h \in 0..LastWindow /\ i \in 0..LastWindow /\ h <= i
    BY DEF BoundariesOK
  <2> HIDE DEF h
  <2>2. low \in Nat /\ high \in Nat /\ low <= high
    BY <2>1 DEF BoundariesOK
  <2>3. made[i] = SamplesBetween(low, high, n)
    BY <1>1 DEF h
  <2> HIDE DEF low, high
  <2>4. /\ Len(made[i]) = IF low = high THEN 1 ELSE n
        /\ DOMAIN made[i] = 1..Len(made[i])
        /\ \A j \in DOMAIN made[i] : made[i][j] \in Int /\ low <= made[i][j] /\ made[i][j] <= high
    <3> DEFINE samples == SamplesBetween(low, high, n)
    <3>1. /\ Len(samples) = IF low = high THEN 1 ELSE n
          /\ DOMAIN samples = 1..Len(samples)
          /\ \A j \in DOMAIN samples : samples[j] \in Int /\ low <= samples[j] /\ samples[j] <= high
      BY <2>2, SamplesLieBetween
    <3> HIDE DEF samples
    <3>2. made[i] = samples
      BY <2>3 DEF samples
    <3> QED
      BY <3>1, <3>2
  <2> QED
    BY <2>4 DEF low, high, h
<1> QED
  BY <1>1, <1>2 DEF made

\* Resampling takes two frames more of every window that lasts.
LEMMA TargetGrows ==
    ASSUME duration \in Nat, BoundariesOK, HasBatches, densifyings \in Nat
    PROVE  TargetFrames \in Nat
           /\ (duration > 0 => TargetFrames >= FramesPerScene + 2 * (densifyings + 1))
<1>1. PICK n \in Nat : batches = BatchesOf(n) /\ (duration > 0 => n >= FramesPerScene + 2 * densifyings)
  BY DEF HasBatches
<1> DEFINE W == 1..LastWindow
           lens == {Len(batches[i]) : i \in DOMAIN batches}
           most == CHOOSE m \in lens : \A i \in DOMAIN batches : m >= Len(batches[i])
           top == n + 1
<1>2. DOMAIN batches = W /\ \A i \in W : Len(batches[i]) = IF Boundary(i - 1) = Boundary(i) THEN 1 ELSE n
  BY <1>1, BatchesAre
<1>3. LastWindow \in W /\ LastWindow \in Nat \ {0}
  BY DEF BoundariesOK
<1> HIDE DEF W
<1>4. \A i \in W : Len(batches[i]) \in Nat /\ Len(batches[i]) <= top
  <2> SUFFICES ASSUME NEW i \in W PROVE Len(batches[i]) \in Nat /\ Len(batches[i]) <= top
    OBVIOUS
  <2>1. Len(batches[i]) = 1 \/ Len(batches[i]) = n
    BY <1>2
  <2> DEFINE length == Len(batches[i])
  <2>2. n \in Nat /\ (length = 1 \/ length = n)
    BY <1>1, <2>1
  <2> HIDE DEF length
  <2>3. length \in Nat /\ length <= top
    BY <2>2
  <2> QED
    BY <2>3 DEF length
<1>5. lens \subseteq Int /\ lens # {} /\ top \in Int /\ \A t \in lens : t <= top
  <2>1. top \in Int
    BY <1>1
  <2> HIDE DEF top
  <2>2. \A t \in lens : t \in Int /\ t <= top
    BY <1>2, <1>4
  <2>3. Len(batches[LastWindow]) \in lens
    BY <1>2, <1>3
  <2> HIDE DEF lens
  <2> QED
    BY <2>1, <2>2, <2>3
<1>6. PICK m \in lens : \A t \in lens : m >= t
  <2> HIDE DEF lens, top
  <2> QED
    BY <1>5, GreatestBelow
<1>7. most \in lens /\ \A i \in DOMAIN batches : most >= Len(batches[i])
  BY <1>6
<1> HIDE DEF most
<1>8. most \in Nat
  BY <1>2, <1>4, <1>7
<1>9. duration > 0 => most >= n
  <2> SUFFICES ASSUME duration > 0 PROVE most >= n
    OBVIOUS
  <2>1. Boundary(LastWindow - 1) # Boundary(LastWindow)
    <3> DEFINE h == LastWindow - 1
    <3>1. CASE LastWindow > 1
      <4>1. h \in 0..LastWindow
        BY <1>3, <3>1
      <4>2. Boundary(h) < duration /\ Boundary(h) \in Nat /\ Boundary(LastWindow) = duration
        BY <3>1, <4>1 DEF BoundariesOK
      <4> QED
        BY <4>2
    <3>2. CASE ~(LastWindow > 1)
      <4>1. LastWindow = 1
        BY <1>3, <3>2
      <4>2. h = 0
        BY <4>1
      <4>3. Boundary(h) = 0 /\ Boundary(LastWindow) = duration
        BY <4>2 DEF BoundariesOK
      <4> QED
        BY <4>3
    <3> QED
      BY <3>1, <3>2
  <2>2. Len(batches[LastWindow]) = n
    BY <1>2, <1>3, <2>1
  <2> QED
    BY <1>2, <1>3, <1>7, <2>2
<1>10. TargetFrames = 2 + most
  BY DEF TargetFrames, most
<1>11. duration > 0 => n >= 2 + 2 * densifyings
  BY <1>1 DEF FramesPerScene
<1>12. duration > 0 => TargetFrames >= 2 + 2 * (densifyings + 1)
  BY <1>8, <1>9, <1>10, <1>11
<1> QED
  BY <1>8, <1>10, <1>12 DEF FramesPerScene

LEMMA SameVideo ==
    ASSUME UNCHANGED videoVars
    PROVE  Proposals' = Proposals /\ VideoOK' = VideoOK
<1>1. duration' = duration /\ period' = period /\ differences' = differences
  BY DEF videoVars
<1>2. Proposals' = Proposals
  BY <1>1 DEF Proposals, Proposal, Proposes, FoldLeft, MapThenFoldSet
<1>3. VideoOK' = VideoOK
  BY <1>1 DEF VideoOK
<1> QED
  BY <1>2, <1>3

LEMMA SameBoundaries ==
    ASSUME UNCHANGED videoVars, UNCHANGED candidateCuts
    PROVE  /\ TakenCuts' = TakenCuts /\ LastWindow' = LastWindow
           /\ \A frames : WindowsWith(frames)' = WindowsWith(frames)
           /\ \A n : BatchesOf(n)' = BatchesOf(n)
<1>1. duration' = duration /\ candidateCuts' = candidateCuts
  BY DEF videoVars
<1>2. TakenCuts' = TakenCuts
  BY <1>1 DEF TakenCuts, AcceptedCuts, FoldLeft, MapThenFoldSet
<1>3. LastWindow' = LastWindow
  BY <1>2 DEF LastWindow
<1>4. \A frames : WindowsWith(frames)' = WindowsWith(frames)
  BY <1>1, <1>2, <1>3 DEF WindowsWith, Boundary
<1>5. \A n : BatchesOf(n)' = BatchesOf(n)
  BY <1>1, <1>2, <1>3 DEF BatchesOf, Boundary
<1> QED
  BY <1>2, <1>3, <1>4, <1>5

LEMMA WindowsStart == WindowInit => WindowInv
<1> SUFFICES ASSUME WindowInit PROVE WindowInv
  OBVIOUS
<1>1. duration \in Nat /\ period \in Nat \ {0}
  BY VideosAssumption DEF WindowInit
<1>2. PICK n \in AnalysisFrames(duration, period) : differences \in [1..(n - 1) -> Differences]
  BY DEF WindowInit
<1>3. n - 1 \in Nat
  BY <1>2 DEF AnalysisFrames
<1> DEFINE m == n - 1
           S == 1..m
<1>4. differences \in [S -> Confidences]
  <2>1. differences \in [S -> Differences] /\ Differences \subseteq Confidences
    BY <1>2, VideosAssumption DEF Confidences
  <2> HIDE DEF S
  <2> QED
    BY <2>1
<1>5. VideoOK
  BY <1>1, <1>3, <1>4 DEF VideoOK
<1> QED
  BY <1>5 DEF WindowInit, WindowInv

LEMMA WindowsKept == WindowInv /\ [WindowNext]_windowVars => WindowInv'
<1> SUFFICES ASSUME WindowInv, [WindowNext]_windowVars PROVE WindowInv'
  OBVIOUS
<1>1. CASE UNCHANGED windowVars
  <2>1. UNCHANGED videoVars /\ candidateCuts' = candidateCuts /\ windows' = windows
        /\ batches' = batches /\ densifyings' = densifyings /\ stage' = stage
    BY <1>1 DEF windowVars
  <2>2. Proposals' = Proposals /\ VideoOK' /\ duration' = duration
    BY <2>1, SameVideo DEF WindowInv, videoVars
  <2>3. WindowsWith(batches)' = WindowsWith(batches)
    BY <2>1, SameBoundaries DEF WindowsWith, FramesBetween
  <2>4. HasBatches' = HasBatches
    BY <2>1, <2>2, SameBoundaries DEF HasBatches
  <2> QED
    BY <2>1, <2>2, <2>3, <2>4 DEF WindowInv
<1>2. CASE BuildCandidateCuts
  <2>1. /\ UNCHANGED videoVars /\ stage' = "windows" /\ stage = "cuts"
        /\ densifyings' = densifyings
        /\ candidateCuts' = MergeCandidateCuts(Proposals)
    BY <1>2 DEF BuildCandidateCuts
  <2>2. Proposals' = Proposals /\ VideoOK'
    BY <2>1, SameVideo DEF WindowInv
  <2> QED
    BY <2>1, <2>2 DEF WindowInv
<1>3. ASSUME UNCHANGED videoVars, candidateCuts' = candidateCuts, stage # "cuts",
             stage' \in {"sampled", "refined"}, densifyings' \in Nat,
             windows' = WindowsWith(batches'),
             NEW n \in Nat, batches' = BatchesOf(n),
             duration > 0 => n >= FramesPerScene + 2 * densifyings'
      PROVE  WindowInv'
  <2>1. Proposals' = Proposals /\ VideoOK' /\ duration' = duration
    BY <1>3, SameVideo DEF WindowInv, videoVars
  <2>2. WindowsWith(batches)' = WindowsWith(batches')
    <3>1. TakenCuts' = TakenCuts /\ LastWindow' = LastWindow
      BY <1>3, SameBoundaries
    <3> QED
      BY <2>1, <3>1 DEF WindowsWith, Boundary
  <2>3. HasBatches'
    <3>1. BatchesOf(n)' = BatchesOf(n)
      BY <1>3, SameBoundaries
    <3> QED
      BY <1>3, <2>1, <3>1 DEF HasBatches
  <2> QED
    BY <1>3, <2>1, <2>2, <2>3 DEF WindowInv
<1>4. stage # "cuts" => /\ duration \in Nat /\ TakenCuts \in Seq(CutData) /\ BoundariesOK
  BY MergedCutsAre DEF WindowInv
<1>5. CASE BuildEvidenceWindows
  <2> DEFINE fresh == WindowsOf(candidateCuts)
  <2>1. /\ UNCHANGED videoVars /\ candidateCuts' = candidateCuts /\ stage = "windows"
        /\ stage' = "sampled" /\ densifyings' = densifyings
        /\ batches' = SampleFrames(fresh, FramesPerScene)
        /\ windows' = Hydrate(fresh, batches')
    BY <1>5 DEF BuildEvidenceWindows
  <2>2. BoundedByCuts(fresh)
    BY <1>4, <2>1, FreshWindows
  <2> HIDE DEF fresh
  <2>3. batches' = BatchesOf(FramesPerScene)
    BY <2>1, <2>2, SamplesOfWindows
  <2>4. windows' = WindowsWith(batches')
    BY <2>1, <2>2, HydrateRebuilds
  <2>5. densifyings' = 0 /\ FramesPerScene \in Nat /\ FramesPerScene >= FramesPerScene + 2 * 0
    BY <2>1 DEF WindowInv, FramesPerScene
  <2>6. duration > 0 => FramesPerScene >= FramesPerScene + 2 * densifyings'
    BY <2>5
  <2>7. densifyings' \in Nat /\ stage # "cuts" /\ stage' \in {"sampled", "refined"}
    BY <2>1, <2>5
  <2> QED
    BY <1>3, <2>1, <2>3, <2>4, <2>5, <2>6, <2>7
<1>6. CASE Refine
  <2> DEFINE fresh == WindowsOf(candidateCuts)
  <2>1. /\ UNCHANGED videoVars /\ candidateCuts' = candidateCuts /\ stage = "sampled"
        /\ stage' = "refined" /\ densifyings' = densifyings /\ batches' = batches
        /\ windows' = Hydrate(fresh, batches)
    BY <1>6 DEF Refine
  <2>2. BoundedByCuts(fresh)
    BY <1>4, <2>1, FreshWindows
  <2> HIDE DEF fresh
  <2>3. windows' = WindowsWith(batches')
    BY <2>1, <2>2, HydrateRebuilds
  <2>4. PICK n \in Nat : batches = BatchesOf(n) /\ (duration > 0 => n >= FramesPerScene + 2 * densifyings)
    BY <2>1 DEF WindowInv, HasBatches
  <2>5. densifyings' \in Nat /\ stage # "cuts" /\ stage' \in {"sampled", "refined"}
        /\ batches' = BatchesOf(n) /\ (duration > 0 => n >= FramesPerScene + 2 * densifyings')
    BY <2>1, <2>4 DEF WindowInv
  <2> QED
    BY <1>3, <2>1, <2>3, <2>4, <2>5
<1>7. CASE Densify
  <2> DEFINE n == TargetFrames
  <2>1. /\ UNCHANGED videoVars /\ candidateCuts' = candidateCuts /\ stage = "refined"
        /\ stage' = "sampled" /\ densifyings' = densifyings + 1
        /\ batches' = SampleFrames(windows, n)
        /\ windows' = Hydrate(windows, batches')
    BY <1>7 DEF Densify
  <2>2. windows = WindowsWith(batches) /\ HasBatches /\ densifyings \in Nat
    BY <2>1 DEF WindowInv
  <2>3. BoundedByCuts(windows)
    BY <2>2, RebuiltWindows
  <2>4. n \in Nat /\ (duration > 0 => n >= FramesPerScene + 2 * (densifyings + 1))
    BY <1>4, <2>1, <2>2, TargetGrows
  <2> HIDE DEF n
  <2>5. batches' = BatchesOf(n)
    BY <2>1, <2>3, SamplesOfWindows
  <2>6. windows' = WindowsWith(batches')
    BY <2>1, <2>3, HydrateRebuilds
  <2>7. densifyings' \in Nat /\ stage # "cuts" /\ stage' \in {"sampled", "refined"}
        /\ (duration > 0 => n >= FramesPerScene + 2 * densifyings')
    BY <2>1, <2>2, <2>4
  <2> QED
    BY <1>3, <2>1, <2>4, <2>5, <2>6, <2>7
<1> QED
  BY <1>1, <1>2, <1>5, <1>6, <1>7 DEF WindowNext

LEMMA WindowInvHolds == WindowSpec => []WindowInv
  BY WindowsStart, WindowsKept, PTL DEF WindowSpec

\* However the picture changes, the merged cuts lie further apart than the
\* spacing and account for every proposal (candidate cut merging).
THEOREM CutsAlwaysSummarise == WindowSpec => []CutsSummariseProposals
<1>1. WindowInv => CutsSummariseProposals
  <2> SUFFICES ASSUME WindowInv, stage # "cuts" PROVE CutsSummariseProposals
    BY DEF CutsSummariseProposals
  <2> DEFINE times == {p.at : p \in Range(Proposals)}
             chained(a, b) == \A t \in times : a <= t /\ t < b =>
                                 \E u \in times : t < u /\ u <= b /\ u - t <= CutSpacing
  <2>1. candidateCuts = MergeCandidateCuts(Proposals) /\ CutList(Proposals) /\ Spaced(candidateCuts)
    BY MergedCutsAre DEF WindowInv
  <2>2. times = TimesOf(Proposals)
    <3>1. DOMAIN Proposals = 1..Len(Proposals)
      BY <2>1 DEF CutList
    <3> QED
      BY <3>1 DEF TimesOf, Range
  <2>3. \A a, b : chained(a, b) <=> Chained(Proposals, a, b)
    BY <2>2 DEF Chained
  <2>4. /\ DOMAIN candidateCuts = 1..Len(candidateCuts) /\ DOMAIN CutTimes = 1..Len(candidateCuts)
        /\ Len(CutTimes) = Len(candidateCuts)
        /\ \A i \in 1..Len(candidateCuts) : CutTimes[i] = candidateCuts[i].at
    BY <2>1 DEF Spaced, CutTimes
  <2>5. \A i \in 1..(Len(CutTimes) - 1) : CutTimes[i + 1] - CutTimes[i] > CutSpacing
    <3> SUFFICES ASSUME NEW i \in 1..(Len(CutTimes) - 1)
                 PROVE  CutTimes[i + 1] - CutTimes[i] > CutSpacing
      OBVIOUS
    <3>1. i \in 1..Len(candidateCuts) /\ i + 1 \in 1..Len(candidateCuts)
          /\ i \in 1..(Len(candidateCuts) - 1)
      BY <2>1, <2>4 DEF Spaced
    <3> QED
      BY <2>1, <2>4, <3>1 DEF Spaced
  <2>6. MergeCandidateCuts(candidateCuts) = candidateCuts
    BY <2>1, MergedOnceForAll
  <2>7. ASSUME NEW t \in times
        PROVE  \E i \in DOMAIN CutTimes : \E a, b \in times :
                  /\ a <= t /\ t <= b /\ a <= CutTimes[i] /\ CutTimes[i] <= b
                  /\ chained(a, b)
    <3> HIDE DEF times, chained
    <3>1. Accounted(candidateCuts, Proposals, t)
      BY <2>1, <2>2, <2>7, MergedAccountForAll
    <3>2. PICK i \in 1..Len(candidateCuts) : \E a, b \in TimesOf(Proposals) :
             /\ a <= t /\ t <= b /\ a <= candidateCuts[i].at /\ candidateCuts[i].at <= b
             /\ Chained(Proposals, a, b)
      BY <3>1 DEF Accounted
    <3>3. PICK a \in TimesOf(Proposals), b \in TimesOf(Proposals) :
             /\ a <= t /\ t <= b /\ a <= candidateCuts[i].at /\ candidateCuts[i].at <= b
             /\ Chained(Proposals, a, b)
      BY <3>2
    <3>4. i \in DOMAIN CutTimes /\ CutTimes[i] = candidateCuts[i].at
      BY <2>4, <3>2
    <3> QED
      BY <2>2, <2>3, <3>3, <3>4
  <2> QED
    BY <2>5, <2>6, <2>7 DEF CutsSummariseProposals
<1> QED
  BY <1>1, WindowInvHolds, PTL

\* The evidence windows cover the video from its start to its end, none of them
\* too short, and pass over a cut only where one would be.
THEOREM WindowsAlwaysPartition == WindowSpec => []WindowsPartitionVideo
<1>1. WindowInv => WindowsPartitionVideo
  <2> SUFFICES ASSUME WindowInv, stage \in {"sampled", "refined"} PROVE WindowsPartitionVideo
    BY DEF WindowsPartitionVideo
  <2> DEFINE n == Len(windows)
             starts == {windows[i].start : i \in 1..n}
  <2>1. /\ windows = WindowsWith(batches) /\ candidateCuts = MergeCandidateCuts(Proposals)
        /\ duration \in Nat /\ BoundariesOK /\ CutList(candidateCuts)
        /\ Accepts(TakenCuts, candidateCuts, Len(candidateCuts))
    BY MergedCutsAre DEF WindowInv
  <2>2. /\ n = LastWindow /\ LastWindow \in Nat \ {0}
        /\ \A i \in 1..n : windows[i].start = Boundary(i - 1) /\ windows[i].end = Boundary(i)
    BY <2>1 DEF WindowsWith, BoundariesOK
  <2> HIDE DEF n
  <2>3. /\ \A i \in 0..n : Boundary(i) \in Nat
        /\ Boundary(0) = 0 /\ Boundary(n) = duration
        /\ \A i \in 1..(n - 1) : Boundary(i) - Boundary(i - 1) >= MinimumWindow
        /\ n > 1 => 2 * (Boundary(n) - Boundary(n - 1)) >= MinimumWindow
    BY <2>1, <2>2 DEF BoundariesOK
  <2>4. windows[1].start = 0 /\ windows[n].end = duration
    <3>1. 1 \in 1..n /\ n \in 1..n /\ 1 - 1 = 0
      BY <2>2
    <3> QED
      BY <2>2, <2>3, <3>1
  <2>5. ASSUME NEW i \in 1..(n - 1)
        PROVE  /\ windows[i].end = windows[i + 1].start
               /\ windows[i].end - windows[i].start >= MinimumWindow
    <3>1. i \in 1..n /\ i + 1 \in 1..n /\ (i + 1) - 1 = i
      BY <2>2
    <3> QED
      BY <2>2, <2>3, <3>1
  <2>6. n > 1 => 2 * (windows[n].end - windows[n].start) >= MinimumWindow
    <3>1. n \in 1..n
      BY <2>2
    <3> QED
      BY <2>2, <2>3, <3>1
  <2>7. ASSUME NEW t \in Range(CutTimes) \ starts
        PROVE  \/ \E s \in starts : s <= t /\ t - s < MinimumWindow
               \/ 2 * (duration - t) < MinimumWindow
    <3>1. PICK k \in 1..Len(candidateCuts) : t = candidateCuts[k].at
      <4>1. DOMAIN candidateCuts = 1..Len(candidateCuts)
        BY <2>1 DEF CutList
      <4> QED
        BY <2>7, <4>1 DEF CutTimes, Range
    <3>2. Settled(TakenCuts, t) /\ t \in Nat
      <4>1. Settled(TakenCuts, candidateCuts[k].at)
        BY <2>1, <3>1 DEF Accepts
      <4>2. candidateCuts[k].at \in Nat
        BY <2>1, <3>1, CutFields DEF CutList
      <4> QED
        BY <3>1, <4>1, <4>2
    <3>3. CASE t < MinimumWindow
      <4>1. 1 \in 1..n
        BY <2>2
      <4>2. 0 \in starts
        BY <2>4, <4>1
      <4>3. 0 <= t /\ t - 0 < MinimumWindow
        BY <3>2, <3>3
      <4> QED
        BY <4>2, <4>3
    <3>4. ASSUME NEW i \in 1..Len(TakenCuts), TakenCuts[i].at <= t, t - TakenCuts[i].at < MinimumWindow
          PROVE  \E s \in starts : s <= t /\ t - s < MinimumWindow
      <4> DEFINE m == Len(TakenCuts)
      <4>1. n = m + 1 /\ m \in Nat
        BY <2>1, <2>2 DEF LastWindow, Accepts
      <4>2. i \in 1..m
        OBVIOUS
      <4> HIDE DEF m
      <4>3. i # 0 /\ i # m + 1 /\ i + 1 \in 1..n /\ (i + 1) - 1 = i
        BY <4>1, <4>2
      <4>4. Boundary(i) = TakenCuts[i].at
        BY <4>3 DEF Boundary, m
      <4>5. windows[i + 1].start = TakenCuts[i].at
        BY <2>2, <4>3, <4>4
      <4>6. TakenCuts[i].at \in starts
        BY <4>3, <4>5
      <4> QED
        BY <3>4, <4>6
    <3>5. t < MinimumWindow \/ 2 * (duration - t) < MinimumWindow
          \/ \E i \in 1..Len(TakenCuts) : TakenCuts[i].at <= t /\ t - TakenCuts[i].at < MinimumWindow
      BY <3>2 DEF Settled
    <3> HIDE DEF starts
    <3> QED
      BY <3>3, <3>4, <3>5
  <2> QED
    BY <2>4, <2>5, <2>6, <2>7 DEF WindowsPartitionVideo, n
<1> QED
  BY <1>1, WindowInvHolds, PTL

\* A window lists its own batch whole and of the others only what lies on a
\* boundary, and gets more frames with each resampling.
THEOREM WindowsAlwaysListTheirFrames == WindowSpec => []WindowsListTheirFrames
<1>1. WindowInv => WindowsListTheirFrames
  <2> SUFFICES ASSUME WindowInv, stage \in {"sampled", "refined"}, NEW i \in DOMAIN windows
               PROVE  /\ {<<i, k>> : k \in DOMAIN batches[i]} \subseteq windows[i].frames
                      /\ \A f \in windows[i].frames :
                            f[1] # i => batches[f[1]][f[2]] \in {windows[i].start, windows[i].end}
                      /\ windows[i].start < windows[i].end =>
                            Len(batches[i]) >= FramesPerScene + 2 * densifyings
    BY DEF WindowsListTheirFrames
  <2>1. /\ windows = WindowsWith(batches) /\ HasBatches
        /\ duration \in Nat /\ BoundariesOK /\ densifyings \in Nat
    BY MergedCutsAre DEF WindowInv
  <2>2. PICK n \in Nat : batches = BatchesOf(n) /\ (duration > 0 => n >= FramesPerScene + 2 * densifyings)
    BY <2>1 DEF HasBatches
  <2> DEFINE W == 1..LastWindow
  <2>3. /\ DOMAIN batches = W
        /\ \A b \in W :
              /\ Len(batches[b]) = IF Boundary(b - 1) = Boundary(b) THEN 1 ELSE n
              /\ \A j \in DOMAIN batches[b] :
                    /\ batches[b][j] \in Int
                    /\ Boundary(b - 1) <= batches[b][j] /\ batches[b][j] <= Boundary(b)
    BY <2>1, <2>2, BatchesAre
  <2> DEFINE low == Boundary(i - 1)
             high == Boundary(i)
  <2>4. /\ i \in W /\ windows[i].start = low /\ windows[i].end = high
        /\ windows[i].frames = FramesBetween(low, high, batches)
    BY <2>1 DEF WindowsWith
  <2>5. \A b \in W : b \in Nat /\ b - 1 \in 0..LastWindow /\ b \in 0..LastWindow
    BY <2>1 DEF BoundariesOK
  <2>6. \A b \in 0..LastWindow : Boundary(b) \in Nat /\ Boundary(b) <= duration
    <3>1. LastWindow \in 0..LastWindow
      BY <2>1 DEF BoundariesOK
    <3> QED
      BY <2>1, <3>1 DEF BoundariesOK
  <2> HIDE DEF W
  <2>7. low \in Nat /\ high \in Nat /\ high <= duration
    BY <2>4, <2>5, <2>6
  <2>8. ASSUME NEW k \in DOMAIN batches[i] PROVE <<i, k>> \in windows[i].frames
    <3>1. low <= batches[i][k] /\ batches[i][k] <= high
      BY <2>3, <2>4
    <3> QED
      BY <2>3, <2>4, <3>1 DEF FramesBetween
  <2>9. ASSUME NEW f \in windows[i].frames, f[1] # i
        PROVE  batches[f[1]][f[2]] \in {windows[i].start, windows[i].end}
    <3>1. PICK b \in DOMAIN batches : f \in {<<b, k>> : k \in {j \in DOMAIN batches[b] :
                                        low <= batches[b][j] /\ batches[b][j] <= high}}
      BY <2>4, <2>9 DEF FramesBetween
    <3>2. PICK k \in DOMAIN batches[b] : /\ f = <<b, k>>
                                         /\ low <= batches[b][k] /\ batches[b][k] <= high
      BY <3>1
    <3> DEFINE x == batches[b][k]
               h == b - 1
               g == i - 1
    <3>3. b \in W /\ b # i /\ batches[f[1]][f[2]] = x
      BY <2>3, <2>9, <3>1, <3>2
    <3>4. x \in Int /\ Boundary(h) <= x /\ x <= Boundary(b) /\ low <= x /\ x <= high
      BY <2>3, <3>2, <3>3
    <3>5. /\ b \in Nat /\ i \in Nat /\ h \in 0..LastWindow /\ g \in 0..LastWindow
          /\ b \in 0..LastWindow /\ i \in 0..LastWindow
          /\ (b < i => b <= g) /\ (~(b < i) => i <= h)
      <4>1. b \in Nat /\ i \in Nat /\ h \in 0..LastWindow /\ g \in 0..LastWindow
            /\ b \in 0..LastWindow /\ i \in 0..LastWindow
        BY <2>4, <2>5, <3>3
      <4>2. (b < i => b <= g) /\ (~(b < i) => i <= h)
        BY <3>3, <4>1
      <4> QED
        BY <4>1, <4>2
    <3> HIDE DEF h, g, x
    <3>6. \A p, q \in 0..LastWindow : p <= q => Boundary(p) <= Boundary(q)
      BY <2>1 DEF BoundariesOK
    <3>7. Boundary(h) \in Nat /\ Boundary(b) \in Nat
      BY <2>6, <3>5
    <3>8. CASE b < i
      <4>1. Boundary(b) <= low
        BY <3>5, <3>6, <3>8 DEF g
      <4>2. x = low
        <5> HIDE DEF low, high
        <5> QED
          BY <2>7, <3>4, <3>7, <4>1
      <4> QED
        BY <2>4, <3>3, <4>2
    <3>9. CASE ~(b < i)
      <4>1. high <= Boundary(h)
        BY <3>5, <3>6, <3>9
      <4>2. x = high
        <5> HIDE DEF low, high
        <5> QED
          BY <2>7, <3>4, <3>7, <4>1
      <4> QED
        BY <2>4, <3>3, <4>2
    <3> QED
      BY <3>8, <3>9
  <2>10. windows[i].start < windows[i].end => Len(batches[i]) >= FramesPerScene + 2 * densifyings
    <3> SUFFICES ASSUME windows[i].start < windows[i].end
                 PROVE  Len(batches[i]) >= FramesPerScene + 2 * densifyings
      OBVIOUS
    <3>1. low < high
      BY <2>4
    <3>2. Len(batches[i]) = IF low = high THEN 1 ELSE n
      BY <2>3, <2>4
    <3> HIDE DEF low, high
    <3>3. low # high /\ duration > 0
      BY <2>1, <2>7, <3>1
    <3> QED
      BY <2>2, <3>2, <3>3
  <2> QED
    BY <2>8, <2>9, <2>10
<1> QED
  BY <1>1, WindowInvHolds, PTL

-----------------------------------------------------------------------------
(***************************************************************************)
(* Classes of linked things.                                               *)
(***************************************************************************)
Splits(l, part) == \/ l[1] \in part /\ l[2] \notin part
                   \/ l[2] \in part /\ l[1] \notin part

\* No part of c is without a link to the rest of it.
Bound(c, links) ==
    \A part \in SUBSET c : part \notin {{}, c} =>
        \E l \in links : l[1] \in c /\ l[2] \in c /\ Splits(l, part)

Divided(classes, items) ==
    /\ UNION classes = items /\ {} \notin classes
    /\ \A c, d \in classes : c = d \/ c \cap d = {}

\* The classes are those the links make.
AreClasses(classes, items, links) ==
    /\ Divided(classes, items)
    /\ \A c \in classes : Bound(c, links)
    /\ \A l \in links : \E c \in classes : l[1] \in c /\ l[2] \in c

LEMMA MoreBound ==
    ASSUME NEW c, NEW links, Bound(c, links), NEW more, links \subseteq more
    PROVE  Bound(c, more)
  BY DEF Bound

LEMMA BothBound ==
    ASSUME NEW links, NEW link \in links, NEW c, NEW d, Bound(c, links), Bound(d, links),
           link[1] \in c, link[2] \in d, c = d \/ c \cap d = {}
    PROVE  Bound(c \cup d, links)
<1> DEFINE whole == c \cup d
<1>1. SUFFICES ASSUME NEW part \in SUBSET whole, part # {}, part # whole
               PROVE  \E l \in links : l[1] \in whole /\ l[2] \in whole /\ Splits(l, part)
  BY DEF Bound
<1>2. CASE part \cap c \notin {{}, c}
  <2> DEFINE half == part \cap c
  <2>1. PICK l \in links : l[1] \in c /\ l[2] \in c /\ Splits(l, half)
    <3>1. half \in SUBSET c /\ half \notin {{}, c}
      BY <1>2
    <3> HIDE DEF half
    <3> QED
      BY <3>1 DEF Bound
  <2>2. Splits(l, part)
    BY <2>1 DEF Splits
  <2> QED
    BY <2>1, <2>2
<1>3. CASE part \cap d \notin {{}, d}
  <2> DEFINE half == part \cap d
  <2>1. PICK l \in links : l[1] \in d /\ l[2] \in d /\ Splits(l, half)
    <3>1. half \in SUBSET d /\ half \notin {{}, d}
      BY <1>3
    <3> HIDE DEF half
    <3> QED
      BY <3>1 DEF Bound
  <2>2. Splits(l, part)
    BY <2>1 DEF Splits
  <2> QED
    BY <2>1, <2>2
<1>4. CASE part \cap c \in {{}, c} /\ part \cap d \in {{}, d}
  <2>1. \/ part \cap c = c /\ part \cap d = {}
        \/ part \cap c = {} /\ part \cap d = d
    BY <1>1, <1>4
  <2>2. Splits(link, part)
    BY <2>1 DEF Splits
  <2> QED
    BY <2>2
<1> QED
  BY <1>2, <1>3, <1>4

LEMMA JoiningKeepsClasses ==
    ASSUME NEW items, NEW links, NEW classes, AreClasses(classes, items, links),
           NEW link, link[1] \in items, link[2] \in items
    PROVE  AreClasses(Joined(classes, link), items, links \cup {link})
<1> DEFINE more == links \cup {link}
           met == {c \in classes : link[1] \in c \/ link[2] \in c}
           rest == classes \ met
           whole == UNION met
           joined == rest \cup {whole}
<1>1. Joined(classes, link) = joined
  BY DEF Joined
<1>2. /\ UNION classes = items /\ {} \notin classes
      /\ \A c, d \in classes : c = d \/ c \cap d = {}
      /\ \A c \in classes : Bound(c, links)
      /\ \A l \in links : \E c \in classes : l[1] \in c /\ l[2] \in c
  BY DEF AreClasses, Divided
<1>3. PICK a \in classes, b \in classes : link[1] \in a /\ link[2] \in b
  BY <1>2
<1>4. met = {a, b} /\ whole = a \cup b
  <2>1. \A c \in classes : link[1] \in c => c = a
    BY <1>2, <1>3
  <2>2. \A c \in classes : link[2] \in c => c = b
    BY <1>2, <1>3
  <2>3. met = {a, b}
    BY <1>3, <2>1, <2>2
  <2> QED
    BY <2>3
<1> HIDE DEF met, whole
<1>5. Divided(joined, items)
  <2>1. UNION joined = items
    <3>1. \A x \in items : \E c \in joined : x \in c
      <4> SUFFICES ASSUME NEW x \in items PROVE \E c \in joined : x \in c
        OBVIOUS
      <4>1. PICK c \in classes : x \in c
        BY <1>2
      <4>2. CASE c \in met
        BY <1>4, <4>1, <4>2
      <4>3. CASE c \notin met
        BY <4>1, <4>3
      <4> QED
        BY <4>2, <4>3
    <3>2. \A c \in joined : c \subseteq items
      BY <1>2, <1>3, <1>4
    <3> QED
      BY <3>1, <3>2
  <2>2. {} \notin joined
    BY <1>2, <1>3, <1>4
  <2>3. ASSUME NEW c \in rest PROVE c \cap whole = {}
    <3>1. c \in classes /\ c # a /\ c # b
      BY <1>4
    <3> QED
      BY <1>2, <1>3, <1>4, <3>1
  <2>4. ASSUME NEW c \in joined, NEW d \in joined PROVE c = d \/ c \cap d = {}
    <3>1. CASE c \in rest /\ d \in rest
      BY <1>2, <3>1
    <3>2. CASE c = whole /\ d \in rest
      BY <2>3, <3>2
    <3>3. CASE c \in rest /\ d = whole
      BY <2>3, <3>3
    <3>4. CASE c = whole /\ d = whole
      BY <3>4
    <3> QED
      BY <3>1, <3>2, <3>3, <3>4
  <2> HIDE DEF joined
  <2> QED
    BY <2>1, <2>2, <2>4 DEF Divided
<1>6. ASSUME NEW c \in joined PROVE Bound(c, more)
  <2>1. links \subseteq more /\ link \in more
    OBVIOUS
  <2> HIDE DEF more
  <2>2. \A d \in classes : Bound(d, more)
    BY <1>2, <2>1, MoreBound
  <2>3. CASE c \in rest
    BY <2>2, <2>3
  <2>4. CASE c = whole
    <3>1. a = b \/ a \cap b = {}
      BY <1>2, <1>3
    <3>2. Bound(a \cup b, more)
      BY <1>3, <2>1, <2>2, <3>1, BothBound
    <3> QED
      BY <1>4, <2>4, <3>2
  <2> QED
    BY <2>3, <2>4
<1>7. ASSUME NEW l \in more PROVE \E c \in joined : l[1] \in c /\ l[2] \in c
  <2>1. CASE l = link
    BY <1>3, <1>4, <2>1
  <2>2. CASE l \in links
    <3>1. PICK c \in classes : l[1] \in c /\ l[2] \in c
      BY <1>2, <2>2
    <3>2. CASE c \in met
      BY <1>4, <3>1, <3>2
    <3>3. CASE c \notin met
      BY <3>1, <3>3
    <3> QED
      BY <3>2, <3>3
  <2> QED
    BY <2>1, <2>2
<1>8. AreClasses(joined, items, more)
  <2> HIDE DEF joined, more
  <2> QED
    BY <1>5, <1>6, <1>7 DEF AreClasses
<1> QED
  BY <1>1, <1>8

LEMMA ClassesAre ==
    ASSUME NEW items, NEW links, IsFiniteSet(links),
           \A l \in links : l[1] \in items /\ l[2] \in items
    PROVE  AreClasses(Classes(items, links), items, links)
<1> DEFINE T == SUBSET SUBSET items
           single == {{i} : i \in items}
           pick == [s \in SUBSET links |-> CHOOSE l \in s : TRUE]
           Solves(it) == it = [s \in SUBSET links |->
                                 IF s = {} THEN single
                                 ELSE Joined(it[s \ {CHOOSE l \in s : TRUE}], CHOOSE l \in s : TRUE)]
           divide == CHOOSE it : Solves(it)
<1>1. Classes(items, links) = divide[links]
  BY Zenon DEF Classes, FoldSet, MapThenFoldSet
<1>2. \A s \in SUBSET links : s # {} => pick[s] \in s /\ pick[s] = CHOOSE l \in s : TRUE
  OBVIOUS
<1> HIDE DEF pick
<1>3. \A c \in T, l \in links : Joined(c, l) \in T
  BY DEF Joined
<1>4. Solves(divide)
  <2> DEFINE join == [p \in links \X T |-> Joined(p[2], p[1])]
  <2>1. join \in [links \X T -> T]
    BY <1>3
  <2>2. \A l \in links, c \in T : join[<<l, c>>] = Joined(c, l)
    OBVIOUS
  <2>3. single \in T
    OBVIOUS
  <2>4. HasFold(links, T, single, pick, join)
    <3> HIDE DEF T, single, join
    <3> QED
      BY <1>2, <2>1, <2>3, FoldExists
  <2>5. PICK it \in [SUBSET links -> T] : \A s \in SUBSET links : it[s] = FoldStep(s, single, pick, join, it)
    BY <2>4 DEF HasFold
  <2>6. Solves(it)
    <3> HIDE DEF T, single, join
    <3>1. ASSUME NEW s \in SUBSET links
          PROVE  it[s] = IF s = {} THEN single
                         ELSE Joined(it[s \ {CHOOSE l \in s : TRUE}], CHOOSE l \in s : TRUE)
      <4>1. CASE s = {}
        BY <2>5, <4>1 DEF FoldStep
      <4>2. CASE s # {}
        <5>1. pick[s] \in links /\ it[s \ {pick[s]}] \in T
          BY <1>2, <2>5, <4>2
        <5>2. it[s] = Joined(it[s \ {pick[s]}], pick[s])
          BY <2>2, <2>5, <4>2, <5>1 DEF FoldStep
        <5> QED
          BY <1>2, <4>2, <5>2
      <4> QED
        BY <4>1, <4>2
    <3>2. it = [s \in SUBSET links |-> it[s]]
      BY <2>5
    <3> QED
      BY <3>1, <3>2
  <2> HIDE DEF Solves
  <2> QED
    BY <2>6
<1> HIDE DEF divide
<1> DEFINE Q == {s \in SUBSET links : AreClasses(divide[s], items, s)}
<1>5. {} \in Q
  <2> DEFINE none == {}
  <2>1. divide[none] = single
    BY <1>4
  <2>2. Divided(single, items)
    BY DEF Divided
  <2>3. \A c \in single : Bound(c, none)
    BY DEF Bound
  <2>4. \A l \in none : \E c \in single : l[1] \in c /\ l[2] \in c
    OBVIOUS
  <2>5. none \in SUBSET links
    OBVIOUS
  <2> HIDE DEF none, single
  <2>6. none \in Q
    BY <2>1, <2>2, <2>3, <2>4, <2>5 DEF AreClasses
  <2> QED
    BY <2>6 DEF none
<1>6. ASSUME NEW s \in SUBSET links, s # {}, s \ {pick[s]} \in Q PROVE s \in Q
  <2> DEFINE l == pick[s]
             before == s \ {l}
  <2>1. l \in s /\ l[1] \in items /\ l[2] \in items /\ s = before \cup {l}
    BY <1>2, <1>6
  <2>2. AreClasses(divide[before], items, before)
    BY <1>6
  <2>3. divide[s] = Joined(divide[before], l)
    BY <1>2, <1>4, <1>6
  <2> HIDE DEF l, before
  <2>4. AreClasses(Joined(divide[before], l), items, before \cup {l})
    BY <2>1, <2>2, JoiningKeepsClasses
  <2> QED
    BY <2>1, <2>3, <2>4
<1>7. SUBSET links \subseteq Q
  <2> HIDE DEF Q
  <2>1. \A s \in SUBSET links : AllRemovals(s, Q) => s \in Q
    BY <1>2, <1>5, <1>6 DEF AllRemovals
  <2>2. IsFiniteSet(links)
    OBVIOUS
  <2> QED
    BY <2>1, <2>2, RemovalInduction
<1> QED
  BY <1>1, <1>7

-----------------------------------------------------------------------------
(***************************************************************************)
(* Listing in an order.                                                    *)
(***************************************************************************)
ListsOnce(list, S) ==
    /\ list \in [1..Cardinality(S) -> S]
    /\ \A i, j \in 1..Cardinality(S) : list[i] = list[j] => i = j
    /\ \A x \in S : \E i \in 1..Cardinality(S) : list[i] = x

LEMMA RankedListsOnce ==
    ASSUME NEW S, IsFiniteSet(S), NEW before, Ranked(S, before)
    PROVE  ListsOnce(OrderedBy(S, before), S)
<1> DEFINE n == Cardinality(S)
           list == OrderedBy(S, before)
           rank == [x \in S |-> Cardinality(before[x])]
<1>1. n \in Nat
  BY FS_CardinalityType
<1>2. /\ \A x \in S : rank[x] \in 0..(n - 1)
      /\ \A x, y \in S : rank[x] = rank[y] => x = y
      /\ \A k \in 1..n : \E x \in S : rank[x] = k - 1
      /\ list = [k \in 1..n |-> CHOOSE x \in S : rank[x] = k - 1]
  <2>1. \A x \in S : rank[x] = Cardinality(before[x])
    OBVIOUS
  <2>2. list = [k \in 1..n |-> CHOOSE x \in S : Cardinality(before[x]) = k - 1]
    BY DEF OrderedBy
  <2>3. \A k \in 1..n : (CHOOSE x \in S : Cardinality(before[x]) = k - 1)
                      = (CHOOSE x \in S : rank[x] = k - 1)
    BY Zenon, <2>1
  <2> HIDE DEF list, rank, n
  <2>4. list = [k \in 1..n |-> CHOOSE x \in S : rank[x] = k - 1]
    BY <2>2, <2>3
  <2> QED
    BY <2>1, <2>4 DEF Ranked, n
<1> HIDE DEF n, list, rank
<1>3. ASSUME NEW k \in 1..n PROVE list[k] \in S /\ rank[list[k]] = k - 1
  BY <1>2
<1>4. list \in [1..n -> S]
  BY <1>2, <1>3
<1>5. ASSUME NEW x \in S PROVE \E i \in 1..n : list[i] = x
  <2>1. rank[x] + 1 \in 1..n /\ rank[x] = (rank[x] + 1) - 1
    BY <1>1, <1>2
  <2>2. rank[list[rank[x] + 1]] = rank[x] /\ list[rank[x] + 1] \in S
    BY <1>3, <2>1
  <2> QED
    BY <1>2, <2>1, <2>2
<1>6. \A i, j \in 1..n : list[i] = list[j] => i = j
  BY <1>1, <1>3
<1> QED
  BY <1>4, <1>5, <1>6 DEF ListsOnce, n, list

\* Things ordered by one number, and where it is the same by another.
OrderedByTwo(S, before, f, g) ==
    before = [x \in S |-> {y \in S : f[y] < f[x] \/ (f[y] = f[x] /\ g[y] < g[x])}]

LEMMA TwoNumbersRank ==
    ASSUME NEW S, IsFiniteSet(S), NEW f, NEW g, \A x \in S : f[x] \in Int /\ g[x] \in Int,
           \A x, y \in S : f[x] = f[y] /\ g[x] = g[y] => x = y,
           NEW before, OrderedByTwo(S, before, f, g)
    PROVE  Ranked(S, before)
<1>1. before \in [S -> SUBSET S]
  BY DEF OrderedByTwo
<1>2. \A x, y \in S : y \in before[x] <=> (f[y] < f[x] \/ (f[y] = f[x] /\ g[y] < g[x]))
  BY DEF OrderedByTwo
<1>3. ASSUME NEW x \in S, NEW y \in before[x] PROVE x \notin before[x] /\ y \notin before[y] /\ before[y] \subseteq before[x]
  <2>1. y \in S
    BY <1>1
  <2>2. ASSUME NEW z \in before[y] PROVE z \in before[x]
    <3>1. z \in S
      BY <1>1, <2>1
    <3> QED
      BY <1>2, <1>3, <2>1, <3>1
  <2> QED
    BY <1>2, <2>1, <2>2
<1>4. \A x, y \in S : x = y \/ x \in before[y] \/ y \in before[x]
  BY <1>2
<1>5. \A x \in S : x \notin before[x]
  BY <1>2
<1> QED
  BY <1>1, <1>3, <1>4, <1>5, RankedOnce

-----------------------------------------------------------------------------
(***************************************************************************)
(* The sources of the tracks.                                              *)
(***************************************************************************)
AllLinks == edges \cup LinksOfGroups

LEMMA LinksAreOfTracks ==
    ASSUME tracks \in Seq(ExtractedTracks), edges \subseteq Pairs(tracks)
    PROVE  /\ IsFiniteSet(DOMAIN tracks) /\ DOMAIN tracks \subseteq Nat
           /\ IsFiniteSet(AllLinks)
           /\ \A l \in AllLinks : l[1] \in DOMAIN tracks /\ l[2] \in DOMAIN tracks
<1> DEFINE n == Len(tracks)
           ends == DOMAIN tracks
           one == 1
<1>1. n \in Nat /\ ends = one..n /\ n \in Int /\ one \in Int
  OBVIOUS
<1>2. IsFiniteSet(ends)
  <2> HIDE DEF n, one, ends
  <2> QED
    BY <1>1, FS_Interval
<1>3. IsFiniteSet(ends \X ends)
  <2> HIDE DEF ends
  <2> QED
    BY <1>2, FS_Product
<1>4. AllLinks \in SUBSET (ends \X ends)
  BY DEF AllLinks, LinksOfGroups, Pairs
<1>5. IsFiniteSet(AllLinks)
  <2> HIDE DEF ends
  <2> QED
    BY <1>3, <1>4, FS_Subset
<1> QED
  BY <1>1, <1>2, <1>4, <1>5

LEMMA TimesOfTracks ==
    ASSUME tracks \in Seq(ExtractedTracks), NEW t \in DOMAIN tracks
    PROVE  tracks[t].start \in Nat /\ tracks[t].end \in Nat /\ t \in Nat
<1>1. tracks[t] \in ExtractedTracks /\ t \in Nat
  OBVIOUS
<1>2. \A r \in ExtractedTracks : r.start \in Nat /\ r.end \in Nat
  BY DEF ExtractedTracks
<1> QED
  BY <1>1, <1>2

LEMMA CanonicalIsMember ==
    ASSUME tracks \in Seq(ExtractedTracks), NEW members, members \subseteq DOMAIN tracks, members # {},
           IsFiniteSet(members)
    PROVE  Canonical(members) \in members
<1> DEFINE ahead == [t \in members |-> {u \in members : \/ tracks[u].start < tracks[t].start
                                                        \/ tracks[u].start = tracks[t].start /\ u < t}]
<1>1. \A t \in members : tracks[t].start \in Nat /\ t \in Nat
  BY TimesOfTracks
<1>2. ahead \in [members -> SUBSET members]
  OBVIOUS
<1>3. \A t, u \in members : u \in ahead[t] <=> \/ tracks[u].start < tracks[t].start
                                               \/ tracks[u].start = tracks[t].start /\ u < t
  OBVIOUS
<1> HIDE DEF ahead
<1>4. ASSUME NEW t \in members, NEW u \in ahead[t] PROVE u \notin ahead[u] /\ ahead[u] \subseteq ahead[t]
  <2>1. u \in members
    BY <1>2
  <2>2. ASSUME NEW w \in ahead[u] PROVE w \in ahead[t]
    <3>1. w \in members
      BY <1>2, <2>1
    <3> QED
      BY <1>1, <1>3, <1>4, <2>1, <3>1
  <2> QED
    BY <1>1, <1>3, <2>1, <2>2
<1>5. PICK t \in members : ahead[t] = {}
  BY <1>2, <1>4, FirstInOrder
<1>6. ASSUME NEW u \in members
      PROVE  tracks[t].start < tracks[u].start \/ (tracks[t].start = tracks[u].start /\ t <= u)
  BY <1>1, <1>3, <1>5
<1> QED
  BY <1>5, <1>6 DEF Canonical

LEMMA MinIsMember ==
    ASSUME NEW s, s \subseteq Nat, s # {}
    PROVE  Min(s) \in s
<1>1. \E n \in s : \A m \in s : n <= m
  BY LeastNatural
<1> QED
  BY <1>1 DEF Min

SourceOf(k) ==
    /\ {"id", "tracks", "spans"} \subseteq DOMAIN sources[k]
    /\ sources[k].id \in sources[k].tracks
    /\ sources[k].spans = {<<tracks[t].start, tracks[t].end>> : t \in sources[k].tracks}

SourcesDivide ==
    /\ \E n \in Nat : DOMAIN sources = 1..n
    /\ AreClasses({sources[k].tracks : k \in DOMAIN sources}, DOMAIN tracks, AllLinks)
    /\ \A i, j \in DOMAIN sources : sources[i].tracks = sources[j].tracks => i = j
    /\ \A i \in DOMAIN sources : SourceOf(i)

LEMMA SourcesAreBuilt ==
    ASSUME tracks \in Seq(ExtractedTracks), edges \subseteq Pairs(tracks), BuildSources
    PROVE  SourcesDivide'
<1> DEFINE items == DOMAIN tracks
           classes == Classes(items, AllLinks)
           first == [c \in classes |-> tracks[Canonical(c)].start]
           low == [c \in classes |-> Min(c)]
           before == [d \in classes |-> {c \in classes :
                        \/ tracks[Canonical(c)].start < tracks[Canonical(d)].start
                        \/ /\ tracks[Canonical(c)].start = tracks[Canonical(d)].start
                           /\ Min(c) < Min(d)}]
           ordered == OrderedBy(classes, before)
           n == Cardinality(classes)
<1>1. /\ sources' = [k \in DOMAIN ordered |-> SourceOfTracks(ordered[k])]
      /\ tracks' = tracks
  BY DEF BuildSources, AllLinks
<1>2. AllLinks' = AllLinks
  BY DEF BuildSources, AllLinks, LinksOfGroups, Pairs, GroupConfidence, MapThenSumSet, MapThenFoldSet
<1>3. IsFiniteSet(items) /\ items \subseteq Nat
  BY LinksAreOfTracks
<1>4. AreClasses(classes, items, AllLinks)
  <2>1. IsFiniteSet(AllLinks) /\ \A l \in AllLinks : l[1] \in items /\ l[2] \in items
    BY LinksAreOfTracks
  <2> HIDE DEF items
  <2> QED
    BY <2>1, ClassesAre
<1> HIDE DEF classes
<1>5. UNION classes = items /\ {} \notin classes /\ \A c, d \in classes : c = d \/ c \cap d = {}
  BY <1>4 DEF AreClasses, Divided
<1>6. IsFiniteSet(classes) /\ n \in Nat
  <2>1. classes \in SUBSET (SUBSET items)
    BY <1>5
  <2>2. IsFiniteSet(SUBSET items)
    BY <1>3, FS_SUBSET
  <2>3. IsFiniteSet(classes)
    BY <2>1, <2>2, FS_Subset
  <2> QED
    BY <2>3, FS_CardinalityType
<1>7. ASSUME NEW c \in classes PROVE Canonical(c) \in c /\ Min(c) \in c /\ c \subseteq items
  <2>1. c # {} /\ c \subseteq items /\ c \subseteq Nat
    BY <1>3, <1>5
  <2>2. IsFiniteSet(c)
    BY <1>3, <2>1, FS_Subset
  <2> QED
    BY <2>1, <2>2, CanonicalIsMember, MinIsMember
<1>8. ListsOnce(ordered, classes)
  <2>1. \A c \in classes : first[c] \in Int /\ low[c] \in Int
    BY <1>3, <1>7, TimesOfTracks
  <2>2. \A c, d \in classes : first[c] = first[d] /\ low[c] = low[d] => c = d
    BY <1>5, <1>7
  <2>3. OrderedByTwo(classes, before, first, low)
    BY Zenon DEF OrderedByTwo
  <2> HIDE DEF before, first, low
  <2>4. Ranked(classes, before)
    BY <1>6, <2>1, <2>2, <2>3, TwoNumbersRank
  <2> QED
    BY <1>6, <2>4, RankedListsOnce
<1> HIDE DEF ordered, before
<1>9. /\ DOMAIN ordered = 1..n
      /\ \A i \in 1..n : ordered[i] \in classes
      /\ \A i, j \in 1..n : ordered[i] = ordered[j] => i = j
      /\ \A c \in classes : \E i \in 1..n : ordered[i] = c
  BY <1>8 DEF ListsOnce
<1> HIDE DEF n
<1>10. /\ DOMAIN sources' = 1..n
       /\ \A i \in 1..n : /\ {"id", "tracks", "spans"} \subseteq DOMAIN sources'[i]
                          /\ sources'[i].tracks = ordered[i]
                          /\ sources'[i].id = Canonical(ordered[i])
                          /\ sources'[i].spans = {<<tracks[t].start, tracks[t].end>> : t \in ordered[i]}
  BY <1>1, <1>9 DEF SourceOfTracks
<1>11. {sources'[k].tracks : k \in DOMAIN sources'} = classes
  BY <1>9, <1>10
<1>12. \A i \in 1..n : SourceOf(i)'
  BY <1>1, <1>7, <1>9, <1>10 DEF SourceOf
<1>13. \A i, j \in DOMAIN sources' : sources'[i].tracks = sources'[j].tracks => i = j
  BY <1>9, <1>10
<1>14. AreClasses({sources'[k].tracks : k \in DOMAIN sources'}, DOMAIN tracks', AllLinks')
  BY <1>1, <1>2, <1>4, <1>11
<1> QED
  BY <1>6, <1>10, <1>12, <1>13, <1>14 DEF SourcesDivide

LEMMA UnlikeWithinWindow ==
    ASSUME NEW i, NEW j, similarity[<<i, j>>] \in Similarities, Accepted(i, j)
    PROVE  ~SameWindow(i, j)
<1> DEFINE likeness == similarity[<<i, j>>]
           alike == LargerOf(likeness, 0)
           told == LabelCompatibility(i, j)
<1>1. SUFFICES ASSUME SameWindow(i, j) PROVE FALSE
  OBVIOUS
<1>2. alike \in 0..1000
  <2>1. Similarities \subseteq -1000..1000
    BY Zenon, IdentityAssumption
  <2>2. likeness \in Similarities
    OBVIOUS
  <2> HIDE DEF likeness
  <2>3. likeness \in -1000..1000
    BY <2>1, <2>2
  <2> QED
    BY <2>3 DEF LargerOf
<1>3. told \in {0, 500, 1000}
  BY DEF LabelCompatibility
<1>4. ContinuityBonus(i, j) = 0
  BY <1>1 DEF ContinuityBonus
<1>5. 7 * alike + 2 * told + 10 * 0 >= 10 * 995
  BY <1>1, <1>4 DEF Accepted, EdgeConfidence, SameWindowThreshold
<1> HIDE DEF alike, told
<1> QED
  BY <1>2, <1>3, <1>5

Likenesses == \A p \in Pairs(tracks) : similarity[p] \in Similarities

EdgesLeadOut ==
    /\ edges \subseteq Pairs(tracks)
    /\ \A l \in edges : ~SameWindow(l[1], l[2])

SourceInv ==
    /\ tracks \in Seq(ExtractedTracks)
    /\ Likenesses
    /\ EdgesLeadOut
    /\ identityStage \notin {"crop", "identity", "sources"} => SourcesDivide

LEMMA SourcesStayDivided ==
    ASSUME SourcesDivide, UNCHANGED <<tracks, similarity, edges, lookAlikes, sources>>
    PROVE  SourcesDivide'
<1>1. AllLinks' = AllLinks
  BY DEF AllLinks, LinksOfGroups, Pairs, GroupConfidence, MapThenSumSet, MapThenFoldSet
<1> QED
  BY <1>1 DEF SourcesDivide, SourceOf

LEMMA InterpretedIsTheSame ==
    ASSUME NEW source, NEW answer, {"id", "tracks", "spans"} \subseteq DOMAIN source
    PROVE  /\ {"id", "tracks", "spans"} \subseteq DOMAIN Interpreted(source, answer)
           /\ Interpreted(source, answer).id = source.id
           /\ Interpreted(source, answer).tracks = source.tracks
           /\ Interpreted(source, answer).spans = source.spans
  BY DEF Interpreted

LEMMA InterpretedStayDivided ==
    ASSUME SourcesDivide, InterpretSources
    PROVE  /\ SourcesDivide'
           /\ DOMAIN sources' = DOMAIN sources
           /\ \A k \in DOMAIN sources : sources'[k].id = sources[k].id /\ sources'[k].spans = sources[k].spans
<1>1. UNCHANGED <<tracks, similarity, edges, lookAlikes>>
  BY DEF InterpretSources
<1>2. AllLinks' = AllLinks
  BY <1>1 DEF AllLinks, LinksOfGroups, Pairs, GroupConfidence, MapThenSumSet, MapThenFoldSet
<1>3. PICK answers : sources' = [k \in DOMAIN sources |-> Interpreted(sources[k], answers[k])]
  BY DEF InterpretSources
<1>4. DOMAIN sources' = DOMAIN sources
  BY <1>3
<1>5. \A k \in DOMAIN sources : /\ {"id", "tracks", "spans"} \subseteq DOMAIN sources'[k]
                                /\ sources'[k].tracks = sources[k].tracks
                                /\ sources'[k].id = sources[k].id
                                /\ sources'[k].spans = sources[k].spans
  <2> SUFFICES ASSUME NEW k \in DOMAIN sources
               PROVE  /\ {"id", "tracks", "spans"} \subseteq DOMAIN sources'[k]
                      /\ sources'[k].tracks = sources[k].tracks
                      /\ sources'[k].id = sources[k].id
                      /\ sources'[k].spans = sources[k].spans
    OBVIOUS
  <2>1. sources'[k] = Interpreted(sources[k], answers[k])
    BY <1>3
  <2>2. {"id", "tracks", "spans"} \subseteq DOMAIN sources[k]
    BY DEF SourcesDivide, SourceOf
  <2> QED
    BY <2>1, <2>2, InterpretedIsTheSame
<1>6. {sources'[k].tracks : k \in DOMAIN sources'} = {sources[k].tracks : k \in DOMAIN sources}
  BY <1>4, <1>5
<1>7. \A k \in DOMAIN sources' : SourceOf(k)'
  BY <1>1, <1>4, <1>5 DEF SourcesDivide, SourceOf
<1>8. \A i, j \in DOMAIN sources' : sources'[i].tracks = sources'[j].tracks => i = j
  BY <1>4, <1>5 DEF SourcesDivide
<1>9. AreClasses({sources'[k].tracks : k \in DOMAIN sources'}, DOMAIN tracks', AllLinks')
  BY <1>1, <1>2, <1>6 DEF SourcesDivide
<1>10. \E n \in Nat : DOMAIN sources' = 1..n
  BY <1>4 DEF SourcesDivide
<1> QED
  BY <1>4, <1>5, <1>7, <1>8, <1>9, <1>10 DEF SourcesDivide

LEMMA SourceInvHolds == IdentitySpec => []SourceInv
<1>1. IdentityInit => SourceInv
  <2> SUFFICES ASSUME IdentityInit PROVE SourceInv
    OBVIOUS
  <2>1. tracks \in Seq(ExtractedTracks)
    BY IdentityAssumption DEF IdentityInit
  <2>2. similarity \in [Pairs(tracks) -> Similarities]
    BY DEF IdentityInit
  <2>3. Likenesses
    BY <2>2 DEF Likenesses
  <2> QED
    BY <2>1, <2>3 DEF IdentityInit, SourceInv, EdgesLeadOut
<1>2. SourceInv /\ [IdentityNext]_identityVars => SourceInv'
  <2> SUFFICES ASSUME SourceInv, [IdentityNext]_identityVars PROVE SourceInv'
    OBVIOUS
  <2>1. /\ tracks \in Seq(ExtractedTracks)
        /\ Likenesses
        /\ EdgesLeadOut
        /\ identityStage \notin {"crop", "identity", "sources"} => SourcesDivide
    BY DEF SourceInv
  <2> DEFINE TracksStay == UNCHANGED <<tracks, similarity>>
  <2>2. TracksStay => tracks' \in Seq(ExtractedTracks) /\ Likenesses'
    BY <2>1 DEF Likenesses
  <2>3. TracksStay /\ UNCHANGED edges => EdgesLeadOut'
    BY <2>1 DEF EdgesLeadOut, SameWindow
  <2>4. CASE CropTracks
    BY <2>2, <2>3, <2>4 DEF CropTracks, SourceInv
  <2>5. CASE BuildIdentity
    <3>1. ASSUME NEW l \in edges' PROVE l \in Pairs(tracks) /\ ~SameWindow(l[1], l[2])
      <4>1. l \in Pairs(tracks) /\ Accepted(l[1], l[2])
        BY <2>5 DEF BuildIdentity
      <4>2. l = <<l[1], l[2]>>
        BY <4>1 DEF Pairs
      <4>3. similarity[<<l[1], l[2]>>] \in Similarities
        BY <2>1, <4>1, <4>2 DEF Likenesses
      <4> QED
        BY <4>1, <4>3, UnlikeWithinWindow
    <3>2. EdgesLeadOut'
      BY <2>5, <3>1 DEF BuildIdentity, EdgesLeadOut, SameWindow
    <3> QED
      BY <2>2, <2>5, <3>2 DEF BuildIdentity, SourceInv
  <2>6. CASE BuildSources
    <3>1. SourcesDivide'
      BY <2>1, <2>6, SourcesAreBuilt DEF EdgesLeadOut
    <3> QED
      BY <2>2, <2>3, <2>6, <3>1 DEF BuildSources, SourceInv
  <2>7. CASE InterpretSources
    <3>1. SourcesDivide'
      BY <2>1, <2>7, InterpretedStayDivided DEF InterpretSources
    <3> QED
      BY <2>2, <2>3, <2>7, <3>1 DEF InterpretSources, SourceInv
  <2>8. CASE GroupEvents \/ RouteGroups \/ UNCHANGED identityVars
    <3>1. /\ UNCHANGED <<tracks, similarity, edges, lookAlikes, sources>>
          /\ identityStage' \notin {"crop", "identity", "sources"} => SourcesDivide
      BY <2>1, <2>8 DEF GroupEvents, RouteGroups, identityVars
    <3>2. SourcesDivide => SourcesDivide'
      BY <3>1, SourcesStayDivided
    <3> QED
      BY <2>2, <2>3, <3>1, <3>2 DEF SourceInv
  <2> QED
    BY <2>4, <2>5, <2>6, <2>7, <2>8 DEF IdentityNext
<1> QED
  BY <1>1, <1>2, PTL DEF IdentitySpec

LEMMA BoundIsLinked ==
    ASSUME NEW c, NEW links, Bound(c, links)
    PROVE  Linked(c, links)
<1> SUFFICES ASSUME NEW part \in SUBSET c, part \notin {{}, c}
             PROVE  \E l \in links : Cardinality({l[1], l[2]} \cap part) = 1 /\ {l[1], l[2]} \subseteq c
  BY DEF Linked
<1>1. PICK l \in links : l[1] \in c /\ l[2] \in c /\ Splits(l, part)
  BY DEF Bound
<1>2. {l[1], l[2]} \cap part = {l[1]} \/ {l[1], l[2]} \cap part = {l[2]}
  BY <1>1 DEF Splits
<1>3. Cardinality({l[1], l[2]} \cap part) = 1
  BY <1>2, FS_Singleton
<1> QED
  BY <1>1, <1>3

\* Whatever is extracted and however the tracks resemble each other, the
\* sources divide the tracks by what links them and by nothing else
\* (build_provisional_source_tracks).
THEOREM SourcesAlwaysLinkedTracks == IdentitySpec => []SourcesAreLinkedTracks
<1>1. SourceInv => SourcesAreLinkedTracks
  <2> SUFFICES ASSUME SourceInv, identityStage \notin {"crop", "identity", "sources"}
               PROVE  /\ UNION {s.tracks : s \in Range(sources)} = DOMAIN tracks
                      /\ \A i, j \in DOMAIN sources : sources[i].tracks \cap sources[j].tracks # {} => i = j
                      /\ \A s \in Range(sources) :
                            /\ s.id \in s.tracks
                            /\ Linked(s.tracks, AllLinks)
                            /\ \A l \in AllLinks : l[1] \in s.tracks <=> l[2] \in s.tracks
                      /\ \A l \in edges : ~SameWindow(l[1], l[2])
    BY DEF SourcesAreLinkedTracks, AllLinks
  <2> DEFINE classes == {sources[k].tracks : k \in DOMAIN sources}
  <2>1. SourcesDivide /\ \A l \in edges : ~SameWindow(l[1], l[2])
    BY DEF SourceInv, EdgesLeadOut
  <2>2. /\ UNION classes = DOMAIN tracks
        /\ \A c, d \in classes : c = d \/ c \cap d = {}
        /\ \A c \in classes : Bound(c, AllLinks)
        /\ \A l \in AllLinks : \E c \in classes : l[1] \in c /\ l[2] \in c
        /\ \A i, j \in DOMAIN sources : sources[i].tracks = sources[j].tracks => i = j
        /\ \A i \in DOMAIN sources : sources[i].id \in sources[i].tracks
    BY <2>1 DEF SourcesDivide, SourceOf, AreClasses, Divided
  <2>3. {s.tracks : s \in Range(sources)} = classes
    BY DEF Range
  <2>4. \A i \in DOMAIN sources : sources[i].tracks \in classes
    OBVIOUS
  <2> HIDE DEF classes
  <2>5. ASSUME NEW s \in Range(sources)
        PROVE  /\ s.id \in s.tracks
               /\ Linked(s.tracks, AllLinks)
               /\ \A l \in AllLinks : l[1] \in s.tracks <=> l[2] \in s.tracks
    <3>1. PICK i \in DOMAIN sources : s = sources[i]
      BY DEF Range
    <3>2. s.tracks \in classes /\ s.id \in s.tracks
      BY <2>2, <2>4, <3>1
    <3>3. Linked(s.tracks, AllLinks)
      BY <2>2, <3>2, BoundIsLinked
    <3>4. ASSUME NEW l \in AllLinks PROVE l[1] \in s.tracks <=> l[2] \in s.tracks
      <4>1. PICK c \in classes : l[1] \in c /\ l[2] \in c
        BY <2>2
      <4>2. c = s.tracks \/ c \cap s.tracks = {}
        BY <2>2, <3>2
      <4> QED
        BY <4>1, <4>2
    <3> QED
      BY <3>2, <3>3, <3>4
  <2>6. \A i, j \in DOMAIN sources : sources[i].tracks \cap sources[j].tracks # {} => i = j
    BY <2>2, <2>4
  <2> QED
    BY <2>1, <2>2, <2>3, <2>5, <2>6
<1> QED
  BY <1>1, SourceInvHolds, PTL

-----------------------------------------------------------------------------
(***************************************************************************)
(* Flattened lists.                                                        *)
(***************************************************************************)
Distinct(s) == \A a, b \in DOMAIN s : s[a] = s[b] => a = b

LEMMA DistinctTogether ==
    ASSUME NEW E, NEW s \in Seq(E), NEW t \in Seq(E), Distinct(s), Distinct(t),
           \A a \in DOMAIN s, b \in DOMAIN t : s[a] # t[b]
    PROVE  /\ s \o t \in Seq(E) /\ Distinct(s \o t)
           /\ \A x : x \in Range(s \o t) <=> x \in Range(s) \/ x \in Range(t)
<1> DEFINE m == Len(s)
           n == Len(t)
           both == s \o t
<1>1. /\ both \in Seq(E) /\ Len(both) = m + n
      /\ \A i \in 1..(m + n) : both[i] = IF i <= m THEN s[i] ELSE t[i - m]
  BY ConcatProperties
<1>2. DOMAIN both = 1..(m + n) /\ DOMAIN s = 1..m /\ DOMAIN t = 1..n /\ m \in Nat /\ n \in Nat
  BY <1>1
<1> HIDE DEF m, n, both
<1>3. \A i \in 1..m : i \in 1..(m + n) /\ both[i] = s[i]
  BY <1>1, <1>2
<1>4. \A i \in 1..n : i + m \in 1..(m + n) /\ both[i + m] = t[i]
  <2> SUFFICES ASSUME NEW i \in 1..n PROVE i + m \in 1..(m + n) /\ both[i + m] = t[i]
    OBVIOUS
  <2>1. i + m \in 1..(m + n) /\ ~(i + m <= m) /\ (i + m) - m = i
    BY <1>2
  <2> QED
    BY <1>1, <2>1
<1>5. \A i \in 1..(m + n) : i \in 1..m \/ (i - m \in 1..n /\ both[i] = t[i - m])
  BY <1>1, <1>2
<1>6. Distinct(both)
  <2> SUFFICES ASSUME NEW a \in 1..(m + n), NEW b \in 1..(m + n), both[a] = both[b] PROVE a = b
    BY <1>2 DEF Distinct
  <2>1. CASE a \in 1..m /\ b \in 1..m
    BY <1>2, <1>3, <2>1 DEF Distinct
  <2>2. CASE a \in 1..m /\ b \notin 1..m
    BY <1>2, <1>3, <1>5, <2>2
  <2>3. CASE a \notin 1..m /\ b \in 1..m
    BY <1>2, <1>3, <1>5, <2>3
  <2>4. CASE a \notin 1..m /\ b \notin 1..m
    <3>1. a - m \in 1..n /\ b - m \in 1..n /\ t[a - m] = t[b - m]
      BY <1>5, <2>4
    <3>2. a - m = b - m
      BY <1>2, <3>1 DEF Distinct
    <3> QED
      BY <1>2, <3>2
  <2> QED
    BY <2>1, <2>2, <2>3, <2>4
<1>7. ASSUME NEW x PROVE x \in Range(both) <=> x \in Range(s) \/ x \in Range(t)
  <2>1. x \in Range(both) => x \in Range(s) \/ x \in Range(t)
    <3> SUFFICES ASSUME NEW i \in 1..(m + n), x = both[i] PROVE x \in Range(s) \/ x \in Range(t)
      BY <1>2 DEF Range
    <3> QED
      BY <1>2, <1>3, <1>5 DEF Range
  <2>2. x \in Range(s) => x \in Range(both)
    BY <1>2, <1>3 DEF Range
  <2>3. x \in Range(t) => x \in Range(both)
    BY <1>2, <1>4 DEF Range
  <2> QED
    BY <2>1, <2>2, <2>3
<1> QED
  BY <1>1, <1>6, <1>7 DEF both

\* flat holds what the first k lists hold, each thing once.
Flattened(flat, seqs, k, E) ==
    /\ flat \in Seq(E) /\ Distinct(flat)
    /\ \A x : x \in Range(flat) <=> \E i \in 1..k : x \in Range(seqs[i])

Separate(seqs) ==
    \A i, j \in DOMAIN seqs : i # j => \A a \in DOMAIN seqs[i], b \in DOMAIN seqs[j] :
        seqs[i][a] # seqs[j][b]

FlattensAll(flatten, seqs, n) ==
    flatten = [i \in 1..n |-> IF i = 1 THEN seqs[i] ELSE flatten[i - 1] \o seqs[i]]

LEMMA FlatteningExists ==
    ASSUME NEW E, NEW n \in Nat, NEW seqs \in [1..n -> Seq(E)]
    PROVE  \E flatten : FlattensAll(flatten, seqs, n)
<1> DEFINE T == Seq(E)
           none == <<>>
           add == [p \in (1..n) \X T |-> p[2] \o seqs[p[1]]]
<1>1. none \in T /\ add \in [(1..n) \X T -> T]
  <2>1. \A i \in 1..n, s \in T : s \o seqs[i] \in T
    BY ConcatProperties
  <2> QED
    BY <2>1
<1>2. \A i \in 1..n, s \in T : add[<<i, s>>] = s \o seqs[i]
  OBVIOUS
<1> HIDE DEF add, T, none
<1>3. HasFoldOfItems(n, T, none, add)
  BY <1>1, FoldOfItemsExists
<1>4. PICK it : FoldOfItems(it, n, T, none, add)
  BY <1>3 DEF HasFoldOfItems
<1> DEFINE flatten == [i \in 1..n |-> it[1..i]]
<1>5. ASSUME NEW i \in 1..n
      PROVE  it[1..i] = it[1..(i - 1)] \o seqs[i] /\ it[1..(i - 1)] \in T
  <2>1. 1..i \in SUBSET (1..n) /\ 1..i # {} /\ Max(1..i) = i /\ (1..i) \ {Max(1..i)} = 1..(i - 1)
    BY LastOfFirst
  <2>2. it[1..i] = add[<<i, it[1..(i - 1)]>>] /\ it[1..(i - 1)] \in T
    BY <1>4, <2>1 DEF FoldOfItems
  <2> QED
    BY <1>2, <2>2
<1>6. it[{}] = <<>>
  BY <1>4 DEF FoldOfItems, none
<1>7. ASSUME NEW i \in 1..n
      PROVE  flatten[i] = IF i = 1 THEN seqs[i] ELSE flatten[i - 1] \o seqs[i]
  <2>1. CASE i = 1
    <3>1. 1..(i - 1) = {} /\ seqs[i] \in Seq(E)
      BY <2>1
    <3>2. it[1..i] = <<>> \o seqs[i]
      BY <1>5, <1>6, <3>1
    <3> QED
      BY <2>1, <3>1, <3>2, ConcatEmptySeq
  <2>2. CASE i # 1
    <3>1. i - 1 \in 1..n
      BY <2>2
    <3> QED
      BY <1>5, <2>2, <3>1
  <2> QED
    BY <2>1, <2>2
<1>8. flatten = [i \in 1..n |-> flatten[i]]
  OBVIOUS
<1>9. FlattensAll(flatten, seqs, n)
  <2> HIDE DEF flatten
  <2> QED
    BY <1>7, <1>8 DEF FlattensAll
<1> QED
  BY <1>9

LEMMA FlattenedOnce ==
    ASSUME NEW E, NEW seqs \in Seq(Seq(E)), Separate(seqs), \A i \in DOMAIN seqs : Distinct(seqs[i])
    PROVE  Flattened(FlattenSeq(seqs), seqs, Len(seqs), E)
<1> DEFINE n == Len(seqs)
           flatten == CHOOSE flatten : FlattensAll(flatten, seqs, n)
<1>1. n \in Nat /\ DOMAIN seqs = 1..n /\ seqs \in [1..n -> Seq(E)]
  OBVIOUS
<1>2. FlattenSeq(seqs) = IF n = 0 THEN seqs ELSE flatten[n]
  BY Zenon DEF FlattenSeq, FlattensAll
<1> HIDE DEF n, flatten
<1>3. CASE n = 0
  <2>1. FlattenSeq(seqs) = <<>>
    BY <1>1, <1>2, <1>3 DEF n
  <2>2. Flattened(<<>>, seqs, 0, E)
    BY DEF Flattened, Distinct, Range
  <2> QED
    BY <1>3, <2>1, <2>2 DEF n
<1>4. CASE n # 0
  <2>1. FlattensAll(flatten, seqs, n)
    BY <1>1, FlatteningExists DEF flatten
  <2> DEFINE wrong == {i \in 1..n : ~Flattened(flatten[i], seqs, i, E)}
  <2>2. \A i \in 1..n : /\ flatten[i] = IF i = 1 THEN seqs[i] ELSE flatten[i - 1] \o seqs[i]
                        /\ seqs[i] \in Seq(E) /\ Distinct(seqs[i])
    BY <1>1, <2>1 DEF FlattensAll
  <2>3. 1 \notin wrong
    <3>1. 1 \in 1..n => flatten[1] = seqs[1] /\ seqs[1] \in Seq(E) /\ Distinct(seqs[1])
      BY <2>2
    <3> QED
      BY <3>1 DEF Flattened
  <2>4. ASSUME NEW i \in 1..n, i # 1, i - 1 \notin wrong PROVE i \notin wrong
    <3>1. i - 1 \in 1..n /\ Flattened(flatten[i - 1], seqs, i - 1, E)
      BY <1>1, <2>4
    <3> DEFINE before == flatten[i - 1]
    <3>2. before \in Seq(E) /\ Distinct(before) /\ \A x : x \in Range(before) <=> \E j \in 1..(i - 1) : x \in Range(seqs[j])
      BY <3>1 DEF Flattened
    <3>3. flatten[i] = before \o seqs[i] /\ seqs[i] \in Seq(E) /\ Distinct(seqs[i])
      BY <2>2, <2>4
    <3> HIDE DEF before
    <3>4. \A a \in DOMAIN before, b \in DOMAIN seqs[i] : before[a] # seqs[i][b]
      <4> SUFFICES ASSUME NEW a \in DOMAIN before, NEW b \in DOMAIN seqs[i] PROVE before[a] # seqs[i][b]
        OBVIOUS
      <4>1. before[a] \in Range(before)
        BY DEF Range
      <4>2. PICK j \in 1..(i - 1) : before[a] \in Range(seqs[j])
        BY <3>2, <4>1
      <4>3. PICK c \in DOMAIN seqs[j] : before[a] = seqs[j][c]
        BY <4>2 DEF Range
      <4>4. j \in DOMAIN seqs /\ i \in DOMAIN seqs /\ j # i
        BY <1>1
      <4> QED
        BY <4>3, <4>4 DEF Separate
    <3>5. /\ before \o seqs[i] \in Seq(E) /\ Distinct(before \o seqs[i])
          /\ \A x : x \in Range(before \o seqs[i]) <=> x \in Range(before) \/ x \in Range(seqs[i])
      BY <3>2, <3>3, <3>4, DistinctTogether
    <3>6. \A x : (\E j \in 1..i : x \in Range(seqs[j]))
                 <=> (\E j \in 1..(i - 1) : x \in Range(seqs[j])) \/ x \in Range(seqs[i])
      <4>1. \A j \in 1..i : j \in 1..(i - 1) \/ j = i
        BY <1>1
      <4>2. i \in 1..i /\ \A j \in 1..(i - 1) : j \in 1..i
        BY <1>1
      <4> QED
        BY <4>1, <4>2
    <3>7. Flattened(flatten[i], seqs, i, E)
      BY <3>2, <3>3, <3>5, <3>6 DEF Flattened
    <3> QED
      BY <3>7
  <2>5. wrong = {}
    <3> SUFFICES ASSUME wrong # {} PROVE FALSE
      OBVIOUS
    <3>1. wrong \subseteq Nat /\ wrong \subseteq 1..n
      BY <1>1
    <3> HIDE DEF wrong
    <3>2. PICK i \in wrong : \A j \in wrong : i <= j
      BY <3>1, LeastNatural
    <3>3. i \in 1..n /\ i # 1
      BY <2>3, <3>1, <3>2
    <3>4. i - 1 \notin wrong
      BY <3>1, <3>2, <3>3
    <3> QED
      BY <2>4, <3>2, <3>3, <3>4
  <2>6. n \in 1..n
    BY <1>1, <1>4
  <2> QED
    BY <1>2, <1>4, <2>5, <2>6 DEF n
<1> QED
  BY <1>3, <1>4

-----------------------------------------------------------------------------
(***************************************************************************)
(* The sounds of the sources.                                              *)
(***************************************************************************)
SoundEvents == [source : Nat, span : Nat \X Nat]

SoundOf(source, p) == [source |-> source.id, span |-> p]

LEMMA EventsOfASource ==
    ASSUME NEW source, IsFiniteSet(source.spans), source.spans \subseteq Nat \X Nat, source.id \in Nat
    PROVE  /\ EventsOf(source) \in Seq(SoundEvents) /\ Distinct(EventsOf(source))
           /\ \A x : x \in Range(EventsOf(source))
                     <=> IsHeard(source) /\ \E p \in source.spans : x = SoundOf(source, p)
<1>1. CASE ~IsHeard(source)
  BY <1>1 DEF EventsOf, Distinct, Range
<1>2. CASE IsHeard(source)
  <2> DEFINE S == source.spans
             before == [b \in S |-> {a \in S : a[1] < b[1] \/ (a[1] = b[1] /\ a[2] < b[2])}]
             spans == OrderedBy(S, before)
             list == [k \in DOMAIN spans |-> SoundOf(source, spans[k])]
             n == Cardinality(S)
             starts == [p \in S |-> p[1]]
             ends == [p \in S |-> p[2]]
  <2>1. EventsOf(source) = list
    BY <1>2 DEF EventsOf, SoundOf
  <2>2. ListsOnce(spans, S)
    <3>1. OrderedByTwo(S, before, starts, ends)
      BY Zenon DEF OrderedByTwo
    <3>2. /\ \A p \in S : starts[p] \in Int /\ ends[p] \in Int
          /\ \A p, q \in S : starts[p] = starts[q] /\ ends[p] = ends[q] => p = q
      OBVIOUS
    <3>3. IsFiniteSet(S)
      OBVIOUS
    <3> HIDE DEF S, before, starts, ends
    <3>4. Ranked(S, before)
      BY <3>1, <3>2, <3>3, TwoNumbersRank
    <3> QED
      BY <3>3, <3>4, RankedListsOnce
  <2>3. n \in Nat /\ S \subseteq Nat \X Nat
    BY FS_CardinalityType
  <2> HIDE DEF spans, S, before
  <2>4. /\ spans \in [1..n -> S]
        /\ \A i, j \in 1..n : spans[i] = spans[j] => i = j
        /\ \A p \in S : \E i \in 1..n : spans[i] = p
    BY <2>2 DEF ListsOnce
  <2> HIDE DEF n
  <2>5. DOMAIN list = 1..n /\ \A k \in 1..n : spans[k] \in S /\ list[k] = SoundOf(source, spans[k])
    BY <2>4
  <2>6. list \in Seq(SoundEvents)
    <3>1. \A k \in 1..n : list[k] \in SoundEvents
      BY <2>3, <2>5 DEF SoundOf, SoundEvents
    <3>2. list = [k \in 1..n |-> list[k]]
      BY <2>4
    <3> HIDE DEF list
    <3> QED
      BY <2>3, <3>1, <3>2
  <2>7. Distinct(list)
    <3>1. \A p, q : SoundOf(source, p) = SoundOf(source, q) => p = q
      BY DEF SoundOf
    <3> HIDE DEF list
    <3> QED
      BY <2>4, <2>5, <3>1 DEF Distinct
  <2>8. \A x : x \in Range(list) <=> \E p \in S : x = SoundOf(source, p)
    <3> HIDE DEF list
    <3> QED
      BY <2>4, <2>5 DEF Range
  <2> HIDE DEF list
  <2> QED
    BY <1>2, <2>1, <2>6, <2>7, <2>8 DEF S
<1> QED
  BY <1>1, <1>2

\* Which sounds there are, each of them once.
EventsFollow ==
    /\ events \in Seq(SoundEvents) /\ Distinct(events)
    /\ \A x : x \in Range(events)
              <=> \E i \in DOMAIN sources : /\ IsHeard(sources[i])
                                            /\ \E p \in sources[i].spans : x = SoundOf(sources[i], p)
    /\ beds = {s.id : s \in {u \in Range(sources) : IsBed(u)}}

LEMMA SpansAreFinite ==
    ASSUME tracks \in Seq(ExtractedTracks), SourcesDivide, NEW k \in DOMAIN sources
    PROVE  /\ IsFiniteSet(sources[k].spans) /\ sources[k].spans \subseteq Nat \X Nat
           /\ sources[k].id \in Nat
<1> DEFINE members == sources[k].tracks
           spans == sources[k].spans
           span == [t \in members |-> <<tracks[t].start, tracks[t].end>>]
<1>1. members \subseteq DOMAIN tracks /\ sources[k].id \in members
      /\ spans = {<<tracks[t].start, tracks[t].end>> : t \in members}
  <2>1. members \in {sources[i].tracks : i \in DOMAIN sources}
    OBVIOUS
  <2> QED
    BY <2>1 DEF SourcesDivide, SourceOf, AreClasses, Divided
<1>2. IsFiniteSet(members)
  <2>1. IsFiniteSet(DOMAIN tracks)
    <3> DEFINE one == 1
               n == Len(tracks)
    <3>1. DOMAIN tracks = one..n /\ one \in Int /\ n \in Int
      OBVIOUS
    <3> HIDE DEF one, n
    <3> QED
      BY <3>1, FS_Interval
  <2> HIDE DEF members
  <2> QED
    BY <1>1, <2>1, FS_Subset
<1> HIDE DEF members, spans
<1>3. span \in Surjection(members, spans)
  BY <1>1 DEF Surjection
<1>4. IsFiniteSet(spans)
  <2> HIDE DEF span
  <2> QED
    BY <1>2, <1>3, FS_Surjection
<1>5. spans \subseteq Nat \X Nat /\ sources[k].id \in Nat
  BY <1>1, TimesOfTracks
<1> QED
  BY <1>4, <1>5 DEF spans

LEMMA IdsDiffer ==
    ASSUME SourcesDivide
    PROVE  \A i, j \in DOMAIN sources : sources[i].id = sources[j].id => i = j
<1> DEFINE classes == {sources[k].tracks : k \in DOMAIN sources}
<1>1. /\ \A i \in DOMAIN sources : sources[i].id \in sources[i].tracks /\ sources[i].tracks \in classes
      /\ \A i, j \in DOMAIN sources : sources[i].tracks = sources[j].tracks => i = j
      /\ \A c, d \in classes : c = d \/ c \cap d = {}
  BY DEF SourcesDivide, SourceOf, AreClasses, Divided
<1> HIDE DEF classes
<1> SUFFICES ASSUME NEW i \in DOMAIN sources, NEW j \in DOMAIN sources, sources[i].id = sources[j].id
             PROVE  i = j
  OBVIOUS
<1>2. sources[i].tracks \cap sources[j].tracks # {}
  BY <1>1
<1> QED
  BY <1>1, <1>2

LEMMA InterpretedSoundsFollow ==
    ASSUME tracks \in Seq(ExtractedTracks), SourcesDivide, InterpretSources
    PROVE  EventsFollow'
<1>1. /\ tracks' = tracks /\ SourcesDivide' /\ DOMAIN sources' = DOMAIN sources
      /\ \A k \in DOMAIN sources : sources'[k].id = sources[k].id /\ sources'[k].spans = sources[k].spans
  BY InterpretedStayDivided DEF InterpretSources
<1>2. PICK n \in Nat : DOMAIN sources = 1..n
  BY DEF SourcesDivide
<1> DEFINE seqs == [k \in DOMAIN sources' |-> EventsOf(sources'[k])]
<1>3. events' = FlattenSeq(seqs) /\ beds' = {s.id : s \in {u \in Range(sources') : IsBed(u)}}
  BY DEF InterpretSources
<1>4. ASSUME NEW k \in 1..n
      PROVE  /\ seqs[k] \in Seq(SoundEvents) /\ Distinct(seqs[k])
             /\ \A x : x \in Range(seqs[k])
                       <=> IsHeard(sources'[k]) /\ \E p \in sources'[k].spans : x = SoundOf(sources'[k], p)
  <2>1. seqs[k] = EventsOf(sources'[k])
    BY <1>1, <1>2
  <2>2. IsFiniteSet(sources'[k].spans) /\ sources'[k].spans \subseteq Nat \X Nat /\ sources'[k].id \in Nat
    BY <1>1, <1>2, SpansAreFinite
  <2> HIDE DEF seqs
  <2> QED
    BY <2>1, <2>2, EventsOfASource
<1>5. DOMAIN seqs = 1..n /\ seqs = [k \in 1..n |-> seqs[k]]
  BY <1>1, <1>2
<1> HIDE DEF seqs
<1>6. seqs \in Seq(Seq(SoundEvents)) /\ Len(seqs) = n
  BY <1>4, <1>5
<1>7. Separate(seqs)
  <2> SUFFICES ASSUME NEW i \in 1..n, NEW j \in 1..n, i # j,
                      NEW a \in DOMAIN seqs[i], NEW b \in DOMAIN seqs[j], seqs[i][a] = seqs[j][b]
               PROVE  FALSE
    BY <1>5 DEF Separate
  <2>1. seqs[i][a] \in Range(seqs[i]) /\ seqs[i][a] \in Range(seqs[j])
    BY DEF Range
  <2>2. PICK p : seqs[i][a] = SoundOf(sources'[i], p)
    BY <1>4, <2>1
  <2>3. PICK q : seqs[i][a] = SoundOf(sources'[j], q)
    BY <1>4, <2>1
  <2>4. sources'[i].id = sources'[j].id
    BY <2>2, <2>3 DEF SoundOf
  <2>5. \A k, l \in DOMAIN sources : sources[k].id = sources[l].id => k = l
    BY IdsDiffer
  <2> QED
    BY <1>1, <1>2, <2>4, <2>5
<1>8. Flattened(FlattenSeq(seqs), seqs, n, SoundEvents)
  <2>1. \A i \in DOMAIN seqs : Distinct(seqs[i])
    BY <1>4, <1>5
  <2> QED
    BY <1>6, <1>7, <2>1, FlattenedOnce
<1>9. /\ events' \in Seq(SoundEvents) /\ Distinct(events')
      /\ \A x : x \in Range(events') <=> \E i \in 1..n : x \in Range(seqs[i])
  BY <1>3, <1>8 DEF Flattened
<1>10. \A x : x \in Range(events')
              <=> \E i \in DOMAIN sources' : /\ IsHeard(sources'[i])
                                             /\ \E p \in sources'[i].spans : x = SoundOf(sources'[i], p)
  <2> DEFINE Sounds(i, x) == IsHeard(sources'[i]) /\ \E p \in sources'[i].spans : x = SoundOf(sources'[i], p)
  <2>1. \A i \in 1..n : \A x : x \in Range(seqs[i]) <=> Sounds(i, x)
    BY <1>4
  <2>2. DOMAIN sources' = 1..n
    BY <1>1, <1>2
  <2> HIDE DEF Sounds
  <2>3. \A x : x \in Range(events') <=> \E i \in DOMAIN sources' : Sounds(i, x)
    BY <1>9, <2>1, <2>2
  <2> QED
    BY <2>3 DEF Sounds
<1> QED
  BY <1>3, <1>9, <1>10 DEF EventsFollow

Candidates == {p \in Pairs(events) : CandidatePair(p[1], p[2])}

GroupsFollow ==
    /\ Divided(groups, DOMAIN events)
    /\ \A g \in groups : Bound(g, Candidates)

SoundInv ==
    /\ SourceInv
    /\ identityStage \in {"group", "route", "routed"} => EventsFollow
    /\ identityStage \in {"route", "routed"} => GroupsFollow

LEMMA GroupedFollow ==
    ASSUME events \in Seq(SoundEvents), GroupEvents
    PROVE  GroupsFollow'
<1>1. PICK merged \in SUBSET Candidates : groups' = Classes(DOMAIN events, merged)
  BY DEF GroupEvents, Candidates
<1>2. UNCHANGED <<events, sources>>
  BY DEF GroupEvents
<1> DEFINE items == DOMAIN events
           one == 1
           n == Len(events)
<1>3. IsFiniteSet(items)
  <2>1. items = one..n /\ one \in Int /\ n \in Int
    OBVIOUS
  <2> HIDE DEF items, one, n
  <2> QED
    BY <2>1, FS_Interval
<1>4. merged \in SUBSET (items \X items)
  BY <1>1 DEF Candidates, Pairs
<1>5. IsFiniteSet(merged)
  <2>1. IsFiniteSet(items \X items)
    <3> HIDE DEF items
    <3> QED
      BY <1>3, FS_Product
  <2> HIDE DEF items
  <2> QED
    BY <1>4, <2>1, FS_Subset
<1>6. \A l \in merged : l[1] \in items /\ l[2] \in items
  BY <1>4
<1>7. AreClasses(Classes(items, merged), items, merged)
  <2> HIDE DEF items
  <2> QED
    BY <1>5, <1>6, ClassesAre
<1>8. Divided(groups', items) /\ \A g \in groups' : Bound(g, merged)
  BY <1>1, <1>7 DEF AreClasses
<1>9. \A g \in groups' : Bound(g, Candidates)
  BY <1>1, <1>8, MoreBound
<1>10. Candidates' = Candidates
  BY <1>2 DEF Candidates, CandidatePair, LabelOf
<1> QED
  BY <1>2, <1>8, <1>9, <1>10 DEF GroupsFollow

LEMMA SoundInvHolds == IdentitySpec => []SoundInv
<1>1. IdentityInit => identityStage = "crop"
  BY DEF IdentityInit
<1>2. SourceInv /\ SoundInv /\ [IdentityNext]_identityVars /\ SourceInv' => SoundInv'
  <2> SUFFICES ASSUME SourceInv, SoundInv, [IdentityNext]_identityVars, SourceInv' PROVE SoundInv'
    OBVIOUS
  <2>1. CASE CropTracks \/ BuildIdentity \/ BuildSources
    BY <2>1 DEF CropTracks, BuildIdentity, BuildSources, SoundInv
  <2>2. CASE InterpretSources
    <3>1. tracks \in Seq(ExtractedTracks) /\ SourcesDivide
      BY <2>2 DEF SourceInv, InterpretSources
    <3>2. EventsFollow'
      BY <2>2, <3>1, InterpretedSoundsFollow
    <3> QED
      BY <2>2, <3>2 DEF InterpretSources, SoundInv
  <2>3. CASE GroupEvents
    <3>1. EventsFollow /\ UNCHANGED <<events, sources, beds>>
      BY <2>3 DEF SoundInv, GroupEvents
    <3>2. EventsFollow'
      BY <3>1 DEF EventsFollow, IsHeard, IsBed
    <3>3. GroupsFollow'
      BY <2>3, <3>1, GroupedFollow DEF EventsFollow
    <3> QED
      BY <3>2, <3>3 DEF SoundInv
  <2>4. CASE RouteGroups \/ UNCHANGED identityVars
    <3>1. /\ UNCHANGED <<events, sources, beds, groups>>
          /\ identityStage' \in {"group", "route", "routed"} => EventsFollow
          /\ identityStage' \in {"route", "routed"} => GroupsFollow
      BY <2>4 DEF RouteGroups, identityVars, SoundInv
    <3>2. EventsFollow => EventsFollow'
      BY <3>1 DEF EventsFollow, IsHeard, IsBed
    <3>3. GroupsFollow => GroupsFollow'
      BY <3>1 DEF GroupsFollow, Candidates, CandidatePair, LabelOf
    <3> QED
      BY <3>1, <3>2, <3>3 DEF SoundInv
  <2> QED
    BY <2>1, <2>2, <2>3, <2>4 DEF IdentityNext
<1>3. IdentityInit /\ SourceInv => SoundInv
  BY <1>1 DEF SoundInv
<1> QED
  BY <1>2, <1>3, SourceInvHolds, PTL DEF IdentitySpec

LEMMA SoundsOfASource ==
    ASSUME SourcesDivide, EventsFollow, NEW s \in Range(sources), IsFiniteSet(s.spans),
           NEW mine, mine = {e \in DOMAIN events : events[e].source = s.id}
    PROVE  /\ s.id \in beds => mine = {}
           /\ s.id \notin beds /\ s.audibility = "audible_active" =>
                 {events[e].span : e \in mine} = s.spans /\ Cardinality(mine) = Cardinality(s.spans)
           /\ s.audibility # "audible_active" => mine = {}
<1>1. PICK k \in DOMAIN sources : s = sources[k]
  BY DEF Range
<1>2. \A i \in DOMAIN sources : sources[i].id = s.id => i = k
  BY <1>1, IdsDiffer
<1>3. s.id \in beds <=> IsBed(s)
  <2>1. s.id \in beds => IsBed(s)
    <3> SUFFICES ASSUME s.id \in beds PROVE IsBed(s)
      OBVIOUS
    <3>1. PICK u \in Range(sources) : IsBed(u) /\ u.id = s.id
      BY DEF EventsFollow
    <3>2. PICK i \in DOMAIN sources : u = sources[i]
      BY DEF Range
    <3> QED
      BY <1>1, <1>2, <3>1, <3>2
  <2>2. IsBed(s) => s.id \in beds
    BY DEF EventsFollow
  <2> QED
    BY <2>1, <2>2
<1>4. ASSUME NEW e \in mine
      PROVE  IsHeard(s) /\ \E p \in s.spans : events[e] = SoundOf(s, p)
  <2>1. events[e] \in Range(events) /\ events[e].source = s.id
    BY DEF Range
  <2>2. PICK i \in DOMAIN sources : /\ IsHeard(sources[i])
                                    /\ \E p \in sources[i].spans : events[e] = SoundOf(sources[i], p)
    BY <2>1 DEF EventsFollow
  <2>3. sources[i].id = s.id
    BY <2>1, <2>2 DEF SoundOf
  <2> QED
    BY <1>1, <1>2, <2>2, <2>3
<1>5. ~IsHeard(s) => mine = {}
  BY <1>4
<1>6. ASSUME IsHeard(s)
      PROVE  {events[e].span : e \in mine} = s.spans /\ Cardinality(mine) = Cardinality(s.spans)
  <2> DEFINE T == s.spans
             spanOf == [e \in mine |-> events[e].span]
  <2>1. \A p : SoundOf(s, p).span = p /\ SoundOf(s, p).source = s.id
    BY DEF SoundOf
  <2>2. ASSUME NEW e \in mine PROVE spanOf[e] \in T /\ events[e] = SoundOf(s, spanOf[e])
    BY <1>4, <2>1
  <2>3. ASSUME NEW p \in T PROVE \E e \in mine : spanOf[e] = p
    <3>1. SoundOf(s, p) \in Range(events)
      BY <1>1, <1>6 DEF EventsFollow
    <3>2. PICK e \in DOMAIN events : events[e] = SoundOf(s, p)
      BY <3>1 DEF Range
    <3>3. e \in mine
      BY <2>1, <3>2
    <3> QED
      BY <2>1, <3>2, <3>3
  <2>4. \A e, f \in mine : spanOf[e] = spanOf[f] => e = f
    <3>1. \A e, f \in DOMAIN events : events[e] = events[f] => e = f
      BY DEF EventsFollow, Distinct
    <3>2. mine \subseteq DOMAIN events
      OBVIOUS
    <3> HIDE DEF spanOf
    <3> QED
      BY <2>2, <3>1, <3>2
  <2>5. {events[e].span : e \in mine} = {spanOf[e] : e \in mine}
    OBVIOUS
  <2>6. spanOf \in Bijection(mine, T)
    <3>1. spanOf \in [mine -> T]
      BY <2>2
    <3> HIDE DEF spanOf, T
    <3> QED
      BY <2>3, <2>4, <3>1 DEF Bijection, Injection, Surjection, IsInjective
  <2>7. IsFiniteSet(mine)
    <3>1. spanOf \in Injection(mine, T) /\ IsFiniteSet(T)
      BY <2>6 DEF Bijection
    <3> HIDE DEF spanOf, T
    <3> QED
      BY <3>1, FS_Injection
  <2>8. Cardinality(mine) = Cardinality(T)
    <3>1. ExistsBijection(mine, T)
      BY <2>6 DEF ExistsBijection
    <3> HIDE DEF T
    <3> QED
      BY <2>7, <3>1, FS_Bijection
  <2>9. {spanOf[e] : e \in mine} = T
    <3> HIDE DEF spanOf, T
    <3> QED
      BY <2>2, <2>3
  <2> QED
    BY <2>5, <2>8, <2>9
<1> QED
  BY <1>3, <1>5, <1>6 DEF IsHeard

\* Whatever is heard, every source sounds as often as it is told to and is
\* generated once (build_source_and_event_semantics, group_generation_groups).
THEOREM SoundsAlwaysFollow == IdentitySpec => []SoundsFollowTheirSources
<1>1. SoundInv => SoundsFollowTheirSources
  <2> DEFINE pairs == {p \in Pairs(events) : events[p[1]].source = events[p[2]].source
                         \/ /\ LabelOf(events[p[1]]) = LabelOf(events[p[2]])
                            /\ events[p[1]].span[1] <= events[p[2]].span[2] + PairGap
                            /\ events[p[2]].span[1] <= events[p[1]].span[2] + PairGap}
             EventsHere(s) == {e \in DOMAIN events : events[e].source = s.id}
  <2> SUFFICES ASSUME SoundInv, identityStage \in {"route", "routed"}
               PROVE  /\ UNION groups = DOMAIN events
                      /\ \A g, h \in groups : g = h \/ g \cap h = {}
                      /\ \A g \in groups : Linked(g, pairs)
                      /\ \A s \in Range(sources) :
                            /\ s.id \in beds => EventsHere(s) = {}
                            /\ s.id \notin beds /\ s.audibility = "audible_active" =>
                                  /\ {events[e].span : e \in EventsHere(s)} = s.spans
                                  /\ Cardinality(EventsHere(s)) = Cardinality(s.spans)
                            /\ s.audibility # "audible_active" => EventsHere(s) = {}
    BY DEF SoundsFollowTheirSources
  <2>1. /\ tracks \in Seq(ExtractedTracks) /\ SourcesDivide /\ EventsFollow
        /\ Divided(groups, DOMAIN events) /\ \A g \in groups : Bound(g, Candidates)
    BY DEF SoundInv, SourceInv, GroupsFollow
  <2>2. Candidates \subseteq pairs
    <3> SUFFICES ASSUME NEW p \in Pairs(events), CandidatePair(p[1], p[2]) PROVE p \in pairs
      BY DEF Candidates
    <3>1. events \in Seq(SoundEvents) /\ p[1] \in DOMAIN events /\ p[2] \in DOMAIN events
      BY <2>1 DEF EventsFollow, Pairs
    <3>2. events[p[1]] \in SoundEvents /\ events[p[2]] \in SoundEvents
      BY <3>1
    <3>3. \A e \in SoundEvents : e.span[1] \in Nat /\ e.span[2] \in Nat
      BY DEF SoundEvents
    <3>4. /\ events[p[1]].span[1] \in Nat /\ events[p[1]].span[2] \in Nat
          /\ events[p[2]].span[1] \in Nat /\ events[p[2]].span[2] \in Nat
      BY <3>2, <3>3
    <3> QED
      BY <3>4 DEF CandidatePair, PairGap
  <2> HIDE DEF pairs
  <2>3. \A g \in groups : Linked(g, pairs)
    BY <2>1, <2>2, MoreBound, BoundIsLinked
  <2>4. ASSUME NEW s \in Range(sources)
        PROVE  /\ s.id \in beds => EventsHere(s) = {}
               /\ s.id \notin beds /\ s.audibility = "audible_active" =>
                     /\ {events[e].span : e \in EventsHere(s)} = s.spans
                     /\ Cardinality(EventsHere(s)) = Cardinality(s.spans)
               /\ s.audibility # "audible_active" => EventsHere(s) = {}
    <3>1. PICK k \in DOMAIN sources : s = sources[k]
      BY DEF Range
    <3>2. IsFiniteSet(s.spans)
      BY <2>1, <3>1, SpansAreFinite
    <3> QED
      BY <2>1, <3>2, SoundsOfASource
  <2> QED
    BY <2>1, <2>3, <2>4 DEF Divided
<1> QED
  BY <1>1, SoundInvHolds, PTL
==============================================================================
