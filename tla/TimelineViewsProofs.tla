------------------------- MODULE TimelineViewsProofs -------------------------
(***************************************************************************)
(* Proofs about TimelineViews: for any video, events and limits, an agent  *)
(* that follows the answers to the end has been shown every scene, and     *)
(* every visual event but those that hide in a frame of too many; and it   *)
(* is there after at most two answers for every frame of the video.        *)
(***************************************************************************)
EXTENDS TimelineViews, FoldLemmas, TLAPS, FiniteSetTheorems, SequenceTheorems

-----------------------------------------------------------------------------
(***************************************************************************)
(* The inductive invariant.  An event not yet shown hides in a crowded     *)
(* frame, matches a window that is still to be read, or ends behind the    *)
(* frontier, where the next page starts.                                   *)
(***************************************************************************)
Frontier == IF next = None THEN FrameCount ELSE scenes[next + 1].start

Hidden(e) == \E f \in crowded : e \in Crossing(f)

ListedUpTo(n) == listed = [i \in 1..n |-> i - 1]

Progress ==
    /\ next = None => ListedUpTo(Len(scenes))
    /\ next # None => /\ next \in 0..Len(scenes)
                      /\ next = Len(scenes) => scenes = <<>>
                      /\ ListedUpTo(next)

WindowsAreRanges == \A w \in windows : w.start \in Nat /\ w.end \in Nat /\ w.start < w.end

NothingLost ==
    scenes # <<>> =>
        \A e \in visual : \/ e \in seen
                          \/ Hidden(e)
                          \/ \E w \in windows : e \in Matching(w)
                          \/ e.end > Frontier

CrowdsAreCrowds == \A f \in crowded : Cardinality(Crossing(f)) > EventLimit

IInv ==
    /\ scenes \in SceneLists
    /\ visual \in EventSets
    /\ Progress
    /\ WindowsAreRanges
    /\ NothingLost
    /\ CrowdsAreCrowds

-----------------------------------------------------------------------------
(***************************************************************************)
(* The data.                                                               *)
(***************************************************************************)
LEMMA ScenesAre ==
    ASSUME NEW list \in SceneLists
    PROVE  /\ list = <<>> <=> Len(list) = 0
           /\ Len(list) \in Nat /\ DOMAIN list = 1..Len(list)
           /\ \A i \in 1..Len(list) : list[i].start \in Nat /\ list[i].end \in Nat
  BY ScenesAssumption

\* A page's window is not empty.
LEMMA ScenesAreOrdered ==
    ASSUME NEW list \in SceneLists, NEW i \in 1..Len(list), NEW j \in 1..Len(list), i <= j
    PROVE  list[i].start < list[j].end
<1> DEFINE behind == {k \in i..Len(list) : ~(list[i].start < list[k].end)}
<1>1. Len(list) \in Nat /\ i \in Nat /\ j \in Nat
      /\ \A k \in 1..Len(list) : list[k].start \in Nat /\ list[k].end \in Nat /\ list[k].start < list[k].end
  BY ScenesAre, ScenesAssumption
<1>2. behind \subseteq Nat
  BY <1>1
<1>3. SUFFICES ASSUME behind # {} PROVE FALSE
  BY <1>1
<1>4. PICK k \in behind : \A m \in behind : k <= m
  <2> HIDE DEF behind
  <2> QED
    BY <1>2, <1>3, LeastNatural
<1>5. k # i /\ k - 1 \in i..Len(list) /\ k - 1 \in 1..(Len(list) - 1)
  BY <1>1, <1>4
<1>6. k - 1 \notin behind
  <2> HIDE DEF behind
  <2> QED
    BY <1>2, <1>4, <1>5
<1>7. list[k - 1].end = list[k].start
  <2>1. list[k - 1].end = list[(k - 1) + 1].start
    BY <1>5, ScenesAssumption
  <2> QED
    BY <1>1, <1>4, <2>1
<1>8. list[i].start < list[k - 1].end
  BY <1>5, <1>6
<1> QED
  BY <1>1, <1>4, <1>5, <1>7, <1>8

LEMMA EventsAre ==
    ASSUME IInv
    PROVE  /\ IsFiniteSet(visual)
           /\ \A e \in visual : /\ e.start \in Nat /\ e.end \in Nat /\ e.rest \in Nat
                                /\ e.start < e.end /\ e.end <= FrameCount
  BY EventsAssumption, FrameCountAssumption DEF IInv

LEMMA MatchesAreFinite ==
    ASSUME IInv, NEW w
    PROVE  IsFiniteSet(Matching(w)) /\ Cardinality(Matching(w)) \in Nat
  BY EventsAre, FS_Subset, FS_CardinalityType DEF Matching

\* An answer that is not truncated shows everything that matches.
LEMMA WholeAnswerShowsAll ==
    ASSUME IInv, NEW w, NEW limit \in Nat, ~Truncated(w, limit)
    PROVE  Matching(w) \subseteq Shown(w, limit)
<1> DEFINE size == Cardinality(Matching(w))
<1>1. IsFiniteSet(Matching(w)) /\ size \in Nat
  BY MatchesAreFinite
<1>2. size <= limit
  <2>1. Min({limit, size}) <= limit
    <3>1. \E x \in {limit, size} : \A y \in {limit, size} : x <= y
      BY <1>1
    <3> QED
      BY <3>1 DEF Min
  <2>2. Min({limit, size}) \in {limit, size} /\ ~(Min({limit, size}) < size)
    <3>1. \E x \in {limit, size} : \A y \in {limit, size} : x <= y
      BY <1>1
    <3> QED
      BY <3>1 DEF Min, Truncated
  <2> HIDE DEF size
  <2> QED
    BY <1>1, <2>1, <2>2
<1>3. ASSUME NEW e \in Matching(w) PROVE e \in Shown(w, limit)
  <2> DEFINE before == {f \in Matching(w) : Before(f, e)}
  <2>1. ~Before(e, e)
    BY EventsAre, <1>3 DEF Before, Matching
  <2>2. before \in SUBSET (Matching(w)) /\ before # Matching(w)
    BY <1>3, <2>1
  <2>3. Cardinality(before) \in Nat /\ Cardinality(before) < size
    <3>1. Cardinality(before) <= size /\ IsFiniteSet(before) /\ Cardinality(before) # size
      BY <1>1, <2>2, FS_Subset
    <3>2. Cardinality(before) \in Nat
      BY <3>1, FS_CardinalityType
    <3> HIDE DEF before, size
    <3> QED
      BY <1>1, <3>1, <3>2
  <2>4. Cardinality(before) < limit
    <3> HIDE DEF before, size
    <3> QED
      BY <1>1, <1>2, <2>3
  <2> QED
    BY <1>3, <2>4 DEF Shown
<1> QED
  BY <1>3

\* A truncated answer leaves out some of what matches.
LEMMA TruncatedIsMore ==
    ASSUME IInv, NEW w, NEW limit \in Nat, Truncated(w, limit)
    PROVE  Cardinality(Matching(w)) > limit
<1> DEFINE size == Cardinality(Matching(w))
<1>1. size \in Nat
  BY MatchesAreFinite
<1>2. Min({limit, size}) \in {limit, size} /\ Min({limit, size}) < size
  <2>1. \E x \in {limit, size} : \A y \in {limit, size} : x <= y
    BY <1>1
  <2> QED
    BY <2>1 DEF Min, Truncated
<1> HIDE DEF size
<1> QED
  BY <1>1, <1>2 DEF size

\* What matches a window matches one of its halves.
LEMMA HalvesCover ==
    ASSUME IInv, NEW w, w.start \in Nat, w.end \in Nat, w.start + 1 < w.end,
           NEW e \in Matching(w)
    PROVE  \E h \in Halves(w) : e \in Matching(h)
<1> DEFINE middle == (w.start + w.end) \div 2
           first == [start |-> w.start, end |-> middle]
           second == [start |-> middle, end |-> w.end]
<1>1. middle \in Nat
  OBVIOUS
<1>2. e \in visual /\ e.start \in Nat /\ e.end \in Nat /\ e.start < e.end
      /\ ~(e.end <= w.start) /\ ~(e.start >= w.end)
  BY EventsAre DEF Matching
<1>3. first \in Halves(w) /\ second \in Halves(w)
  BY DEF Halves
<1>4. first.start = w.start /\ first.end = middle /\ second.start = middle /\ second.end = w.end
  OBVIOUS
<1> HIDE DEF middle, first, second
<1>5. CASE e.start < middle
  <2>1. e \in Matching(first)
    BY <1>1, <1>2, <1>4, <1>5 DEF Matching
  <2> QED
    BY <1>3, <2>1
<1>6. CASE ~(e.start < middle)
  <2>1. e \in Matching(second)
    BY <1>1, <1>2, <1>4, <1>6 DEF Matching
  <2> QED
    BY <1>3, <2>1
<1> QED
  BY <1>5, <1>6

LEMMA HalvesAreRanges ==
    ASSUME NEW w, w.start \in Nat, w.end \in Nat, w.start + 1 < w.end, NEW h \in Halves(w)
    PROVE  h.start \in Nat /\ h.end \in Nat /\ h.start < h.end
<1> DEFINE middle == (w.start + w.end) \div 2
<1>1. middle \in Nat /\ w.start < middle /\ middle < w.end
  OBVIOUS
<1>2. \/ h.start = w.start /\ h.end = middle
      \/ h.start = middle /\ h.end = w.end
  BY DEF Halves
<1> HIDE DEF middle
<1> QED
  BY <1>1, <1>2

-----------------------------------------------------------------------------
(***************************************************************************)
(* The steps.                                                              *)
(***************************************************************************)
LEMMA InitIInv == Init => IInv
<1> SUFFICES ASSUME Init PROVE IInv
  OBVIOUS
<1>1. /\ scenes \in SceneLists /\ visual \in EventSets /\ next = 0 /\ next # None
      /\ listed = <<>> /\ windows = {} /\ crowded = {}
  BY NoneAssumption DEF Init
<1>2. Progress
  BY <1>1, ScenesAre DEF Progress, ListedUpTo
<1>3. NothingLost
  <2> SUFFICES ASSUME scenes # <<>>, NEW e \in visual PROVE e.end > Frontier
    BY DEF NothingLost
  <2>1. Frontier = 0
    BY <1>1, ScenesAssumption DEF Frontier
  <2>2. e.end > 0
    BY <1>1, EventsAssumption
  <2> QED
    BY <2>1, <2>2
<1> QED
  BY <1>1, <1>2, <1>3 DEF IInv, WindowsAreRanges, CrowdsAreCrowds

\* What a page holds, and where the next one starts.
LEMMA PageIs ==
    ASSUME IInv, next # None, scenes # <<>>, NEW limit \in Nat \ {0}
    PROVE  \E n \in 1..Len(scenes) :
              /\ next + 1 \in 1..n
              /\ Len(Page(next, limit)) = n - next
              /\ \A i \in 1..(n - next) : Page(next, limit)[i] = scenes[next + i]
              /\ Page(next, limit) = [i \in 1..(n - next) |-> scenes[next + i]]
              /\ NextSceneIndex(next, limit) = IF n >= Len(scenes) THEN None ELSE n
<1> DEFINE length == Len(scenes)
           n == Min({next + limit, length})
<1>1. length \in Nat /\ length # 0 /\ next \in Nat /\ next < length
  BY ScenesAre DEF IInv, Progress
<1>2. n \in {next + limit, length} /\ n <= next + limit /\ n <= length
  <2>1. \E x \in {next + limit, length} : \A y \in {next + limit, length} : x <= y
    <3> HIDE DEF length
    <3> QED
      BY <1>1
  <2> QED
    BY <2>1 DEF Min
<1>3. n \in 1..length /\ next + 1 \in 1..n /\ n - next \in Nat
  <2> HIDE DEF length, n
  <2> QED
    BY <1>1, <1>2
<1>4. Page(next, limit) = [i \in 1..(n - next) |-> scenes[next + i]]
  <2>1. Page(next, limit) = SubSeq(scenes, next + 1, n)
    BY DEF Page
  <2> HIDE DEF length, n
  <2>2. SubSeq(scenes, next + 1, n) = [i \in 1..(1 + n - (next + 1)) |-> scenes[(next + 1) + i - 1]]
    <3>1. scenes \in Seq(Range(scenes))
      BY ScenesAssumption DEF IInv
    <3> QED
      BY <1>1, <1>3, <3>1
  <2>3. 1 + n - (next + 1) = n - next
    BY <1>1, <1>3
  <2>4. \A i \in 1..(n - next) : (next + 1) + i - 1 = next + i
    BY <1>1, <1>3
  <2> QED
    BY <2>1, <2>2, <2>3, <2>4
<1>5. Len(Page(next, limit)) = n - next
  <2> HIDE DEF n
  <2> QED
    BY <1>3, <1>4
<1>6. next + Len(Page(next, limit)) = n
  <2> HIDE DEF n
  <2> QED
    BY <1>1, <1>3, <1>5
<1>7. NextSceneIndex(next, limit) = IF n >= length THEN None ELSE n
  BY <1>6 DEF NextSceneIndex
<1> HIDE DEF n
<1> QED
  BY <1>3, <1>4, <1>5, <1>7

\* The window of a page begins at the frontier and ends at the next one.
LEMMA PageWindow ==
    ASSUME IInv, scenes # <<>>, NEW limit \in 1..PageLimit, ListScenes(limit)
    PROVE  \E w : /\ windows' = {w} /\ w.start \in Nat /\ w.end \in Nat
                 /\ w.start = Frontier /\ w.end = Frontier'
                 /\ w.start < w.end /\ w.end <= FrameCount
<1> DEFINE page == Page(next, limit)
<1>1. /\ next # None /\ scenes' = scenes
      /\ windows' = IF page = <<>> THEN {}
                    ELSE {[start |-> page[1].start, end |-> page[Len(page)].end]}
      /\ limit \in Nat \ {0}
  BY LimitsAssumption DEF ListScenes, asset
<1>2. Len(scenes) \in Nat /\ DOMAIN scenes = 1..Len(scenes) /\ scenes \in SceneLists
      /\ \A i \in 1..Len(scenes) : scenes[i].start \in Nat /\ scenes[i].end \in Nat
  BY ScenesAre DEF IInv
<1>3. PICK n \in 1..Len(scenes) :
            /\ next + 1 \in 1..n
            /\ Len(page) = n - next
            /\ \A i \in 1..(n - next) : page[i] = scenes[next + i]
            /\ page = [i \in 1..(n - next) |-> scenes[next + i]]
            /\ NextSceneIndex(next, limit) = IF n >= Len(scenes) THEN None ELSE n
  BY <1>1, PageIs
<1>4. next' = (IF n >= Len(scenes) THEN None ELSE n)
  <2>1. next' = NextSceneIndex(next, limit)
    BY DEF ListScenes
  <2> QED
    BY <1>3, <2>1
<1> HIDE DEF page
<1>5. next \in Nat /\ n \in Nat /\ next < n /\ n - next \in Nat \ {0}
  <2>1. next \in Nat
    BY <1>1, <1>2 DEF IInv, Progress
  <2>2. n \in Nat /\ next + 1 <= n
    BY <1>2, <1>3
  <2>3. next < n /\ n - next \in Nat \ {0}
    BY <2>1, <2>2
  <2> QED
    BY <2>1, <2>2, <2>3
<1> DEFINE w == [start |-> scenes[next + 1].start, end |-> scenes[n].end]
<1>6. windows' = {w}
  <2>1. page # <<>> /\ page[1] = scenes[next + 1] /\ page[Len(page)] = scenes[n]
    <3>1. 1 \in 1..(n - next) /\ n - next \in 1..(n - next) /\ next + (n - next) = n
      BY <1>5
    <3>2. page[1] = scenes[next + 1] /\ page[n - next] = scenes[n]
      BY <1>3, <3>1
    <3>3. page # <<>>
      BY <1>3, <1>5
    <3> QED
      BY <1>3, <3>2, <3>3
  <2> QED
    BY <1>1, <2>1
<1>7. w.start \in Nat /\ w.end \in Nat /\ w.start = Frontier /\ w.start = scenes[next + 1].start
      /\ w.end = scenes[n].end
  BY <1>1, <1>2, <1>3, <1>5 DEF Frontier
<1>8. w.start < w.end
  BY <1>2, <1>3, <1>7, ScenesAreOrdered
<1>9. w.end = Frontier' /\ w.end <= FrameCount
  <2>1. CASE n >= Len(scenes)
    <3>1. n = Len(scenes) /\ scenes[n].end = FrameCount
      <4>1. n = Len(scenes)
        BY <1>2, <1>3, <1>5, <2>1
      <4> QED
        BY <1>2, <4>1, ScenesAssumption
    <3> QED
      BY <1>4, <1>7, <2>1, <3>1, FrameCountAssumption DEF Frontier
  <2>2. CASE ~(n >= Len(scenes))
    <3>1. n \in 1..(Len(scenes) - 1) /\ next' = n /\ next' # None
          /\ n + 1 \in 1..Len(scenes) /\ Len(scenes) \in 1..Len(scenes) /\ n + 1 <= Len(scenes)
      BY <1>2, <1>5, <1>4, <2>2, NoneAssumption
    <3>2. scenes[n].end = scenes[n + 1].start
      BY <1>2, <3>1, ScenesAssumption
    <3>3. scenes[n + 1].start < scenes[Len(scenes)].end
      BY <1>2, <3>1, ScenesAreOrdered
    <3>4. scenes[Len(scenes)].end = FrameCount
      BY <1>2, ScenesAssumption
    <3> HIDE DEF w
    <3> QED
      BY <1>1, <1>2, <1>7, <3>1, <3>2, <3>3, <3>4, FrameCountAssumption DEF Frontier
  <2> QED
    BY <2>1, <2>2
<1> QED
  BY <1>6, <1>7, <1>8, <1>9

LEMMA ListScenesPreserves == ASSUME IInv, NEW limit \in 1..PageLimit, ListScenes(limit) PROVE IInv'
<1> DEFINE page == Page(next, limit)
           extra == [i \in DOMAIN page |-> next + i - 1]
<1>1. /\ next # None /\ windows = {} /\ listed' = listed \o extra
      /\ windows' = IF page = <<>> THEN {}
                    ELSE {[start |-> page[1].start, end |-> page[Len(page)].end]}
      /\ next' = NextSceneIndex(next, limit)
      /\ scenes' = scenes /\ visual' = visual /\ seen' = seen /\ crowded' = crowded
  BY DEF ListScenes, asset
<1>2. limit \in Nat \ {0}
  BY LimitsAssumption
<1>3. Len(scenes) \in Nat /\ DOMAIN scenes = 1..Len(scenes) /\ scenes \in SceneLists
      /\ \A i \in 1..Len(scenes) : scenes[i].start \in Nat /\ scenes[i].end \in Nat
  BY ScenesAre DEF IInv
<1>4. CASE scenes = <<>>
  <2>1. Len(scenes) = 0 /\ next = 0 /\ listed = <<>>
    BY <1>1, <1>3, <1>4, ScenesAre DEF IInv, Progress, ListedUpTo
  <2>2. page = <<>>
    <3>1. \A x \in {next + limit, Len(scenes)} : Len(scenes) <= x
      BY <1>2, <2>1
    <3>2. Min({next + limit, Len(scenes)}) = Len(scenes)
      BY <1>2, <1>3, <2>1, <3>1 DEF Min
    <3> QED
      BY <1>4, <2>1, <3>2 DEF Page
  <2>3. listed' = <<>> /\ windows' = {} /\ next' = None
    BY <1>1, <2>1, <2>2 DEF NextSceneIndex
  <2>4. Progress'
    BY <1>1, <2>1, <2>3 DEF Progress, ListedUpTo
  <2> QED
    BY <1>1, <1>4, <2>3, <2>4 DEF IInv, WindowsAreRanges, NothingLost, CrowdsAreCrowds, Crossing
<1>5. CASE scenes # <<>>
  <2>1. PICK n \in 1..Len(scenes) :
              /\ next + 1 \in 1..n
              /\ Len(page) = n - next
              /\ \A i \in 1..(n - next) : page[i] = scenes[next + i]
              /\ page = [i \in 1..(n - next) |-> scenes[next + i]]
              /\ NextSceneIndex(next, limit) = IF n >= Len(scenes) THEN None ELSE n
    BY <1>1, <1>2, <1>5, PageIs
  <2> HIDE DEF page, extra
  <2>2. /\ next \in Nat /\ n \in Nat /\ next < n /\ n - next \in Nat \ {0}
        /\ ListedUpTo(next)
    BY <1>1, <1>3, <2>1 DEF IInv, Progress
  <2>3. listed' = [i \in 1..n |-> i - 1]
    <3>1. extra = [i \in 1..(n - next) |-> next + i - 1]
      BY <2>1, <2>2 DEF extra
    <3> DEFINE front == [i \in 1..next |-> i - 1]
    <3>2. front \in Seq(Int) /\ extra \in Seq(Int) /\ Len(front) = next /\ Len(extra) = n - next
          /\ listed' = front \o extra
      BY <1>1, <2>2, <3>1 DEF ListedUpTo
    <3>3. \A i \in 1..next : front[i] = i - 1
      OBVIOUS
    <3> HIDE DEF front
    <3>4. listed' \in Seq(Int) /\ Len(listed') = n
      <4>1. front \o extra \in Seq(Int) /\ Len(front \o extra) = Len(front) + Len(extra)
        <5>1. \A a, b \in Seq(Int) : a \o b \in Seq(Int) /\ Len(a \o b) = Len(a) + Len(b)
          BY ConcatProperties
        <5> QED
          BY <3>2, <5>1
      <4>2. next + (n - next) = n
        BY <2>2
      <4> QED
        BY <3>2, <4>1, <4>2
    <3>5. ASSUME NEW i \in 1..n PROVE listed'[i] = i - 1
      <4>1. CASE i <= next
        BY <2>2, <3>2, <3>3, <4>1
      <4>2. CASE i > next
        <5>1. listed'[i] = extra[i - next] /\ i - next \in 1..(n - next)
          BY <2>2, <3>2, <4>2
        <5> QED
          BY <2>2, <3>1, <5>1
      <4> QED
        BY <2>2, <4>1, <4>2
    <3> QED
      BY <3>4, <3>5
  <2>4. next' = (IF n >= Len(scenes) THEN None ELSE n)
    BY <1>1, <2>1
  <2>5. Progress'
    <3>1. Len(scenes') = Len(scenes)
      BY <1>1
    <3>2. CASE n >= Len(scenes)
      <4>1. n = Len(scenes) /\ next' = None
        <5>1. n = Len(scenes)
          BY <1>3, <2>1, <2>2, <3>2
        <5> QED
          BY <2>4, <3>2, <5>1
      <4> QED
        BY <2>3, <3>1, <4>1 DEF Progress, ListedUpTo
    <3>3. CASE ~(n >= Len(scenes))
      <4>1. n # Len(scenes) /\ n \in 0..Len(scenes) /\ next' = n /\ n # None
        <5>1. n # Len(scenes) /\ n \in 0..Len(scenes)
          <6> DEFINE length == Len(scenes)
          <6>1. n \in 1..length /\ length \in Nat /\ ~(n >= length)
            BY <1>3, <2>1, <3>3
          <6> HIDE DEF length
          <6>2. n # length /\ n \in 0..length
            BY <6>1
          <6> QED
            BY <6>2 DEF length
        <5>2. next' = n
          BY <2>4, <3>3
        <5> QED
          BY <2>2, <5>1, <5>2, NoneAssumption
      <4> QED
        BY <2>3, <3>1, <4>1 DEF Progress, ListedUpTo
    <3> QED
      BY <3>2, <3>3
  <2>6. PICK w : /\ windows' = {w} /\ w.start \in Nat /\ w.end \in Nat
                 /\ w.start = Frontier /\ w.end = Frontier' /\ w.start < w.end
    BY <1>5, PageWindow
  <2>7. WindowsAreRanges'
    BY <2>6 DEF WindowsAreRanges
  <2>8. NothingLost'
    <3> SUFFICES ASSUME NEW e \in visual, e \notin seen, ~Hidden(e), ~(e.end > w.end)
                 PROVE  e \in Matching(w)
      BY <1>1, <2>6 DEF NothingLost, Matching, Hidden, Crossing
    <3>1. e.end > Frontier
      BY <1>1, <1>5 DEF IInv, NothingLost
    <3>2. e.start \in Nat /\ e.end \in Nat /\ e.start < e.end
      BY EventsAre
    <3> QED
      BY <2>6, <3>1, <3>2 DEF Matching
  <2>9. CrowdsAreCrowds'
    BY <1>1 DEF IInv, CrowdsAreCrowds, Crossing
  <2> QED
    BY <1>1, <1>3, <2>5, <2>7, <2>8, <2>9 DEF IInv
<1> QED
  BY <1>4, <1>5

LEMMA ReadWindowPreserves ==
    ASSUME IInv, NEW w \in windows, NEW limit \in 1..EventLimit, ReadWindow(w, limit)
    PROVE  IInv'
<1>1. /\ scenes' = scenes /\ visual' = visual /\ next' = next /\ listed' = listed
      /\ seen' = seen \cup Shown(w, limit)
      /\ w.start \in Nat /\ w.end \in Nat /\ w.start < w.end
  BY DEF ReadWindow, asset, IInv, WindowsAreRanges
<1>2. limit \in Nat
  BY LimitsAssumption
<1>3. Progress' /\ Frontier' = Frontier
  BY <1>1 DEF IInv, Progress, ListedUpTo, Frontier
<1>4. \A v : Matching(v)' = Matching(v)
  BY <1>1 DEF Matching
\* It is enough that what matches w is shown, hidden or left to another window.
<1>5. ASSUME windows \ {w} \subseteq windows', crowded \subseteq crowded',
             \A e \in Matching(w) :
                e \in seen' \/ Hidden(e)' \/ \E v \in windows' : e \in Matching(v)
      PROVE  NothingLost'
  <2> SUFFICES ASSUME scenes # <<>>, NEW e \in visual
               PROVE  \/ e \in seen' \/ Hidden(e)' \/ e.end > Frontier
                      \/ \E v \in windows' : e \in Matching(v)
    BY <1>1, <1>3, <1>4 DEF NothingLost
  <2>1. Hidden(e) => Hidden(e)'
    BY <1>1, <1>5 DEF Hidden, Crossing
  <2>2. \/ e \in seen \/ Hidden(e) \/ e.end > Frontier
        \/ \E v \in windows : e \in Matching(v)
    BY DEF IInv, NothingLost
  <2> QED
    BY <1>1, <1>5, <2>1, <2>2
<1>6. CASE ~Truncated(w, limit)
  <2>1. windows' = windows \ {w} /\ crowded' = crowded
    BY <1>6 DEF ReadWindow
  <2>2. Matching(w) \subseteq seen'
    BY <1>1, <1>2, <1>6, WholeAnswerShowsAll
  <2>3. NothingLost'
    BY <1>5, <2>1, <2>2
  <2> QED
    BY <1>1, <1>3, <2>1, <2>3 DEF IInv, WindowsAreRanges, CrowdsAreCrowds, Crossing
<1>7. CASE Truncated(w, limit) /\ w.start + 1 < w.end
  <2>1. windows' = (windows \ {w}) \cup Halves(w) /\ crowded' = crowded
    BY <1>7 DEF ReadWindow
  <2>2. WindowsAreRanges'
    BY <1>1, <1>7, <2>1, HalvesAreRanges DEF IInv, WindowsAreRanges
  <2>3. \A e \in Matching(w) : \E v \in windows' : e \in Matching(v)
    BY <1>1, <1>7, <2>1, HalvesCover
  <2>4. NothingLost'
    BY <1>5, <2>1, <2>3
  <2> QED
    BY <1>1, <1>3, <2>1, <2>2, <2>4 DEF IInv, CrowdsAreCrowds, Crossing
<1>8. CASE Truncated(w, limit) /\ ~(w.start + 1 < w.end)
  <2>1. windows' = windows \ {w} /\ crowded' = crowded \cup {w.start} /\ limit = EventLimit
    BY <1>8 DEF ReadWindow
  <2>2. w.end = w.start + 1
    BY <1>1, <1>8
  <2>3. Matching(w) = Crossing(w.start)
    BY <1>1, <2>2, EventsAre DEF Matching, Crossing
  <2>4. Cardinality(Matching(w)) > limit
    BY <1>2, <1>8, TruncatedIsMore
  <2>5. CrowdsAreCrowds'
    BY <1>1, <2>1, <2>3, <2>4 DEF IInv, CrowdsAreCrowds, Crossing
  <2>6. \A e \in Matching(w) : Hidden(e)'
    BY <1>1, <2>1, <2>3 DEF Hidden, Crossing
  <2>7. NothingLost'
    BY <1>5, <2>1, <2>6
  <2> QED
    BY <1>1, <1>3, <2>1, <2>5, <2>7 DEF IInv, WindowsAreRanges
<1> QED
  BY <1>6, <1>7, <1>8

LEMMA IInvStep == IInv /\ [Next]_vars => IInv'
<1> SUFFICES ASSUME IInv, [Next]_vars PROVE IInv'
  OBVIOUS
<1>1. CASE \E limit \in 1..PageLimit : ListScenes(limit)
  BY <1>1, ListScenesPreserves
<1>2. CASE \E w \in windows, limit \in 1..EventLimit : ReadWindow(w, limit)
  BY <1>2, ReadWindowPreserves
<1>3. CASE \/ \E i \in DOMAIN scenes : GetSceneSummary(i)
           \/ \E f \in 0..(FrameCount - 1) : GetAnnotatedFrame(f)
           \/ UNCHANGED vars
  <2>1. UNCHANGED <<scenes, visual, next, listed, windows, seen, crowded>>
    BY <1>3 DEF GetSceneSummary, GetAnnotatedFrame, vars, asset, reading
  <2> QED
    BY <2>1 DEF IInv, Progress, ListedUpTo, WindowsAreRanges, NothingLost, Hidden, Frontier,
                CrowdsAreCrowds, Crossing, Matching
<1> QED
  BY <1>1, <1>2, <1>3 DEF Next

\* An agent that has followed next_scene_index to the end and read every window has
\* been shown each scene once, in order, and every visual event, whatever limits it
\* chose, but those crossing a frame that more events cross than one answer holds
\* (list_scenes, get_visual_events).
THEOREM EveryEventAlwaysSeen == Spec => []EveryEventSeen
<1>1. IInv => EveryEventSeen
  <2> SUFFICES ASSUME IInv, next = None, windows = {} PROVE EveryEventSeen
    BY DEF EveryEventSeen
  <2>1. listed = [i \in DOMAIN scenes |-> i - 1]
    BY ScenesAre DEF IInv, Progress, ListedUpTo
  <2>2. ASSUME scenes # <<>>, NEW e \in visual \ seen PROVE Hidden(e)
    <3>1. ~(e.end > Frontier)
      BY EventsAre, FrameCountAssumption DEF Frontier
    <3> QED
      BY <2>2, <3>1 DEF IInv, NothingLost
  <2> QED
    BY <2>1, <2>2 DEF IInv, CrowdsAreCrowds, EveryEventSeen, Hidden
<1> QED
  BY InitIInv, IInvStep, <1>1, PTL DEF Spec

-----------------------------------------------------------------------------
(***************************************************************************)
(* How long the reading takes.  The frames still to be read never come     *)
(* back, and neither do those among them at which no window starts: every  *)
(* answer takes a frame from one of the two sets, and there are no more    *)
(* than FrameCount in each.                                                *)
(***************************************************************************)
FramesOf(w) == {f \in 0..(FrameCount - 1) : w.start <= f /\ f < w.end}

Unread ==
    {f \in 0..(FrameCount - 1) : \/ \E w \in windows : f \in FramesOf(w)
                                 \/ next # None /\ Frontier <= f}

Uncut == {f \in Unread : \A w \in windows : w.start # f}

\* Windows do not share frames, and lie before the frontier.
WindowsApart ==
    /\ \A w \in windows : w.end <= Frontier /\ w.end <= FrameCount
    /\ \A v, w \in windows : v = w \/ v.end <= w.start \/ w.end <= v.start

Budget ==
    /\ answers \in Nat
    /\ scenes = <<>> => windows = {} /\ answers <= 1 /\ (next # None => answers = 0)
    /\ scenes # <<>> => WindowsApart
                        /\ answers + Cardinality(Unread) + Cardinality(Uncut) <= 2 * FrameCount

LEMMA LessIsLeft ==
    ASSUME NEW S, NEW T, IsFiniteSet(S), IsFiniteSet(T), NEW s \in SUBSET S, NEW t \in SUBSET T,
           s # S \/ t # T
    PROVE  /\ {Cardinality(S), Cardinality(T), Cardinality(s), Cardinality(t)} \subseteq Nat
           /\ Cardinality(s) + Cardinality(t) < Cardinality(S) + Cardinality(T)
<1>1. IsFiniteSet(s) /\ Cardinality(s) <= Cardinality(S) /\ (Cardinality(S) = Cardinality(s) => S = s)
  BY FS_Subset
<1>2. IsFiniteSet(t) /\ Cardinality(t) <= Cardinality(T) /\ (Cardinality(T) = Cardinality(t) => T = t)
  BY FS_Subset
<1>3. Cardinality(S) \in Nat /\ Cardinality(T) \in Nat /\ Cardinality(s) \in Nat /\ Cardinality(t) \in Nat
  BY <1>1, <1>2, FS_CardinalityType
<1> QED
  BY <1>1, <1>2, <1>3

LEMMA UnreadIsFinite == IsFiniteSet(0..(FrameCount - 1)) /\ IsFiniteSet(Unread) /\ IsFiniteSet(Uncut)
<1>1. IsFiniteSet(0..(FrameCount - 1))
  BY FS_Interval, FrameCountAssumption
<1>2. IsFiniteSet(Unread)
  BY <1>1, FS_Subset DEF Unread
<1>3. Uncut \subseteq Unread
  BY DEF Uncut
<1> QED
  BY <1>1, <1>2, <1>3, FS_Subset

\* An answer that takes a frame from one of the sets, and adds none, is paid for.
LEMMA AnswerIsPaid ==
    ASSUME Budget, scenes # <<>>, scenes' = scenes, answers' = answers + 1, WindowsApart',
           Unread' \subseteq Unread, Uncut' \subseteq Uncut,
           Unread' # Unread \/ Uncut' # Uncut
    PROVE  Budget'
<1> DEFINE left == Cardinality(Unread) + Cardinality(Uncut)
           after == Cardinality(Unread') + Cardinality(Uncut')
<1>1. {Cardinality(Unread), Cardinality(Uncut), Cardinality(Unread'), Cardinality(Uncut')} \subseteq Nat
      /\ after < left
  BY UnreadIsFinite, LessIsLeft
<1>2. answers \in Nat /\ answers + Cardinality(Unread) + Cardinality(Uncut) <= 2 * FrameCount
  BY DEF Budget
<1>3. answers' + Cardinality(Unread') + Cardinality(Uncut') <= 2 * FrameCount
  BY <1>1, <1>2, FrameCountAssumption
<1> QED
  BY <1>2, <1>3 DEF Budget

LEMMA InitBudget == Init => Budget
<1> SUFFICES ASSUME Init PROVE Budget
  OBVIOUS
<1>1. windows = {} /\ answers = 0 /\ next # None /\ IInv
  BY InitIInv, NoneAssumption DEF Init
<1>2. Cardinality(Unread) \in Nat /\ Cardinality(Unread) <= FrameCount
      /\ Cardinality(Uncut) \in Nat /\ Cardinality(Uncut) <= FrameCount
  <2>1. IsFiniteSet(0..(FrameCount - 1)) /\ Cardinality(0..(FrameCount - 1)) = FrameCount
    BY FS_Interval, FrameCountAssumption
  <2>2. Unread \subseteq 0..(FrameCount - 1) /\ Uncut \subseteq 0..(FrameCount - 1)
    BY DEF Unread, Uncut
  <2>3. Cardinality(Unread) <= FrameCount
    BY <2>1, <2>2, FS_Subset
  <2>4. Cardinality(Uncut) <= FrameCount
    BY <2>1, <2>2, FS_Subset
  <2> QED
    BY <2>3, <2>4, UnreadIsFinite, FS_CardinalityType
<1>3. answers + Cardinality(Unread) + Cardinality(Uncut) <= 2 * FrameCount
  BY <1>1, <1>2, FrameCountAssumption
<1> QED
  BY <1>1, <1>3 DEF Budget, WindowsApart

\* A page cuts its window at the frontier.
LEMMA ListScenesIsPaid ==
    ASSUME IInv, Budget, NEW limit \in 1..PageLimit, ListScenes(limit)
    PROVE  Budget'
<1>1. /\ next # None /\ windows = {} /\ scenes' = scenes /\ answers' = answers + 1
      /\ answers \in Nat
  BY DEF ListScenes, asset, Budget
<1>2. CASE scenes = <<>>
  <2>1. Len(scenes) = 0 /\ next = 0 /\ limit \in Nat \ {0}
    BY <1>1, <1>2, ScenesAre, LimitsAssumption DEF IInv, Progress
  <2>2. Page(next, limit) = <<>>
    <3>1. \A x \in {next + limit, Len(scenes)} : Len(scenes) <= x
      BY <2>1
    <3>2. Min({next + limit, Len(scenes)}) = Len(scenes)
      BY <2>1, <3>1 DEF Min
    <3> QED
      BY <1>2, <2>1, <3>2 DEF Page
  <2>3. windows' = {} /\ next' = None
    BY <2>1, <2>2 DEF ListScenes, NextSceneIndex
  <2>4. answers = 0
    BY <1>1, <1>2 DEF Budget
  <2> QED
    BY <1>1, <1>2, <2>3, <2>4 DEF Budget
<1>3. CASE scenes # <<>>
  <2>1. PICK w : /\ windows' = {w} /\ w.start \in Nat /\ w.end \in Nat
                 /\ w.start = Frontier /\ w.end = Frontier'
                 /\ w.start < w.end /\ w.end <= FrameCount
    BY <1>3, PageWindow
  <2>2. WindowsApart'
    BY <2>1 DEF WindowsApart
  <2>3. Unread' \subseteq Unread
    BY <1>1, <2>1 DEF Unread, FramesOf
  <2>4. Uncut' \subseteq Uncut
    BY <1>1, <2>3 DEF Uncut
  <2>5. w.start \in Uncut /\ w.start \notin Uncut'
    BY <1>1, <2>1, FrameCountAssumption DEF Unread, Uncut
  <2> QED
    BY <1>1, <1>3, <2>2, <2>3, <2>4, <2>5, AnswerIsPaid
<1> QED
  BY <1>2, <1>3

\* A window that is done with takes its first frame along.
LEMMA DoneIsPaid ==
    ASSUME IInv, Budget, scenes # <<>>, NEW w \in windows, windows' = windows \ {w},
           scenes' = scenes, next' = next, answers' = answers + 1
    PROVE  Budget'
<1>1. /\ \A v \in windows : v.start \in Nat /\ v.end \in Nat /\ v.start < v.end
      /\ WindowsApart /\ Frontier' = Frontier
  BY DEF IInv, WindowsAreRanges, Budget, Frontier
<1>2. WindowsApart'
  BY <1>1 DEF WindowsApart
<1>3. Unread' \subseteq Unread
  BY <1>1 DEF Unread, FramesOf
<1>4. w.start \in Unread /\ w.start \notin Unread'
  <2>1. w.start \in FramesOf(w)
    BY <1>1, FrameCountAssumption DEF FramesOf, WindowsApart
  <2>2. w.start \in Unread
    BY <2>1 DEF Unread, FramesOf
  <2>3. ASSUME NEW v \in windows', w.start \in FramesOf(v) PROVE FALSE
    BY <1>1, <2>3 DEF FramesOf, WindowsApart
  <2>4. next # None => ~(Frontier <= w.start)
    <3>1. ASSUME next # None PROVE Frontier \in Nat
      BY <3>1, ScenesAre DEF IInv, Progress, Frontier
    <3> QED
      BY <1>1, <3>1 DEF WindowsApart
  <2> QED
    BY <1>1, <2>2, <2>3, <2>4 DEF Unread
<1>5. Uncut' \subseteq Uncut
  <2> SUFFICES ASSUME NEW f \in Uncut' PROVE f # w.start /\ f \in Unread'
    BY <1>3 DEF Uncut
  <2> QED
    BY <1>4 DEF Uncut
<1> QED
  BY <1>2, <1>3, <1>4, <1>5, AnswerIsPaid

\* A window that is cut in two is cut at a frame at which none started.
LEMMA CutIsPaid ==
    ASSUME IInv, Budget, scenes # <<>>, NEW w \in windows, w.start + 1 < w.end,
           windows' = (windows \ {w}) \cup Halves(w),
           scenes' = scenes, next' = next, answers' = answers + 1
    PROVE  Budget'
<1> DEFINE middle == (w.start + w.end) \div 2
           first == [start |-> w.start, end |-> middle]
           second == [start |-> middle, end |-> w.end]
<1>1. /\ \A v \in windows : v.start \in Nat /\ v.end \in Nat /\ v.start < v.end
      /\ WindowsApart /\ Frontier' = Frontier
  BY DEF IInv, WindowsAreRanges, Budget, Frontier
<1>2. middle \in Nat /\ w.start < middle /\ middle < w.end
  BY <1>1
<1>3. Halves(w) = {first, second} /\ first.start = w.start /\ first.end = middle
      /\ second.start = middle /\ second.end = w.end
  BY DEF Halves
<1> HIDE DEF middle, first, second
<1>4. ASSUME NEW h \in Halves(w) PROVE w.start <= h.start /\ h.start < h.end /\ h.end <= w.end
                                       /\ h.start \in Nat /\ h.end \in Nat
  BY <1>1, <1>2, <1>3
<1>5. WindowsApart'
  <2>1. ASSUME NEW v \in windows' PROVE v.end <= Frontier' /\ v.end <= FrameCount
    <3>1. CASE v \in windows
      BY <1>1, <3>1 DEF WindowsApart
    <3>2. CASE v = first
      <4>1. w.end <= Frontier /\ w.end <= FrameCount /\ v.end = middle /\ Frontier \in Nat
        BY <1>1, <1>3, <3>2, ScenesAre, FrameCountAssumption DEF WindowsApart, IInv, Progress, Frontier
      <4> QED
        BY <1>1, <1>2, <4>1, FrameCountAssumption
    <3>3. CASE v = second
      BY <1>1, <1>3, <3>3 DEF WindowsApart
    <3> QED
      BY <1>3, <3>1, <3>2, <3>3
  <2>2. ASSUME NEW u \in windows', NEW v \in windows'
        PROVE  u = v \/ u.end <= v.start \/ v.end <= u.start
    <3>1. CASE u \in windows /\ v \in windows
      BY <1>1, <3>1 DEF WindowsApart
    <3>2. CASE u \in Halves(w) /\ v \in Halves(w)
      BY <1>2, <1>3, <3>2
    <3>3. CASE u \in windows \ {w} /\ v \in Halves(w)
      <4>1. u.end <= w.start \/ w.end <= u.start
        BY <1>1, <3>3 DEF WindowsApart
      <4> QED
        BY <1>1, <1>4, <3>3, <4>1
    <3>4. CASE u \in Halves(w) /\ v \in windows \ {w}
      <4>1. v.end <= w.start \/ w.end <= v.start
        BY <1>1, <3>4 DEF WindowsApart
      <4> QED
        BY <1>1, <1>4, <3>4, <4>1
    <3> QED
      BY <3>1, <3>2, <3>3, <3>4
  <2> QED
    BY <2>1, <2>2 DEF WindowsApart
<1>6. Unread' \subseteq Unread
  <2>1. ASSUME NEW f \in 0..(FrameCount - 1), NEW h \in Halves(w), f \in FramesOf(h)
        PROVE  f \in FramesOf(w)
    BY <1>1, <1>4, <2>1 DEF FramesOf
  <2> QED
    BY <1>1, <2>1 DEF Unread, FramesOf
<1>7. Uncut' \subseteq Uncut
  <2> SUFFICES ASSUME NEW f \in Uncut', NEW v \in windows PROVE v.start # f
    BY <1>6 DEF Uncut
  <2>1. \E u \in windows' : u.start = v.start
    BY <1>3
  <2> QED
    BY <2>1 DEF Uncut
<1>8. middle \in Uncut /\ middle \notin Uncut'
  <2>1. middle \in Unread
    BY <1>1, <1>2, FrameCountAssumption DEF Unread, FramesOf, WindowsApart
  <2>2. ASSUME NEW v \in windows, v.start = middle PROVE FALSE
    BY <1>1, <1>2, <2>2 DEF WindowsApart
  <2>3. \E v \in windows' : v.start = middle
    BY <1>3
  <2> QED
    BY <2>1, <2>2, <2>3 DEF Uncut
<1> QED
  BY <1>5, <1>6, <1>7, <1>8, AnswerIsPaid

\* An agent that follows the answers is given at most two for every frame of the video,
\* whatever its limits, the scenes and the events (next_scene_index, truncated).
THEOREM ReadingAlwaysBounded == Spec => []ReadingBounded
<1> DEFINE RInv == IInv /\ Budget
<1>1. Init => RInv
  BY InitIInv, InitBudget
<1>2. RInv /\ [Next]_vars => RInv'
  <2> SUFFICES ASSUME IInv, Budget, [Next]_vars PROVE Budget'
    BY IInvStep
  <2>1. CASE \E limit \in 1..PageLimit : ListScenes(limit)
    BY <2>1, ListScenesIsPaid
  <2>2. ASSUME NEW w \in windows, NEW limit \in 1..EventLimit, ReadWindow(w, limit) PROVE Budget'
    <3>1. scenes # <<>> /\ scenes' = scenes /\ next' = next /\ answers' = answers + 1
      BY <2>2 DEF Budget, ReadWindow, asset
    <3>2. CASE windows' = windows \ {w}
      BY <3>1, <3>2, DoneIsPaid
    <3>3. CASE w.start + 1 < w.end /\ windows' = (windows \ {w}) \cup Halves(w)
      BY <3>1, <3>3, CutIsPaid
    <3> QED
      BY <2>2, <3>2, <3>3 DEF ReadWindow
  <2>3. CASE \/ \E i \in DOMAIN scenes : GetSceneSummary(i)
             \/ \E f \in 0..(FrameCount - 1) : GetAnnotatedFrame(f)
             \/ UNCHANGED vars
    <3>1. UNCHANGED <<scenes, next, windows, answers>>
      BY <2>3 DEF GetSceneSummary, GetAnnotatedFrame, vars, asset, reading
    <3> QED
      BY <3>1 DEF Budget, WindowsApart, Unread, Uncut, FramesOf, Frontier
  <2> QED
    BY <2>1, <2>2, <2>3 DEF Next
<1>3. RInv => ReadingBounded
  <2> SUFFICES ASSUME Budget PROVE answers <= 2 * FrameCount
    BY DEF ReadingBounded
  <2>1. Cardinality(Unread) \in Nat /\ Cardinality(Uncut) \in Nat
    BY UnreadIsFinite, FS_CardinalityType
  <2> QED
    BY <2>1, FrameCountAssumption DEF Budget
<1> HIDE DEF RInv
<1> QED
  BY <1>1, <1>2, <1>3, PTL DEF Spec
=============================================================================
