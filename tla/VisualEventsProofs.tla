-------------------------- MODULE VisualEventsProofs --------------------------
(***************************************************************************)
(* Proofs about the stages behind the visual events.  For any samples of   *)
(* two tracks, the runs the search for a contact collects are the maximal  *)
(* contacts and the one reported is the best of them; for any track, its   *)
(* events tell what its points show; and, however often tracking, building *)
(* and computing are repeated, for any scenes and whatever tracking finds, *)
(* an event knows its objects and is about a track that is still there.    *)
(***************************************************************************)
EXTENDS ContactIntervals, ObjectEvents, VisualLayer, FoldLemmas, TLAPS, FiniteSetTheorems,
        SequenceTheorems

-----------------------------------------------------------------------------
(***************************************************************************)
(* The first and the last frame of a set of frames.                        *)
(***************************************************************************)
LEMMA FirstFrameIs ==
    ASSUME NEW T, T \subseteq Nat, T # {}
    PROVE  FirstFrame(T) \in T /\ \A f \in T : FirstFrame(T) <= f
  BY LeastNatural DEF FirstFrame

LEMMA LastFrameIs ==
    ASSUME NEW a \in Nat, NEW b \in Nat, NEW T, T \subseteq a..b, T # {}
    PROVE  LastFrame(T) \in T /\ \A f \in T : f <= LastFrame(T)
<1> DEFINE fromTheEnd == {b - f : f \in T}
<1>1. fromTheEnd \subseteq Nat /\ fromTheEnd # {}
  <2>1. PICK f \in T : TRUE
    OBVIOUS
  <2>2. b - f \in fromTheEnd
    OBVIOUS
  <2>3. \A g \in T : g \in a..b
    OBVIOUS
  <2>4. ASSUME NEW m \in fromTheEnd PROVE m \in Nat
    <3>1. PICK g \in T : m = b - g
      OBVIOUS
    <3> QED  BY <2>3, <3>1
  <2> QED  BY <2>2, <2>4
<1>2. PICK n \in fromTheEnd : \A m \in fromTheEnd : n <= m
  BY <1>1, LeastNatural
<1>3. PICK last \in T : n = b - last
  BY <1>2
<1>4. \A f \in T : f <= last
  <2> TAKE f \in T
  <2>1. b - last <= b - f
    BY <1>2, <1>3
  <2> QED  BY <2>1
<1> QED
  BY <1>4 DEF LastFrame

-----------------------------------------------------------------------------
(***************************************************************************)
(* The search for contacts.                                                *)
(***************************************************************************)
\* Two maximal runs with a frame in common are one and the same.
LEMMA MaximalRunsDisjoint ==
    ASSUME NEW C, C \subseteq Nat,
           NEW a \in C, NEW b \in C, IsMaximalRun(C, a, b),
           NEW c \in C, NEW d \in C, IsMaximalRun(C, c, d),
           NEW x \in Nat, x \in a..b, x \in c..d
    PROVE  a = c /\ b = d
<1>1. ~(a < c)
  <2> SUFFICES ASSUME a < c PROVE FALSE
    OBVIOUS
  <2>1. c - 1 \in a..b
    OBVIOUS
  <2> QED
    BY <2>1 DEF IsMaximalRun
<1>2. ~(c < a)
  <2> SUFFICES ASSUME c < a PROVE FALSE
    OBVIOUS
  <2>1. a - 1 \in c..d
    OBVIOUS
  <2> QED
    BY <2>1 DEF IsMaximalRun
<1>3. ~(b < d)
  <2> SUFFICES ASSUME b < d PROVE FALSE
    OBVIOUS
  <2>1. b + 1 \in c..d
    OBVIOUS
  <2> QED
    BY <2>1 DEF IsMaximalRun
<1>4. ~(d < b)
  <2> SUFFICES ASSUME d < b PROVE FALSE
    OBVIOUS
  <2>1. d + 1 \in a..b
    OBVIOUS
  <2> QED
    BY <2>1 DEF IsMaximalRun
<1> QED
  BY <1>1, <1>2, <1>3, <1>4

(***************************************************************************)
(* The inductive invariant.  The current run is the contact that reaches   *)
(* the last contact frame visited; it is maximal on the left.  The runs    *)
(* put away are maximal, and lie below the frames still to come.           *)
(***************************************************************************)
InputsOK ==
    /\ left \subseteq Frames /\ right \subseteq Frames
    /\ overlap \in [left \cap right -> Overlaps]

IsOpenRun(a) ==
    /\ a <= previous
    /\ run = a..previous
    /\ a..previous \subseteq Contacts
    /\ a - 1 \notin Contacts

RunOpen ==
    \/ run = {} /\ previous = NoFrame
    \/ /\ previous \in Nat /\ previous < at
       /\ \E a \in Nat : IsOpenRun(a)
       /\ \A f \in Contacts : f < at => f <= previous

Maximal(r) == \E a, b \in Contacts : r = a..b /\ IsMaximalRun(Contacts, a, b)

RunsBelow == \A r \in runs : \A f \in r : f < at

RunsComplete == \A f \in Contacts : f < at => f \in run \/ \E r \in runs : f \in r

IInv ==
    /\ InputsOK
    /\ at \in Nat
    /\ pc \in {"scan", "choose", "done"}
    /\ pc = "scan" =>
        /\ RunOpen
        /\ \A r \in runs : Maximal(r)
        /\ RunsBelow
        /\ RunsComplete
    /\ pc # "scan" => RunsAreContacts

\* Contacts are frames the two tracks share.
LEMMA ContactsAreFrames == InputsOK => Contacts \subseteq Nat /\ Contacts \subseteq left
  BY FramesAssumption DEF InputsOK, Contacts

\* The inputs are never changed, so neither is the set they define.
LEMMA ContactsFixed == UNCHANGED inputs => Contacts' = Contacts
  BY DEF inputs, Contacts

\* Before the first sample there is nothing to say.
LEMMA InitIInv == Init => IInv
  BY FramesAssumption DEF Init, IInv, InputsOK, RunOpen, RunsBelow, RunsComplete, Contacts, NoFrame

\* A maximal run consists of contacts.
LEMMA MaximalRunsAreContacts == ASSUME NEW r, Maximal(r) PROVE r \subseteq Contacts
<1>1. PICK a \in Contacts, b \in Contacts : r = a..b /\ IsMaximalRun(Contacts, a, b)
  BY DEF Maximal
<1> QED
  BY <1>1 DEF IsMaximalRun

\* Putting the current run away keeps every run maximal, once no contact
\* frame follows it.
LEMMA ClosedIsMaximal ==
    ASSUME InputsOK, RunOpen, \A r \in runs : Maximal(r),
           previous # NoFrame => previous + 1 \notin Contacts
    PROVE  /\ \A r \in Closed : Maximal(r)
           /\ \A f \in run : \E r \in Closed : f \in r
<1>1. CASE run = {}
  BY <1>1 DEF Closed
<1>2. CASE run # {}
  <2>1. PICK a \in Nat : IsOpenRun(a)
    BY <1>2 DEF RunOpen
  <2>2. previous \in Nat /\ previous + 1 \notin Contacts
    BY <1>2 DEF RunOpen, NoFrame
  <2>3. a \in Contacts /\ previous \in Contacts
    BY <2>1, <2>2 DEF IsOpenRun
  <2>4. Maximal(run)
    BY <2>1, <2>2, <2>3 DEF IsOpenRun, Maximal, IsMaximalRun
  <2> QED
    BY <1>2, <2>4 DEF Closed
<1> QED
  BY <1>1, <1>2

\* A left sample that is no contact is passed over.
LEMMA NotSharedPreserves == ASSUME IInv, NEW f \in Frames, NotShared(f) PROVE IInv'
<1>1. f \in Nat /\ f \notin Contacts /\ at' = f + 1 /\ Contacts' = Contacts /\ at <= f
  BY ContactsFixed, FramesAssumption DEF NotShared, NextSample, Contacts
<1>2. \A g \in Contacts : g < at' <=> g < at
  BY <1>1, ContactsAreFrames DEF IInv, NotShared, NextSample
<1>3. at' \in Nat /\ at \in Nat
  BY <1>1 DEF IInv
<1>4. /\ UNCHANGED <<left, right, overlap, run, runs, previous, pc>>
      /\ pc = "scan" /\ RunOpen /\ RunsBelow /\ RunsComplete /\ \A r \in runs : Maximal(r)
  BY DEF NotShared, NextSample, IInv, inputs
<1>5. RunOpen'
  BY <1>1, <1>2, <1>3, <1>4 DEF RunOpen, IsOpenRun
<1>6. RunsBelow'
  <2> SUFFICES ASSUME NEW r \in runs, NEW g \in r PROVE g < at'
    BY <1>4 DEF RunsBelow
  <2>1. g < at /\ g \in Nat
    BY <1>4, ContactsAreFrames, MaximalRunsAreContacts DEF RunsBelow, IInv
  <2> QED
    BY <1>1, <1>3, <2>1
<1>7. RunsComplete' /\ \A r \in runs' : Maximal(r)'
  BY <1>1, <1>2, <1>4 DEF RunsComplete, Maximal
<1> QED
  BY <1>3, <1>4, <1>5, <1>6, <1>7 DEF IInv, InputsOK

\* The frame after the current run is no contact when the next sample is not
\* one, or is not on that frame.
LEMMA NothingFollows ==
    ASSUME IInv, NEW f \in Frames, NextSample(f), previous # NoFrame,
           f \notin Contacts \/ f # previous + 1
    PROVE  previous + 1 \notin Contacts
  BY FramesAssumption, ContactsAreFrames DEF IInv, NextSample, RunOpen, NoFrame

\* A sample without contact ends the run.
LEMMA ApartPreserves == ASSUME IInv, NEW f \in Frames, Apart(f) PROVE IInv'
<1>1. f \in Nat /\ f \notin Contacts /\ at' = f + 1 /\ Contacts' = Contacts /\ at <= f
  <2>1. overlap[f] \in Nat
    <3>1. overlap[f] \in Overlaps
      BY DEF Apart, NextSample, IInv, InputsOK
    <3> QED
      BY <3>1, OverlapsAssumption
  <2>2. ~(overlap[f] >= CONTACT_OVERLAP_RATIO)
    BY <2>1 DEF Apart, CONTACT_OVERLAP_RATIO
  <2>3. f \notin Contacts
    BY <2>2 DEF Contacts
  <2> QED
    BY <2>3, ContactsFixed, FramesAssumption DEF Apart, NextSample
<1>2. \A g \in Contacts : g < at' <=> g < at
  BY <1>1, ContactsAreFrames DEF IInv, Apart, NextSample
<1>3. /\ UNCHANGED <<left, right, overlap, pc>>
      /\ runs' = Closed /\ run' = {} /\ previous' = NoFrame
      /\ pc = "scan" /\ RunOpen /\ RunsBelow /\ RunsComplete /\ \A r \in runs : Maximal(r)
      /\ at \in Nat /\ InputsOK
  BY DEF Apart, NextSample, IInv, inputs
<1>4. /\ \A r \in Closed : Maximal(r)
      /\ \A g \in run : \E r \in Closed : g \in r
  BY <1>1, <1>3, NothingFollows, ClosedIsMaximal DEF Apart
<1>5. RunsBelow'
  <2> SUFFICES ASSUME NEW r \in Closed, NEW g \in r PROVE g < at'
    BY <1>3 DEF RunsBelow
  <2>1. g \in Contacts
    BY <1>4, MaximalRunsAreContacts
  <2>2. CASE r \in runs
    BY <1>1, <1>2, <1>3, <2>1, <2>2 DEF RunsBelow
  <2>3. CASE r \notin runs
    <3>1. r = run /\ run # {}
      BY <2>3 DEF Closed
    <3>2. PICK a \in Nat : IsOpenRun(a)
      BY <1>3, <3>1 DEF RunOpen
    <3>3. g <= previous /\ previous < at /\ previous \in Nat
      BY <1>3, <3>1, <3>2 DEF RunOpen, IsOpenRun
    <3> QED
      BY <1>1, <1>2, <1>3, <2>1, <3>3, ContactsAreFrames
  <2> QED
    BY <2>2, <2>3
<1>6. RunsComplete'
  <2> SUFFICES ASSUME NEW g \in Contacts, g < at' PROVE \E r \in Closed : g \in r
    BY <1>1, <1>3 DEF RunsComplete
  <2>1. g \in run \/ \E r \in runs : g \in r
    BY <1>2, <1>3 DEF RunsComplete
  <2> QED
    BY <1>4, <2>1 DEF Closed
<1>7. \A r \in runs' : Maximal(r)'
  BY <1>1, <1>3, <1>4 DEF Maximal
<1> QED
  BY <1>1, <1>3, <1>5, <1>6, <1>7 DEF IInv, InputsOK, RunOpen

\* A sample in contact prolongs the run, or begins a new one after a gap.
LEMMA TouchPreserves == ASSUME IInv, NEW f \in Frames, Touch(f) PROVE IInv'
<1>1. f \in Nat /\ at' = f + 1 /\ Contacts' = Contacts /\ at <= f /\ at \in Nat
  BY ContactsFixed, FramesAssumption DEF Touch, NextSample, IInv
<1>2. f \in Contacts
  BY DEF Touch, NextSample, Contacts
<1>3. \A g \in Contacts : g < at' <=> g < at \/ g = f
  BY <1>1, ContactsAreFrames DEF IInv, Touch, NextSample
<1>4. /\ UNCHANGED <<left, right, overlap, pc>>
      /\ previous' = f
      /\ pc = "scan" /\ RunOpen /\ RunsBelow /\ RunsComplete /\ \A r \in runs : Maximal(r)
      /\ InputsOK
  BY DEF Touch, NextSample, IInv, inputs
<1>5. CASE previous # NoFrame /\ f # previous + 1
  <2>1. runs' = Closed /\ run' = {f} /\ previous + 1 \notin Contacts
    BY <1>5, NothingFollows DEF Touch
  <2>2. /\ \A r \in Closed : Maximal(r)
        /\ \A g \in run : \E r \in Closed : g \in r
    BY <1>4, <2>1, ClosedIsMaximal
  <2>3. previous \in Nat /\ previous < at /\ \A g \in Contacts : g < at => g <= previous
    BY <1>4, <1>5 DEF RunOpen
  <2>4. f - 1 \notin Contacts
    BY <1>1, <1>3, <1>5, <2>3, ContactsAreFrames
  <2>5. IsOpenRun(f)'
    BY <1>1, <1>2, <1>4, <2>1, <2>4 DEF IsOpenRun
  <2>6. RunOpen'
    <3>1. previous' \in Nat /\ previous' < at' /\ \E a \in Nat : IsOpenRun(a)'
      BY <1>1, <1>4, <2>5
    <3>2. \A g \in Contacts' : g < at' => g <= previous'
      BY <1>1, <1>3, <1>4, ContactsAreFrames
    <3> QED
      BY <3>1, <3>2 DEF RunOpen
  <2>7. RunsBelow'
    <3> SUFFICES ASSUME NEW r \in Closed, NEW g \in r PROVE g < at'
      BY <2>1 DEF RunsBelow
    <3>1. g \in Contacts
      BY <2>2, MaximalRunsAreContacts
    <3>2. CASE r \in runs
      BY <1>1, <1>3, <1>4, <3>1, <3>2 DEF RunsBelow
    <3>3. CASE r \notin runs
      <4>1. r = run /\ run # {}
        BY <3>3 DEF Closed
      <4>2. PICK a \in Nat : IsOpenRun(a)
        BY <1>4, <4>1 DEF RunOpen
      <4>3. g <= previous
        BY <4>1, <4>2 DEF IsOpenRun
      <4> QED
        BY <1>1, <1>3, <1>4, <2>3, <3>1, <4>3, ContactsAreFrames
    <3> QED
      BY <3>2, <3>3
  <2>8. RunsComplete'
    <3> SUFFICES ASSUME NEW g \in Contacts, g < at' PROVE g = f \/ \E r \in Closed : g \in r
      BY <1>1, <2>1 DEF RunsComplete
    <3>1. g = f \/ g \in run \/ \E r \in runs : g \in r
      BY <1>3, <1>4 DEF RunsComplete
    <3> QED
      BY <2>2, <3>1 DEF Closed
  <2>9. \A r \in runs' : Maximal(r)'
    BY <1>1, <2>1, <2>2 DEF Maximal
  <2> QED
    BY <1>1, <1>4, <2>6, <2>7, <2>8, <2>9 DEF IInv, InputsOK
<1>6. CASE previous = NoFrame \/ f = previous + 1
  <2>1. runs' = runs /\ run' = run \cup {f}
    BY <1>6 DEF Touch
  <2>2. \E a \in Nat : IsOpenRun(a)'
    <3>1. CASE run = {}
      <4>1. f - 1 \notin Contacts
        <5> SUFFICES ASSUME f - 1 \in Contacts PROVE FALSE
          OBVIOUS
        <5>1. f - 1 < at
          BY <1>1, <1>3
        <5>2. PICK r \in runs : f - 1 \in r
          BY <1>4, <3>1, <5>1 DEF RunsComplete
        <5>3. PICK a \in Contacts, b \in Contacts : r = a..b /\ IsMaximalRun(Contacts, a, b)
          BY <1>4 DEF Maximal
        <5>4. a \in Nat /\ b \in Nat
          BY <1>4, <5>3, ContactsAreFrames
        <5>5. b # f - 1
          BY <1>1, <1>2, <5>3, <5>4 DEF IsMaximalRun
        <5>6. f \in r
          BY <1>1, <5>2, <5>3, <5>4, <5>5
        <5> QED
          BY <1>1, <1>4, <5>6 DEF RunsBelow
      <4>2. IsOpenRun(f)'
        BY <1>1, <1>2, <1>4, <2>1, <3>1, <4>1 DEF IsOpenRun
      <4> QED
        BY <1>1, <4>2
    <3>2. CASE run # {}
      <4>1. PICK a \in Nat : IsOpenRun(a)
        BY <1>4, <3>2 DEF RunOpen
      <4>2. f = previous + 1 /\ previous \in Nat
        BY <1>4, <1>6, <3>2 DEF RunOpen, NoFrame
      <4>3. a..f = (a..previous) \cup {f} /\ a <= f
        BY <4>1, <4>2 DEF IsOpenRun
      <4>4. IsOpenRun(a)'
        BY <1>1, <1>2, <1>4, <2>1, <4>1, <4>3 DEF IsOpenRun
      <4> QED
        BY <4>4
    <3> QED
      BY <3>1, <3>2
  <2>3. \A g \in Contacts : g < at' => g <= f
    BY <1>1, <1>3, <1>4, ContactsAreFrames
  <2>4. RunOpen'
    BY <1>1, <1>4, <2>2, <2>3 DEF RunOpen
  <2>5. RunsBelow'
    <3> SUFFICES ASSUME NEW r \in runs, NEW g \in r PROVE g < at'
      BY <2>1 DEF RunsBelow
    <3>1. g < at /\ g \in Nat
      BY <1>4, ContactsAreFrames, MaximalRunsAreContacts DEF RunsBelow
    <3> QED
      BY <1>1, <3>1
  <2>6. RunsComplete'
    BY <1>1, <1>3, <1>4, <2>1 DEF RunsComplete
  <2>7. \A r \in runs' : Maximal(r)'
    BY <1>1, <1>4, <2>1 DEF Maximal
  <2> QED
    BY <1>1, <1>4, <2>4, <2>5, <2>6, <2>7 DEF IInv, InputsOK
<1> QED
  BY <1>5, <1>6

\* When no left sample is left, the runs put away are all there are.
LEMMA EndScanPreserves == ASSUME IInv, EndScan PROVE IInv'
<1>1. /\ UNCHANGED <<left, right, overlap, at>>
      /\ runs' = Closed /\ pc' = "choose" /\ Contacts' = Contacts
      /\ RunOpen /\ RunsComplete /\ \A r \in runs : Maximal(r)
      /\ at \in Nat /\ InputsOK
  BY ContactsFixed DEF EndScan, IInv, inputs
<1>2. Contacts \subseteq Nat /\ \A f \in Contacts : f < at
  BY <1>1, ContactsAreFrames DEF EndScan, SamplesLeft
<1>3. previous # NoFrame => previous + 1 \notin Contacts
  BY <1>1, <1>2 DEF RunOpen
<1>4. /\ \A r \in Closed : Maximal(r)
      /\ \A f \in run : \E r \in Closed : f \in r
  BY <1>1, <1>3, ClosedIsMaximal
<1>5. ASSUME NEW s \in MaximalRuns(Contacts) PROVE s \in Closed
  <2>1. PICK a \in Contacts, b \in Contacts : s = a..b /\ IsMaximalRun(Contacts, a, b)
    BY DEF MaximalRuns
  <2>2. PICK r \in Closed : a \in r
    BY <1>1, <1>2, <1>4 DEF RunsComplete, Closed
  <2>3. PICK c \in Contacts, d \in Contacts : r = c..d /\ IsMaximalRun(Contacts, c, d)
    BY <1>4 DEF Maximal
  <2>4. a \in a..b /\ a \in Nat
    BY <1>2, <2>1 DEF IsMaximalRun
  <2>5. a = c /\ b = d
    BY <1>2, <2>1, <2>2, <2>3, <2>4, MaximalRunsDisjoint
  <2> QED
    BY <2>1, <2>2, <2>3, <2>5
<1>6. ASSUME NEW r \in Closed PROVE r \in MaximalRuns(Contacts)
  BY <1>4 DEF Maximal, MaximalRuns
<1>7. Closed = MaximalRuns(Contacts)
  BY <1>5, <1>6
<1> QED
  BY <1>1, <1>7 DEF IInv, InputsOK, RunsAreContacts

\* Neither choosing a run nor standing still changes what has been found.
LEMMA NextIInv == IInv /\ [Next]_vars => IInv'
<1> SUFFICES ASSUME IInv, [Next]_vars PROVE IInv'
  OBVIOUS
<1>1. CASE \E f \in Frames : NotShared(f) \/ Apart(f) \/ Touch(f)
  BY <1>1, NotSharedPreserves, ApartPreserves, TouchPreserves
<1>2. CASE EndScan
  BY <1>2, EndScanPreserves
<1>3. CASE Choose
  <2>1. /\ UNCHANGED <<left, right, overlap, at, runs>> /\ Contacts' = Contacts
        /\ pc = "choose" /\ pc' = "done"
    BY <1>3, ContactsFixed DEF Choose, inputs
  <2> QED
    BY <2>1 DEF IInv, InputsOK, RunsAreContacts
<1>4. CASE UNCHANGED vars
  <2>1. UNCHANGED <<left, right, overlap, at, runs, run, previous, pc>> /\ Contacts' = Contacts
    BY <1>4, ContactsFixed DEF vars, inputs
  <2> QED
    BY <2>1 DEF IInv, InputsOK, RunOpen, IsOpenRun, Maximal, RunsBelow, RunsComplete, RunsAreContacts
<1> QED
  BY <1>1, <1>2, <1>3, <1>4 DEF Next

\* Whatever the samples of the two tracks, the runs among which the search
\* chooses are exactly the maximal intervals of contact (_contact_interval).
THEOREM RunsAlwaysAreContacts == Spec => []RunsAreContacts
<1>1. IInv => RunsAreContacts
  BY DEF IInv, RunsAreContacts
<1> QED
  BY InitIInv, NextIInv, <1>1, PTL DEF Spec

-----------------------------------------------------------------------------
(***************************************************************************)
(* The choice of a contact.                                                *)
(***************************************************************************)
\* The sum of the overlaps over a run is a number.
LEMMA TotalIsNatural ==
    ASSUME InputsOK, NEW r \in SUBSET Contacts, IsFiniteSet(r)
    PROVE  Total(r) \in Nat
<1>1. Total(r) = (CHOOSE sum : IsSumOf(sum, overlap, r))[r]
  <2>1. Total(r) = (CHOOSE sum : sum = [s \in SUBSET r |->
                      IF s = {} THEN 0
                      ELSE overlap[CHOOSE f \in s : TRUE] + sum[s \ {CHOOSE f \in s : TRUE}]])[r]
    BY Zenon DEF Total, MapThenSumSet, MapThenFoldSet
  <2> QED
    BY <2>1 DEF IsSumOf, AnyOf
<1>2. \A f \in r : overlap[f] \in Nat
  BY OverlapsAssumption DEF InputsOK, Contacts
<1>3. HasSum(Total(r), overlap, r)
  <2>1. \A f \in r : overlap[f] \in Int
    BY <1>2
  <2>2. HasSum((CHOOSE sum : IsSumOf(sum, overlap, r))[r], overlap, r)
    BY <2>1, ComputedHasSum
  <2> QED
    BY <1>1, <2>2
<1>4. PICK sum : Sums(sum, overlap, r) /\ Total(r) = sum[r]
  BY <1>3 DEF HasSum
<1>5. sum[{}] <= sum[r]
  <2> DEFINE none == {}
  <2>1. none \in SUBSET r /\ r \in SUBSET r /\ none \subseteq r
    OBVIOUS
  <2> HIDE DEF none
  <2>2. sum[none] <= sum[r]
    BY <1>2, <1>4, <2>1, LargerSetSumsMore
  <2> QED
    BY <2>2 DEF none
<1>6. sum[{}] = 0 /\ sum[r] \in Int
  BY <1>4 DEF Sums
<1> QED
  BY <1>4, <1>5, <1>6

LEMMA Factor ==
    ASSUME NEW c \in Nat \ {0}, NEW d \in Int
    PROVE  (c * d >= 0 => d >= 0) /\ (c * d > 0 => d > 0)
  OBVIOUS

\* Fractions are ordered: a third one is no better than a second that is no
\* better than the first, and worse when one of the two is.
LEMMA MeansAreOrdered ==
    ASSUME NEW t \in Nat, NEW u \in Nat, NEW v \in Nat,
           NEW a \in Nat \ {0}, NEW b \in Nat \ {0}, NEW c \in Nat \ {0},
           t * b >= u * a, u * c >= v * b
    PROVE  /\ t * c >= v * a
           /\ t * b > u * a \/ u * c > v * b => t * c > v * a
<1> DEFINE d == t * c - v * a
           x == t * b - u * a
           y == u * c - v * b
<1>1. d \in Int /\ x \in Int /\ y \in Int /\ x >= 0 /\ y >= 0
  OBVIOUS
<1>2. b * d = c * x + a * y
  <2>1. /\ b * d = (t * b) * c - (v * b) * a
        /\ c * x = (t * b) * c - (u * a) * c
        /\ a * y = (u * c) * a - (v * b) * a
        /\ (u * a) * c = (u * c) * a
    OBVIOUS
  <2> QED
    BY <2>1
<1>3. c * x \in Int /\ a * y \in Int /\ c * x >= 0 /\ a * y >= 0
      /\ (x > 0 => c * x > 0) /\ (y > 0 => a * y > 0)
  <2> HIDE DEF x, y
  <2> QED
    BY <1>1
<1>4. b * d >= 0 /\ (x > 0 \/ y > 0 => b * d > 0)
  BY <1>2, <1>3
<1>5. d >= 0 /\ (x > 0 \/ y > 0 => d > 0)
  <2> HIDE DEF d, x, y
  <2> QED
    BY <1>1, <1>4, Factor
<1> QED
  BY <1>5

\* What is known of the runs when the scan is over.
ScanOver ==
    /\ InputsOK
    /\ at \in Nat /\ \A f \in left : f < at
    /\ runs = MaximalRuns(Contacts)

IsRun(r) ==
    /\ FirstFrame(r) \in r /\ LastFrame(r) \in r
    /\ r = FirstFrame(r)..LastFrame(r)
    /\ r \subseteq Nat
    /\ Cardinality(r) \in Nat \ {0}
    /\ Total(r) \in Nat

LEMMA RunsAre ==
    ASSUME ScanOver, NEW r \in runs
    PROVE  IsRun(r) /\ IsMaximalRun(Contacts, FirstFrame(r), LastFrame(r))
           /\ FirstFrame(r) \in Contacts /\ LastFrame(r) \in Contacts
<1>1. PICK a \in Contacts, b \in Contacts : r = a..b /\ IsMaximalRun(Contacts, a, b)
  BY DEF ScanOver, MaximalRuns
<1>2. Contacts \subseteq Nat
  BY ContactsAreFrames DEF ScanOver
<1>3. a \in Nat /\ b \in Nat /\ a <= b /\ r \subseteq Contacts
  BY <1>1, <1>2 DEF IsMaximalRun
<1>4. r \subseteq Nat /\ r # {} /\ a \in r /\ b \in r /\ IsFiniteSet(r)
  <2>1. a \in r /\ b \in r
    BY <1>1, <1>3
  <2>2. a \in Int /\ b \in Int
    BY <1>3
  <2>3. IsFiniteSet(a..b)
    BY <2>2, FS_Interval
  <2> QED
    BY <1>1, <1>2, <1>3, <2>1, <2>3
<1>5. FirstFrame(r) = a
  <2>1. FirstFrame(r) \in r /\ FirstFrame(r) <= a
    BY <1>4, FirstFrameIs
  <2> QED
    BY <1>1, <1>3, <2>1
<1>6. LastFrame(r) = b
  <2>1. LastFrame(r) \in r /\ b <= LastFrame(r)
    BY <1>1, <1>3, <1>4, LastFrameIs
  <2> QED
    BY <1>1, <1>3, <2>1
<1>7. Cardinality(r) \in Nat \ {0}
  BY <1>4, FS_CardinalityType, FS_EmptySet
<1>8. Total(r) \in Nat
  BY <1>3, <1>4, TotalIsNatural DEF ScanOver
<1> QED
  BY <1>1, <1>4, <1>5, <1>6, <1>7, <1>8 DEF IsRun

\* Two runs that start at one frame are one.
LEMMA RunsStartApart ==
    ASSUME ScanOver, NEW r \in runs, NEW s \in runs, FirstFrame(r) = FirstFrame(s)
    PROVE  r = s
<1>1. /\ IsRun(r) /\ IsMaximalRun(Contacts, FirstFrame(r), LastFrame(r))
      /\ FirstFrame(r) \in Contacts /\ LastFrame(r) \in Contacts
      /\ IsRun(s) /\ IsMaximalRun(Contacts, FirstFrame(s), LastFrame(s))
      /\ FirstFrame(s) \in Contacts /\ LastFrame(s) \in Contacts
  BY RunsAre
<1>2. Contacts \subseteq Nat
  BY ContactsAreFrames DEF ScanOver
<1>3. LastFrame(r) = LastFrame(s)
  BY <1>1, <1>2, MaximalRunsDisjoint DEF IsRun
<1> QED
  BY <1>1, <1>3 DEF IsRun

\* There are finitely many runs.
LEMMA RunsAreFinite == ASSUME ScanOver PROVE IsFiniteSet(Qualifying)
<1>1. Contacts \subseteq 0..at
  BY ContactsAreFrames DEF ScanOver
<1>2. IsFiniteSet(SUBSET (0..at))
  <2> DEFINE zero == 0
  <2>1. zero \in Int /\ at \in Int
    BY DEF ScanOver
  <2>2. IsFiniteSet(zero..at)
    <3> HIDE DEF zero
    <3> QED
      BY <2>1, FS_Interval
  <2> QED
    BY <2>2, FS_SUBSET
<1>3. ASSUME NEW r \in runs PROVE r \in SUBSET (0..at)
  BY <1>1 DEF ScanOver, MaximalRuns, IsMaximalRun
<1>4. Qualifying \subseteq SUBSET (0..at)
  BY <1>3 DEF Qualifying
<1> QED
  BY <1>2, <1>4, FS_Subset

\* The mean of s is above that of r, or it is the same and s comes first.
Beats(s, r) == MeanAbove(s, r) \/ (MeanAtLeast(s, r) /\ FirstFrame(s) < FirstFrame(r))

LEMMA BeatsIsAnOrder ==
    ASSUME NEW r, NEW s, NEW u, IsRun(r), IsRun(s), IsRun(u)
    PROVE  ~Beats(r, r) /\ (Beats(u, s) /\ Beats(s, r) => Beats(u, r))
<1> DEFINE x == Total(r)
           y == Total(s)
           z == Total(u)
           a == Cardinality(r)
           b == Cardinality(s)
           c == Cardinality(u)
           i == FirstFrame(r)
           j == FirstFrame(s)
           k == FirstFrame(u)
<1>1. /\ x \in Nat /\ y \in Nat /\ z \in Nat
      /\ a \in Nat \ {0} /\ b \in Nat \ {0} /\ c \in Nat \ {0}
      /\ i \in Nat /\ j \in Nat /\ k \in Nat
  BY DEF IsRun
<1>2. /\ Beats(r, r) <=> x * a > x * a \/ (x * a >= x * a /\ i < i)
      /\ Beats(u, s) <=> z * b > y * c \/ (z * b >= y * c /\ k < j)
      /\ Beats(s, r) <=> y * a > x * b \/ (y * a >= x * b /\ j < i)
      /\ Beats(u, r) <=> z * a > x * c \/ (z * a >= x * c /\ k < i)
  BY DEF Beats, MeanAbove, MeanAtLeast
<1> HIDE DEF x, y, z, a, b, c, i, j, k
<1>3. /\ x * a \in Int /\ z * b \in Int /\ y * c \in Int /\ y * a \in Int
      /\ x * b \in Int /\ z * a \in Int /\ x * c \in Int
  BY <1>1
<1>4. ~Beats(r, r)
  BY <1>1, <1>2, <1>3
<1>5. z * b >= y * c /\ y * a >= x * b => /\ z * a >= x * c
                                          /\ z * b > y * c \/ y * a > x * b => z * a > x * c
  BY <1>1, MeansAreOrdered
<1>6. Beats(u, s) /\ Beats(s, r) => Beats(u, r)
  BY <1>1, <1>2, <1>3, <1>5
<1> QED
  BY <1>4, <1>6

IsBest(r) ==
    /\ r \in Qualifying
    /\ \A s \in Qualifying \ {r} :
         MeanAbove(r, s) \/ (MeanAtLeast(r, s) /\ FirstFrame(r) < FirstFrame(s))

\* Of some runs one is best.
LEMMA BestRunIs == ASSUME ScanOver, Qualifying # {} PROVE IsBest(BestRun(Qualifying))
<1> DEFINE ahead == [r \in Qualifying |-> {s \in Qualifying : Beats(s, r)}]
<1>1. Qualifying \subseteq runs /\ \A r \in Qualifying : IsRun(r)
  BY RunsAre DEF Qualifying
<1>2. ASSUME NEW r \in Qualifying, NEW s \in ahead[r]
      PROVE  s \notin ahead[s] /\ ahead[s] \subseteq ahead[r]
  <2>1. s \in Qualifying /\ Beats(s, r)
    BY <1>2
  <2>2. ~Beats(s, s)
    BY <1>1, <2>1, BeatsIsAnOrder
  <2>3. ASSUME NEW u \in Qualifying, Beats(u, s) PROVE Beats(u, r)
    BY <1>1, <2>1, <2>3, BeatsIsAnOrder
  <2> QED
    BY <2>1, <2>2, <2>3
<1>3. ahead \in [Qualifying -> SUBSET Qualifying]
  OBVIOUS
<1>4. PICK r \in Qualifying : ahead[r] = {}
  <2> HIDE DEF ahead
  <2> QED
    BY <1>2, <1>3, RunsAreFinite, FirstInOrder
<1>5. ASSUME NEW s \in Qualifying \ {r}
      PROVE  MeanAbove(r, s) \/ (MeanAtLeast(r, s) /\ FirstFrame(r) < FirstFrame(s))
  <2>1. ~Beats(s, r) /\ IsRun(r) /\ IsRun(s)
    BY <1>1, <1>4
  <2>2. FirstFrame(r) # FirstFrame(s) /\ FirstFrame(r) \in Nat /\ FirstFrame(s) \in Nat
    BY <1>1, <2>1, RunsStartApart DEF IsRun
  <2> DEFINE x == Total(r) * Cardinality(s)
             y == Total(s) * Cardinality(r)
  <2>3. x \in Int /\ y \in Int
    <3>1. Total(r) \in Nat /\ Total(s) \in Nat /\ Cardinality(r) \in Nat /\ Cardinality(s) \in Nat
      BY <2>1 DEF IsRun
    <3> QED
      BY <3>1
  <2>4. ~(y > x) /\ ~(y >= x /\ FirstFrame(s) < FirstFrame(r))
    BY <2>1 DEF Beats, MeanAbove, MeanAtLeast
  <2> HIDE DEF x, y
  <2>5. x > y \/ (x >= y /\ FirstFrame(r) < FirstFrame(s))
    BY <2>2, <2>3, <2>4
  <2> QED
    BY <2>5 DEF x, y, MeanAbove, MeanAtLeast
<1> QED
  BY <1>5 DEF IsBest, BestRun

\* A run that is not credible although no other has a larger mean leaves none.
LEMMA NoneCredible ==
    ASSUME NEW r, NEW s, IsRun(r), IsRun(s), MeanAtLeast(r, s), Confident(s)
    PROVE  Confident(r)
<1> DEFINE x == Total(r)
           y == Total(s)
           a == Cardinality(r)
           b == Cardinality(s)
<1>1. x \in Nat /\ y \in Nat /\ a \in Nat \ {0} /\ b \in Nat \ {0}
  BY DEF IsRun
<1>2. x * b >= y * a /\ y >= 25 * b
  BY DEF MeanAtLeast, Confident, CONTACT_MIN_CONFIDENCE
<1> HIDE DEF x, y, a, b
<1>3. b * (x - 25 * a) >= 0
  <2> DEFINE e == y - 25 * b
  <2>1. e \in Int /\ e >= 0 /\ y = e + 25 * b
    BY <1>1, <1>2
  <2>2. e * a >= 0 /\ e * a \in Int
    <3> HIDE DEF e
    <3> QED
      BY <1>1, <2>1
  <2>3. y * a = e * a + 25 * (a * b)
    <3> HIDE DEF e
    <3> QED
      BY <1>1, <2>1
  <2>4. b * (x - 25 * a) = x * b - 25 * (a * b) /\ x * b \in Int /\ a * b \in Int /\ y * a \in Int
    BY <1>1
  <2> QED
    BY <1>2, <2>2, <2>3, <2>4
<1>4. x >= 25 * a
  <2>1. x - 25 * a \in Int
    BY <1>1
  <2>2. x - 25 * a >= 0
    BY <1>1, <1>3, <2>1, Factor
  <2> QED
    BY <1>1, <2>1, <2>2
<1> QED
  BY <1>4 DEF x, a, Confident, CONTACT_MIN_CONFIDENCE

Reported(c) ==
    IF Credible = {} THEN c = NoContact
    ELSE \E r \in Credible :
             /\ c.start \in r /\ c.end - 1 \in r
             /\ \A f \in r : c.start <= f /\ f < c.end
             /\ \A s \in Credible : /\ MeanAtLeast(r, s)
                                    /\ MeanAtLeast(s, r) => c.start <= FirstFrame(s)

LEMMA BestIsReported ==
    ASSUME ScanOver
    PROVE  Reported(IF Qualifying # {} /\ Confident(BestRun(Qualifying))
                    THEN IntervalOf(BestRun(Qualifying)) ELSE NoContact)
<1>1. Credible = {r \in Qualifying : Confident(r)} /\ \A r \in Qualifying : IsRun(r)
  BY RunsAre DEF Credible, Qualifying, ScanOver
<1>2. CASE Qualifying = {}
  BY <1>1, <1>2 DEF Reported
<1>3. CASE Qualifying # {}
  <2> DEFINE best == BestRun(Qualifying)
  <2>1. IsBest(best)
    BY <1>3, BestRunIs
  <2> HIDE DEF best
  <2>2. best \in Qualifying /\ IsRun(best)
    BY <1>1, <2>1 DEF IsBest
  <2>3. ASSUME NEW s \in Qualifying
        PROVE  MeanAtLeast(best, s) /\ (MeanAtLeast(s, best) => FirstFrame(best) <= FirstFrame(s))
    <3> DEFINE x == Total(best) * Cardinality(s)
               y == Total(s) * Cardinality(best)
    <3>1. x \in Int /\ y \in Int /\ FirstFrame(best) \in Nat /\ FirstFrame(s) \in Nat
      <4>1. IsRun(s)
        BY <1>1, <2>3
      <4>2. /\ Total(best) \in Nat /\ Total(s) \in Nat
            /\ Cardinality(best) \in Nat /\ Cardinality(s) \in Nat
            /\ FirstFrame(best) \in Nat /\ FirstFrame(s) \in Nat
        BY <2>2, <4>1 DEF IsRun
      <4> QED
        BY <4>2
    <3>2. CASE s = best
      <4>1. x = y
        BY <3>2
      <4> QED
        BY <3>1, <3>2, <4>1 DEF MeanAtLeast
    <3>3. CASE s # best
      <4>1. x > y \/ (x >= y /\ FirstFrame(best) < FirstFrame(s))
        BY <2>1, <3>3 DEF IsBest, MeanAbove, MeanAtLeast
      <4> HIDE DEF x, y
      <4>2. x >= y /\ (y >= x => FirstFrame(best) <= FirstFrame(s))
        BY <3>1, <4>1
      <4> QED
        BY <4>2 DEF x, y, MeanAtLeast
    <3> QED
      BY <3>2, <3>3
  <2>4. CASE Confident(best)
    <3> DEFINE c == IntervalOf(best)
    <3>1. c.start = FirstFrame(best) /\ c.end = LastFrame(best) + 1
      BY DEF IntervalOf
    <3> HIDE DEF c
    <3>2. /\ c.start \in best /\ c.end - 1 \in best
          /\ \A f \in best : c.start <= f /\ f < c.end
      <4> DEFINE i == FirstFrame(best)
                 j == LastFrame(best)
      <4>1. i \in best /\ j \in best /\ best = i..j /\ best \subseteq Nat
        BY <2>2 DEF IsRun
      <4>2. c.start = i /\ c.end = j + 1
        BY <3>1
      <4> HIDE DEF i, j
      <4> QED
        BY <4>1, <4>2
    <3>3. best \in Credible
      BY <1>1, <2>2, <2>4
    <3>4. \A s \in Credible : /\ MeanAtLeast(best, s)
                              /\ MeanAtLeast(s, best) => c.start <= FirstFrame(s)
      BY <1>1, <2>3, <3>1
    <3>5. Reported(c)
      BY <3>2, <3>3, <3>4 DEF Reported
    <3> QED
      BY <1>3, <2>4, <3>5 DEF c, best
  <2>5. CASE ~Confident(best)
    <3>1. Credible = {}
      BY <1>1, <2>2, <2>3, <2>5, NoneCredible
    <3> QED
      BY <2>5, <3>1 DEF Reported, best
  <2> QED
    BY <2>4, <2>5
<1> QED
  BY <1>2, <1>3

\* With the same overlaps the same runs are credible and as good.
LEMMA SameOverlaps ==
    ASSUME left' = left, right' = right, overlap' = overlap
    PROVE  /\ Credible' = Credible
           /\ \A r, s : MeanAtLeast(r, s)' <=> MeanAtLeast(r, s)
  BY DEF Credible, Contacts, MeanAtLeast, Confident, Total, MapThenSumSet, MapThenFoldSet

ChosenInv == IInv /\ (pc # "scan" => ScanOver) /\ BestContactReported

\* The contact reported is the credible one of the largest mean, although a run
\* is picked before its confidence is looked at (_contact_interval).
THEOREM BestContactAlwaysReported == Spec => []BestContactReported
<1>1. Init => ChosenInv
  BY InitIInv DEF ChosenInv, Init, BestContactReported
<1>2. ChosenInv /\ [Next]_vars => ChosenInv'
  <2> SUFFICES ASSUME ChosenInv, [Next]_vars PROVE ChosenInv'
    OBVIOUS
  <2>1. IInv'
    BY NextIInv DEF ChosenInv
  <2>2. CASE \E f \in Frames : NotShared(f) \/ Apart(f) \/ Touch(f)
    <3>1. pc' = "scan"
      BY <2>2 DEF NotShared, Apart, Touch, NextSample
    <3> QED
      BY <2>1, <3>1 DEF ChosenInv, BestContactReported
  <2>3. CASE EndScan
    <3>1. pc' = "choose" /\ left' = left /\ at' = at /\ at \in Nat /\ ~SamplesLeft /\ left \subseteq Frames
      BY <2>3 DEF EndScan, inputs, ChosenInv, IInv, InputsOK
    <3>2. \A f \in left' : f < at'
      BY <3>1, FramesAssumption DEF SamplesLeft
    <3> QED
      BY <2>1, <3>1, <3>2 DEF ChosenInv, IInv, ScanOver, RunsAreContacts, BestContactReported
  <2>4. CASE Choose
    <3>1. /\ left' = left /\ right' = right /\ overlap' = overlap /\ at' = at /\ runs' = runs
          /\ pc = "choose" /\ pc' = "done" /\ ScanOver
      BY <2>4 DEF Choose, inputs, ChosenInv
    <3>2. Reported(contact')
      BY <2>4, <3>1, BestIsReported DEF Choose
    <3>3. BestContactReported'
      BY <3>1, <3>2, SameOverlaps DEF BestContactReported, Reported, NoContact
    <3> QED
      BY <2>1, <3>1, <3>3 DEF ChosenInv, ScanOver, InputsOK, Contacts
  <2>5. CASE UNCHANGED vars
    <3>1. /\ left' = left /\ right' = right /\ overlap' = overlap /\ at' = at /\ runs' = runs
          /\ pc' = pc /\ contact' = contact
      BY <2>5 DEF vars, inputs
    <3>2. BestContactReported'
      BY <3>1, SameOverlaps DEF ChosenInv, BestContactReported
    <3> QED
      BY <2>1, <3>1, <3>2 DEF ChosenInv, ScanOver, InputsOK, Contacts
  <2> QED
    BY <2>2, <2>3, <2>4, <2>5 DEF Next
<1>3. ChosenInv => BestContactReported
  BY DEF ChosenInv
<1> QED
  BY <1>1, <1>2, <1>3, PTL DEF Spec

-----------------------------------------------------------------------------
(***************************************************************************)
(* The samples of a track.                                                 *)
(***************************************************************************)
SampleData == [frame : Nat, mask : Masks]

\* samples are those of the first k points.
SamplesOf(s, k) ==
    /\ s \in Seq(SampleData)
    /\ \A i \in 1..Len(s) : s[i].frame + 1 \in 1..k /\ points[s[i].frame + 1] # NoMask
    /\ \A f \in 1..k : points[f] # NoMask => \E i \in 1..Len(s) : s[i].frame = f - 1
    /\ \A i, j \in 1..Len(s) : i < j => s[i].frame < s[j].frame

LEMMA OneMoreSample ==
    ASSUME NEW n \in Nat, points \in [1..n -> Masks \cup {NoMask}], NEW k \in 1..n,
           NEW s, SamplesOf(s, k - 1)
    PROVE  SamplesOf(IF points[k] = NoMask THEN s
                     ELSE Append(s, [frame |-> k - 1, mask |-> points[k]]), k)
<1>1. /\ s \in Seq(SampleData) /\ Len(s) \in Nat
      /\ \A i \in 1..Len(s) : s[i].frame + 1 \in 1..(k - 1) /\ points[s[i].frame + 1] # NoMask
                              /\ s[i].frame \in Nat
      /\ \A f \in 1..(k - 1) : points[f] # NoMask => \E i \in 1..Len(s) : s[i].frame = f - 1
      /\ \A i, j \in 1..Len(s) : i < j => s[i].frame < s[j].frame
  <2>1. s \in Seq(SampleData) /\ Len(s) \in Nat
    BY DEF SamplesOf
  <2>2. \A i \in 1..Len(s) : s[i] \in SampleData
    BY <2>1
  <2>3. \A i \in 1..Len(s) : s[i].frame \in Nat
    BY <2>2 DEF SampleData
  <2> QED
    BY <2>1, <2>3 DEF SamplesOf
<1>2. CASE points[k] = NoMask
  <2>1. \A f \in 1..k : points[f] # NoMask => f \in 1..(k - 1)
    BY <1>2
  <2>2. \A i \in 1..Len(s) : s[i].frame + 1 \in 1..k
    BY <1>1
  <2> QED
    BY <1>1, <1>2, <2>1, <2>2 DEF SamplesOf
<1>3. CASE points[k] # NoMask
  <2> DEFINE new == [frame |-> k - 1, mask |-> points[k]]
             more == Append(s, new)
  <2>1. new \in SampleData /\ new.frame = k - 1
    BY <1>3 DEF SampleData
  <2> HIDE DEF new
  <2>2. /\ more \in Seq(SampleData) /\ Len(more) = Len(s) + 1
        /\ \A i \in 1..Len(s) : more[i] = s[i]
        /\ more[Len(s) + 1] = new
    BY <1>1, <2>1
  <2> HIDE DEF more
  <2>3. ASSUME NEW i \in 1..Len(more)
        PROVE  more[i].frame + 1 \in 1..k /\ points[more[i].frame + 1] # NoMask
    <3>1. CASE i \in 1..Len(s)
      BY <1>1, <2>2, <3>1
    <3>2. CASE i = Len(s) + 1
      BY <1>3, <2>1, <2>2, <3>2
    <3> QED
      BY <1>1, <2>2, <3>1, <3>2
  <2>4. ASSUME NEW f \in 1..k, points[f] # NoMask
        PROVE  \E i \in 1..Len(more) : more[i].frame = f - 1
    <3>1. CASE f = k
      <4>1. Len(s) + 1 \in 1..Len(more)
        BY <1>1, <2>2
      <4> QED
        BY <2>1, <2>2, <3>1, <4>1
    <3>2. CASE f # k
      <4>1. f \in 1..(k - 1)
        BY <3>2
      <4>2. PICK i \in 1..Len(s) : s[i].frame = f - 1
        BY <1>1, <2>4, <4>1
      <4>3. i \in 1..Len(more)
        BY <1>1, <2>2
      <4> QED
        BY <2>2, <4>2, <4>3
    <3> QED
      BY <3>1, <3>2
  <2>5. ASSUME NEW i \in 1..Len(more), NEW j \in 1..Len(more), i < j
        PROVE  more[i].frame < more[j].frame
    <3>1. i \in 1..Len(s) /\ more[i].frame = s[i].frame /\ s[i].frame + 1 \in 1..(k - 1) /\ s[i].frame \in Nat
      BY <1>1, <2>2, <2>5
    <3>2. CASE j \in 1..Len(s)
      BY <1>1, <2>2, <2>5, <3>1, <3>2
    <3>3. CASE j = Len(s) + 1
      BY <2>1, <2>2, <3>1, <3>3
    <3> QED
      BY <1>1, <2>2, <3>2, <3>3
  <2>6. SamplesOf(more, k)
    BY <2>2, <2>3, <2>4, <2>5 DEF SamplesOf
  <2> QED
    BY <1>3, <2>6 DEF more, new
<1> QED
  BY <1>2, <1>3

LEMMA TrackSamplesAre ==
    ASSUME NEW n \in Nat, points \in [1..n -> Masks \cup {NoMask}]
    PROVE  SamplesOf(TrackSamples, n)
<1> DEFINE S == 1..n
           T == Seq(SampleData)
           order == [f \in DOMAIN points |-> f]
           With(taken, f) == IF points[f] = NoMask THEN taken
                             ELSE Append(taken, [frame |-> f - 1, mask |-> points[f]])
           Solves(it) == it = [s \in SUBSET DOMAIN order |->
                                 IF s = {} THEN <<>> ELSE With(it[s \ {Max(s)}], order[Max(s)])]
           taken == CHOOSE it : Solves(it)
<1>1. TrackSamples = taken[DOMAIN order]
  BY Zenon DEF TrackSamples, FoldLeft, MapThenFoldSet
<1>2. DOMAIN order = S /\ \A f \in S : order[f] = f
  OBVIOUS
<1>3. Solves(taken)
  <2> DEFINE none == <<>>
             add == [p \in S \X T |-> With(p[2], p[1])]
  <2>1. none \in T
    OBVIOUS
  <2>2. add \in [S \X T -> T]
    <3> SUFFICES ASSUME NEW f \in S, NEW s \in T PROVE With(s, f) \in T
      OBVIOUS
    <3>1. points[f] # NoMask => [frame |-> f - 1, mask |-> points[f]] \in SampleData
      BY DEF SampleData
    <3> QED
      BY <3>1
  <2>3. \A f \in S, s \in T : add[<<f, s>>] = With(s, f)
    OBVIOUS
  <2>4. HasFoldOfItems(n, T, none, add)
    <3> HIDE DEF T, none, add
    <3> QED
      BY <2>1, <2>2, FoldOfItemsExists
  <2>5. PICK it : FoldOfItems(it, n, T, none, add)
    BY <2>4 DEF HasFoldOfItems
  <2>6. Solves(it)
    <3> HIDE DEF With, add, order, T
    <3>1. \A s \in SUBSET S : it[s] = IF s = {} THEN <<>>
                                      ELSE With(it[s \ {Max(s)}], order[Max(s)])
      BY <1>2, <2>3, <2>5 DEF FoldOfItems
    <3>2. it = [s \in SUBSET S |-> it[s]]
      BY <2>5 DEF FoldOfItems
    <3> QED
      BY <1>2, <3>1, <3>2
  <2> HIDE DEF Solves
  <2> QED
    BY <2>6
<1>6. taken[1..0] = <<>>
  <2>1. 1..0 = {} /\ 1..0 \in SUBSET DOMAIN order
    BY <1>2
  <2> HIDE DEF taken, order, With
  <2> QED
    BY <1>3, <2>1
<1>7. ASSUME NEW k \in S PROVE taken[1..k] = With(taken[1..(k - 1)], k)
  <2>1. 1..k \in SUBSET DOMAIN order /\ 1..k # {} /\ order[Max(1..k)] = k
        /\ (1..k) \ {Max(1..k)} = 1..(k - 1)
    BY <1>2, LastOfFirst
  <2> HIDE DEF taken, order, With
  <2> QED
    BY <1>3, <2>1
<1> HIDE DEF taken
<1> DEFINE wrong == {k \in 0..n : ~SamplesOf(taken[1..k], k)}
<1>8. wrong = {}
  <2>1. SUFFICES ASSUME wrong # {} PROVE FALSE
    OBVIOUS
  <2>2. PICK k \in wrong : \A m \in wrong : k <= m
    <3>1. wrong \subseteq Nat
      OBVIOUS
    <3> HIDE DEF wrong
    <3> QED
      BY <2>1, <3>1, LeastNatural
  <2>3. k # 0
    <3>1. SamplesOf(<<>>, 0)
      BY DEF SamplesOf
    <3> QED
      BY <1>6, <2>2, <3>1
  <2>4. k \in 1..n /\ k - 1 \in 0..n /\ ~(k <= k - 1)
    BY <2>2, <2>3
  <2>5. SamplesOf(taken[1..(k - 1)], k - 1)
    BY <2>2, <2>4
  <2>6. SamplesOf(With(taken[1..(k - 1)], k), k)
    BY <2>4, <2>5, OneMoreSample
  <2> QED
    BY <1>7, <2>2, <2>4, <2>6
<1>9. SamplesOf(taken[1..n], n)
  BY <1>8
<1> QED
  BY <1>1, <1>2, <1>9

-----------------------------------------------------------------------------
(***************************************************************************)
(* Means and distances.                                                    *)
(***************************************************************************)
Axes == {"x", "y"}

OnAxis(s, axis) == [i \in 1..Len(s) |-> s[i].mask[axis]]

LEMMA SumOnIsSum ==
    ASSUME NEW s \in Seq(SampleData), NEW axis \in Axes
    PROVE  /\ \A i \in 1..Len(s) : OnAxis(s, axis)[i] = s[i].mask[axis] /\ OnAxis(s, axis)[i] \in Nat
           /\ HasSum(SumOn(s, axis), OnAxis(s, axis), 1..Len(s))
<1> DEFINE S == 1..Len(s)
           f == OnAxis(s, axis)
           Solves(sum) == sum = [t \in SUBSET DOMAIN s |->
                                   IF t = {} THEN 0
                                   ELSE s[CHOOSE i \in t : TRUE].mask[axis] + sum[t \ {CHOOSE i \in t : TRUE}]]
<1>1. Len(s) \in Nat /\ DOMAIN s = S
  OBVIOUS
<1>2. \A i \in S : f[i] = s[i].mask[axis] /\ f[i] \in Nat
  <2>1. \A i \in S : s[i] \in SampleData
    OBVIOUS
  <2> QED
    BY <2>1, MasksAssumption DEF SampleData, OnAxis, Axes
<1>3. SumOn(s, axis) = (CHOOSE sum : Solves(sum))[DOMAIN s]
  BY Zenon DEF SumOn, MapThenSumSet, MapThenFoldSet
<1>4. IsFiniteSet(S)
  <2> DEFINE one == 1
  <2>1. one \in Int /\ Len(s) \in Int
    BY <1>1
  <2> HIDE DEF one
  <2>2. IsFiniteSet(one..Len(s))
    BY <2>1, FS_Interval
  <2> QED
    BY <2>2 DEF one
<1>5. \A i \in S : f[i] \in Int
  BY <1>2
<1> HIDE DEF S, f
<1>6. \A t \in SUBSET S : t # {} => f[AnyOf(t)] = s[CHOOSE i \in t : TRUE].mask[axis]
  BY <1>2 DEF AnyOf
<1>7. ASSUME NEW sum PROVE Solves(sum) <=> IsSumOf(sum, f, S)
  <2>1. \A t \in SUBSET S : (IF t = {} THEN 0
                             ELSE s[CHOOSE i \in t : TRUE].mask[axis] + sum[t \ {CHOOSE i \in t : TRUE}])
                          = (IF t = {} THEN 0 ELSE f[AnyOf(t)] + sum[t \ {AnyOf(t)}])
    BY <1>6 DEF AnyOf
  <2>2. [t \in SUBSET DOMAIN s |-> IF t = {} THEN 0
                             ELSE s[CHOOSE i \in t : TRUE].mask[axis] + sum[t \ {CHOOSE i \in t : TRUE}]]
          = [t \in SUBSET S |-> IF t = {} THEN 0 ELSE f[AnyOf(t)] + sum[t \ {AnyOf(t)}]]
    BY <1>1, <2>1
  <2> QED
    BY Zenon, <2>2 DEF IsSumOf
<1>8. \E sum : Solves(sum)
  <2> HIDE DEF Solves
  <2>1. \E sum : IsSumOf(sum, f, S)
    BY <1>4, <1>5, SumExists
  <2> QED
    BY <1>7, <2>1
<1> DEFINE chosen == CHOOSE it : Solves(it)
<1>9. Solves(chosen)
  <2> HIDE DEF Solves
  <2> QED
    BY <1>8
<1> HIDE DEF Solves, chosen
<1>10. Sums(chosen, f, S)
  BY <1>4, <1>5, <1>7, <1>9, ComputedSums
<1>11. SumOn(s, axis) = chosen[S]
  BY <1>1, <1>3 DEF chosen
<1> QED
  BY <1>2, <1>10, <1>11 DEF HasSum, S, f

\* The sum of the first few numbers.
LEMMA SumFromTheEnd ==
    ASSUME NEW n \in Nat, NEW f, \A i \in 1..n : f[i] \in Int, NEW value, HasSum(value, f, 1..n)
    PROVE  /\ value \in Int
           /\ \A c \in Int : n \in 1..5 /\ (\A i \in 1..n : f[i] = c) => value = n * c
           /\ n = 5 => value = f[1] + f[2] + f[3] + f[4] + f[5]
<1>1. PICK sum : Sums(sum, f, 1..n) /\ value = sum[1..n]
  BY DEF HasSum
<1> DEFINE upTo == [j \in 0..n |-> sum[1..j]]
<1>2. ASSUME NEW j \in 1..n PROVE upTo[j] = f[j] + upTo[j - 1]
  <2> DEFINE now == 1..j
             before == 1..(j - 1)
  <2>1. now \in SUBSET (1..n) /\ j \in now /\ now \ {j} = before
    OBVIOUS
  <2>2. upTo[j] = sum[now] /\ upTo[j - 1] = sum[before]
    OBVIOUS
  <2> HIDE DEF now, before, upTo
  <2>3. sum[now] = f[j] + sum[now \ {j}]
    BY <1>1, <2>1 DEF Sums
  <2> QED
    BY <2>1, <2>2, <2>3
<1>3. upTo[0] = 0 /\ upTo[n] = value /\ value \in Int
  <2>1. 1..0 = {} /\ 1..n \in SUBSET (1..n) /\ 0 \in 0..n /\ n \in 0..n
    OBVIOUS
  <2>2. sum[{}] = 0 /\ sum[1..n] \in Int
    BY <1>1, <2>1 DEF Sums
  <2> QED
    BY <1>1, <2>1, <2>2
<1> HIDE DEF upTo
<1>4. ASSUME n >= 1 PROVE upTo[1] = f[1]
  <2>1. 1 \in 1..n
    BY <1>4
  <2>2. upTo[1] = f[1] + upTo[0] /\ f[1] \in Int
    BY <1>2, <2>1
  <2> QED
    BY <1>3, <2>2
<1>5. ASSUME n >= 2 PROVE upTo[2] = f[2] + f[1]
  BY <1>2, <1>4, <1>5
<1>6. ASSUME n >= 3 PROVE upTo[3] = f[3] + (f[2] + f[1])
  BY <1>2, <1>5, <1>6
<1>7. ASSUME n >= 4 PROVE upTo[4] = f[4] + (f[3] + (f[2] + f[1]))
  BY <1>2, <1>6, <1>7
<1>8. ASSUME n >= 5 PROVE upTo[5] = f[5] + (f[4] + (f[3] + (f[2] + f[1])))
  BY <1>2, <1>7, <1>8
<1>9. ASSUME NEW c \in Int, n \in 1..5, \A i \in 1..n : f[i] = c PROVE value = n * c
  <2>1. CASE n = 1
    BY <1>3, <1>4, <1>9, <2>1
  <2>2. CASE n = 2
    BY <1>3, <1>5, <1>9, <2>2
  <2>3. CASE n = 3
    BY <1>3, <1>6, <1>9, <2>3
  <2>4. CASE n = 4
    BY <1>3, <1>7, <1>9, <2>4
  <2>5. CASE n = 5
    BY <1>3, <1>8, <1>9, <2>5
  <2> QED
    BY <1>9, <2>1, <2>2, <2>3, <2>4, <2>5
<1>10. n = 5 => value = f[1] + f[2] + f[3] + f[4] + f[5]
  BY <1>3, <1>8
<1> QED
  BY <1>3, <1>9, <1>10

\* A square is not below another only when its root is not.
LEMMA SquaresAreOrdered ==
    ASSUME NEW a \in Nat, NEW b \in Nat, a * a >= b * b
    PROVE  a >= b
<1> SUFFICES ASSUME a < b PROVE FALSE
  OBVIOUS
<1> DEFINE d == b - a
<1>1. d \in Nat /\ d > 0 /\ b = a + d
  OBVIOUS
<1> HIDE DEF d
<1>2. b * b = a * a + (2 * a * d + d * d)
  BY <1>1
<1>3. d * d > 0 /\ 2 * a * d >= 0
  BY <1>1
<1> QED
  BY <1>1, <1>2, <1>3

\* The length of a displacement is the least number not below it.
LEMMA HypotIs ==
    ASSUME NEW dx \in Int, NEW dy \in Int
    PROVE  /\ Hypot(dx, dy) \in Nat
           /\ Hypot(dx, dy) * Hypot(dx, dy) >= dx * dx + dy * dy
           /\ \A k \in Nat : k * k >= dx * dx + dy * dy => Hypot(dx, dy) <= k
<1> DEFINE a == Abs(dx)
           b == Abs(dy)
           q == dx * dx + dy * dy
           Is(h) == h * h >= q /\ (h = 0 \/ (h - 1) * (h - 1) < q)
           enough == {k \in Nat : k * k >= q}
<1>1. a \in Nat /\ b \in Nat /\ a * a = dx * dx /\ b * b = dy * dy
  <2>1. (a = dx \/ a = 0 - dx) /\ a >= 0 /\ (b = dy \/ b = 0 - dy) /\ b >= 0
    BY DEF Abs, Larger
  <2>2. (0 - dx) * (0 - dx) = dx * dx /\ (0 - dy) * (0 - dy) = dy * dy
    OBVIOUS
  <2> HIDE DEF a, b
  <2> QED
    BY <2>1, <2>2
<1>2. q \in Int /\ q = a * a + b * b /\ a * a >= 0 /\ b * b >= 0
  <2>1. q \in Int /\ q = a * a + b * b
    BY <1>1
  <2> HIDE DEF a, b, q
  <2> QED
    BY <1>1, <2>1
<1>3. Larger(a, b) = a \/ Larger(a, b) = b
  BY DEF Larger
<1>4. Hypot(dx, dy) = CHOOSE h \in Larger(a, b)..(a + b) : Is(h)
  BY DEF Hypot
<1> HIDE DEF a, b, q
<1>5. a + b \in enough
  <2>1. (a + b) * (a + b) = a * a + b * b + 2 * (a * b) /\ a * b >= 0
    BY <1>1
  <2>2. a * b \in Int /\ a * a \in Int /\ b * b \in Int /\ (a + b) * (a + b) \in Int /\ a + b \in Nat
    BY <1>1
  <2> QED
    BY <1>2, <2>1, <2>2
<1>6. PICK h \in enough : \A k \in enough : h <= k
  BY <1>5, LeastNatural
<1>7. h \in Larger(a, b)..(a + b)
  <2>1. h \in Nat /\ h * h >= q /\ h <= a + b
    BY <1>5, <1>6
  <2>2. h * h >= a * a /\ h * h >= b * b
    BY <1>1, <1>2, <2>1
  <2>3. h >= a /\ h >= b
    BY <1>1, <2>1, <2>2, SquaresAreOrdered
  <2> QED
    BY <1>1, <1>3, <2>1, <2>3
<1>8. Is(h)
  <2>1. h \in Nat /\ h * h >= q
    BY <1>6
  <2>2. CASE h # 0
    <3> DEFINE l == h - 1
    <3>1. l \in Nat /\ ~(h <= l)
      BY <2>1, <2>2
    <3>2. l \notin enough
      BY <1>6, <3>1
    <3>3. ~(l * l >= q) /\ l * l \in Int
      BY <3>1, <3>2
    <3> HIDE DEF l
    <3>4. l * l < q
      BY <1>2, <3>3
    <3> QED
      BY <2>1, <3>4 DEF l
  <2> QED
    BY <2>1, <2>2
<1> DEFINE found == Hypot(dx, dy)
<1>9. found \in Larger(a, b)..(a + b) /\ Is(found)
  <2> HIDE DEF Is, found
  <2>1. found = CHOOSE i \in Larger(a, b)..(a + b) : Is(i)
    BY <1>4 DEF found
  <2> QED
    BY <1>7, <1>8, <2>1
<1> HIDE DEF found
<1>10. found \in Nat
  BY <1>1, <1>3, <1>9
<1>11. ASSUME NEW k \in Nat, k * k >= q PROVE found <= k
  <2> SUFFICES ASSUME ~(found <= k) PROVE FALSE
    OBVIOUS
  <2> DEFINE l == found - 1
  <2>1. l \in Nat /\ k <= l /\ found # 0
    BY <1>10
  <2>2. l * l < q
    BY <1>9, <2>1
  <2> HIDE DEF l
  <2>3. l * l >= k * k
    <3> DEFINE d == l - k
    <3>1. d \in Nat /\ l = k + d
      BY <2>1
    <3> HIDE DEF d
    <3>2. l * l = k * k + (2 * (k * d) + d * d) /\ k * d >= 0 /\ d * d >= 0
      BY <3>1
    <3>3. k * d \in Int /\ d * d \in Int /\ k * k \in Int
      BY <3>1
    <3> QED
      BY <3>2, <3>3
  <2> QED
    <3>1. l * l \in Int /\ k * k \in Int
      BY <2>1
    <3> QED
      BY <1>2, <1>11, <2>2, <2>3, <3>1
<1> QED
  BY <1>9, <1>10, <1>11 DEF found, q

\* The product of two lengths is not below that of the displacements
\* (Cauchy-Schwarz).
LEMMA ProductOfLengths ==
    ASSUME NEW a \in Int, NEW b \in Int, NEW c \in Int, NEW d \in Int, NEW g \in Nat, NEW h \in Nat,
           g * g >= a * a + b * b, h * h >= c * c + d * d
    PROVE  g * h >= a * c + b * d
<1> DEFINE w == a * c + b * d
           u == a * a + b * b
           v == c * c + d * d
           p == g * g
           r == h * h
<1>1. w \in Int /\ u \in Int /\ v \in Int /\ p \in Int /\ r \in Int /\ g * h \in Nat
  OBVIOUS
<1>2. u >= 0 /\ v >= 0
  <2>1. a * a >= 0 /\ b * b >= 0 /\ c * c >= 0 /\ d * d >= 0
    OBVIOUS
  <2> QED
    BY <2>1
<1>3. w * w <= u * v
  <2> DEFINE e == a * d - b * c
  <2>1. u * v = w * w + e * e
    OBVIOUS
  <2>2. e \in Int
    OBVIOUS
  <2> HIDE DEF e, w, u, v
  <2>3. e * e >= 0 /\ e * e \in Int /\ w * w \in Int
    BY <1>1, <2>2
  <2> QED
    BY <1>1, <2>1, <2>3
<1>4. p >= u /\ r >= v
  OBVIOUS
<1>5. (g * h) * (g * h) = p * r
  OBVIOUS
<1> HIDE DEF w, u, v, p, r
<1>6. p * r >= u * v
  <2> DEFINE i == p - u
             j == r - v
  <2>1. i \in Nat /\ j \in Nat /\ p = u + i /\ r = v + j /\ u \in Nat /\ v \in Nat
    BY <1>1, <1>2, <1>4
  <2> HIDE DEF i, j
  <2>2. p * r = u * v + (u * j + i * v + i * j)
    BY <2>1
  <2>3. u * j >= 0 /\ i * v >= 0 /\ i * j >= 0 /\ u * j \in Int /\ i * v \in Int /\ i * j \in Int
        /\ u * v \in Int
    BY <2>1
  <2> QED
    BY <2>2, <2>3
<1> DEFINE k == g * h
<1> HIDE DEF k
<1>7. CASE w < 0
  BY <1>1, <1>7 DEF w, k
<1>8. CASE w >= 0
  <2>1. k * k >= w * w /\ k \in Nat /\ w \in Nat
    <3>1. k * k = p * r /\ k \in Nat
      BY <1>1, <1>5 DEF k
    <3>2. w * w \in Int /\ u * v \in Int /\ p * r \in Int
      BY <1>1
    <3> QED
      BY <1>1, <1>3, <1>6, <1>8, <3>1, <3>2
  <2>2. k >= w
    BY <2>1, SquaresAreOrdered
  <2> QED
    BY <2>2 DEF k, w
<1> QED
  BY <1>1, <1>7, <1>8

Places == [x : Int, y : Int]

LEMMA DistanceIs ==
    ASSUME NEW p \in Places, NEW q \in Places
    PROVE  /\ Distance(p, q) \in Nat
           /\ Distance(p, q) = Distance(q, p)
           /\ \A r \in Places : Distance(p, r) <= Distance(q, r) + Distance(p, q)
           /\ Distance(p, p) = 0
<1>1. /\ p.x \in Int /\ p.y \in Int /\ q.x \in Int /\ q.y \in Int
  BY DEF Places
<1>2. Distance(p, q) \in Nat
  <2>1. q.x - p.x \in Int /\ q.y - p.y \in Int
    BY <1>1
  <2> QED
    BY <2>1, HypotIs DEF Distance
<1>3. ASSUME NEW dx \in Int, NEW dy \in Int PROVE Hypot(dx, dy) = Hypot(0 - dx, 0 - dy)
  <2>1. Abs(0 - dx) = Abs(dx) /\ Abs(0 - dy) = Abs(dy)
    BY DEF Abs, Larger
  <2>2. (0 - dx) * (0 - dx) + (0 - dy) * (0 - dy) = dx * dx + dy * dy
    OBVIOUS
  <2> QED
    BY <2>1, <2>2 DEF Hypot
<1>4. Distance(p, q) = Distance(q, p)
  <2> DEFINE dx == q.x - p.x
             dy == q.y - p.y
  <2>1. dx \in Int /\ dy \in Int /\ 0 - dx = p.x - q.x /\ 0 - dy = p.y - q.y
    BY <1>1
  <2>2. Distance(p, q) = Hypot(dx, dy)
    BY DEF Distance
  <2> HIDE DEF dx, dy
  <2> QED
    BY <1>3, <2>1, <2>2 DEF Distance
<1>5. ASSUME NEW r \in Places PROVE Distance(p, r) <= Distance(q, r) + Distance(p, q)
  <2> DEFINE a == q.x - p.x
             b == q.y - p.y
             c == r.x - q.x
             d == r.y - q.y
             g == Hypot(a, b)
             h == Hypot(c, d)
  <2>1. /\ a \in Int /\ b \in Int /\ c \in Int /\ d \in Int
        /\ r.x - p.x = a + c /\ r.y - p.y = b + d
    BY <1>1 DEF Places
  <2>2. Distance(p, q) = g /\ Distance(q, r) = h /\ Distance(p, r) = Hypot(a + c, b + d)
    BY <2>1 DEF Distance
  <2> HIDE DEF a, b, c, d
  <2>3. g \in Nat /\ h \in Nat /\ g * g >= a * a + b * b /\ h * h >= c * c + d * d
    BY <2>1, HypotIs
  <2> HIDE DEF g, h
  <2>4. g * h >= a * c + b * d
    BY <2>1, <2>3, ProductOfLengths
  <2>5. (h + g) * (h + g) >= (a + c) * (a + c) + (b + d) * (b + d)
    <3>1. (h + g) * (h + g) = h * h + g * g + 2 * (g * h)
      BY <2>3
    <3>2. (a + c) * (a + c) + (b + d) * (b + d) =
             (a * a + b * b) + (c * c + d * d) + 2 * (a * c + b * d)
      BY <2>1
    <3> DEFINE gg == g * g
               hh == h * h
               gh == g * h
               ab == a * a + b * b
               cd == c * c + d * d
               w == a * c + b * d
    <3>3. /\ gg \in Int /\ hh \in Int /\ gh \in Int /\ ab \in Int /\ cd \in Int /\ w \in Int
          /\ gg >= ab /\ hh >= cd /\ gh >= w
      BY <2>1, <2>3, <2>4
    <3>4. /\ (h + g) * (h + g) = hh + gg + 2 * gh
          /\ (a + c) * (a + c) + (b + d) * (b + d) = ab + cd + 2 * w
      BY <3>1, <3>2
    <3> HIDE DEF gg, hh, gh, ab, cd, w
    <3>5. hh + gg + 2 * gh >= ab + cd + 2 * w
      BY <3>3
    <3> QED
      BY <3>4, <3>5, Zenon
  <2>6. a + c \in Int /\ b + d \in Int /\ h + g \in Nat
    BY <2>1, <2>3
  <2>7. Hypot(a + c, b + d) <= h + g
    BY <2>5, <2>6, HypotIs
  <2> QED
    BY <2>2, <2>7
<1>6. Distance(p, p) = 0
  <2>1. p.x - p.x = 0 /\ p.y - p.y = 0
    BY <1>1
  <2>2. Hypot(0, 0) \in Nat /\ Hypot(0, 0) <= 0
    BY HypotIs
  <2> QED
    BY <2>1, <2>2 DEF Distance
<1> QED
  BY <1>2, <1>4, <1>5, <1>6

LEMMA MeanIs ==
    ASSUME NEW s \in Seq(SampleData), NEW axis \in Axes, Len(s) \in 1..5
    PROVE  /\ Mean(s, axis) \in Int
           /\ \A c \in Nat : (\A i \in 1..Len(s) : s[i].mask[axis] = c) => Mean(s, axis) = 60 * c
           /\ Len(s) = 5 =>
                Mean(s, axis) = 12 * (s[1].mask[axis] + s[2].mask[axis] + s[3].mask[axis] + s[4].mask[axis] + s[5].mask[axis])
<1> DEFINE sum == SumOn(s, axis)
           n == Len(s)
           f == OnAxis(s, axis)
<1>1. /\ \A i \in 1..n : f[i] = s[i].mask[axis] /\ f[i] \in Nat
      /\ HasSum(sum, f, 1..n)
  BY SumOnIsSum
<1>2. n \in 1..5 /\ n \in Nat /\ \A i \in 1..n : f[i] \in Int
  BY <1>1
<1>3. Mean(s, axis) = (60 * sum) \div n
  BY DEF Mean
<1> HIDE DEF sum, n, f
<1>4. /\ sum \in Int
      /\ \A c \in Int : n \in 1..5 /\ (\A i \in 1..n : f[i] = c) => sum = n * c
      /\ n = 5 => sum = f[1] + f[2] + f[3] + f[4] + f[5]
  BY <1>1, <1>2, SumFromTheEnd
<1>5. Mean(s, axis) \in Int
  <2>1. CASE n = 1  BY <1>3, <1>4, <2>1
  <2>2. CASE n = 2  BY <1>3, <1>4, <2>2
  <2>3. CASE n = 3  BY <1>3, <1>4, <2>3
  <2>4. CASE n = 4  BY <1>3, <1>4, <2>4
  <2>5. CASE n = 5  BY <1>3, <1>4, <2>5
  <2> QED
    BY <1>2, <2>1, <2>2, <2>3, <2>4, <2>5
<1>6. ASSUME NEW c \in Nat, \A i \in 1..n : s[i].mask[axis] = c PROVE Mean(s, axis) = 60 * c
  <2>1. sum = n * c
    <3>1. c \in Int /\ \A i \in 1..n : f[i] = c
      BY <1>1, <1>6
    <3> QED
      BY <1>2, <1>4, <3>1
  <2>2. CASE n = 1  BY <1>3, <2>1, <2>2
  <2>3. CASE n = 2  BY <1>3, <2>1, <2>3
  <2>4. CASE n = 3  BY <1>3, <2>1, <2>4
  <2>5. CASE n = 4  BY <1>3, <2>1, <2>5
  <2>6. CASE n = 5  BY <1>3, <2>1, <2>6
  <2> QED
    BY <1>2, <2>2, <2>3, <2>4, <2>5, <2>6
<1>7. ASSUME n = 5
      PROVE  Mean(s, axis) = 12 * (s[1].mask[axis] + s[2].mask[axis] + s[3].mask[axis] + s[4].mask[axis] + s[5].mask[axis])
  <2>1. sum = s[1].mask[axis] + s[2].mask[axis] + s[3].mask[axis] + s[4].mask[axis] + s[5].mask[axis]
    BY <1>1, <1>2, <1>4, <1>7
  <2> DEFINE total == s[1].mask[axis] + s[2].mask[axis] + s[3].mask[axis] + s[4].mask[axis] + s[5].mask[axis]
  <2>2. sum = total
    BY <2>1
  <2> HIDE DEF total
  <2>3. (60 * total) \div 5 = 12 * total /\ total \in Int
    BY <1>4, <2>2
  <2> QED
    BY <1>3, <1>7, <2>2, <2>3 DEF total
<1> QED
  BY <1>5, <1>6, <1>7 DEF n

LEMMA CentroidIs ==
    ASSUME NEW s \in Seq(SampleData), Len(s) \in 1..5
    PROVE  /\ Centroid(s) \in Places
           /\ \A axis \in Axes : Centroid(s)[axis] = Mean(s, axis)
<1>1. "x" \in Axes /\ "y" \in Axes
  BY DEF Axes
<1>2. Mean(s, "x") \in Int /\ Mean(s, "y") \in Int
  BY <1>1, MeanIs
<1> QED
  BY <1>2 DEF Centroid, Places, Axes

LEMMA PartsAre ==
    ASSUME NEW s \in Seq(SampleData), NEW a \in 1..Len(s), NEW b \in a..Len(s)
    PROVE  /\ SubSeq(s, a, b) \in Seq(SampleData)
           /\ Len(SubSeq(s, a, b)) = b - a + 1
           /\ \A i \in 1..(b - a + 1) : SubSeq(s, a, b)[i] = s[a + i - 1]
<1>1. a \in Int /\ b \in Int /\ a <= b /\ \A i \in a..b : s[i] \in SampleData
  OBVIOUS
<1> QED
  BY <1>1, SubSeqProperties

LEMMA SmoothedIs ==
    ASSUME NEW s \in Seq(SampleData), NEW i \in 1..Len(s)
    PROVE  /\ SmoothedCentroid(s, i) \in Places
           /\ \A axis \in Axes : \A c \in Nat :
                (\A k \in 1..Len(s) : s[k].mask[axis] = c) => SmoothedCentroid(s, i)[axis] = 60 * c
<1> DEFINE n == Len(s)
           a == Larger(1, i - 2)
           b == Smaller(n, i + 2)
           part == SubSeq(s, a, b)
<1>1. n \in Nat /\ i \in 1..n
  OBVIOUS
<1>2. MOTION_SMOOTHING_WINDOW \div 2 = 2
  BY DEF MOTION_SMOOTHING_WINDOW
<1>3. SmoothedCentroid(s, i) = Centroid(part)
  BY <1>2 DEF SmoothedCentroid
<1>4. a \in 1..n /\ b \in a..n /\ b - a + 1 \in 1..5
  <2> HIDE DEF n
  <2> QED
    BY <1>1 DEF Larger, Smaller
<1>5. /\ part \in Seq(SampleData) /\ Len(part) = b - a + 1
      /\ \A k \in 1..(b - a + 1) : part[k] = s[a + k - 1]
  <2> HIDE DEF a, b
  <2> QED
    BY <1>4, PartsAre
<1>6. ASSUME NEW k \in 1..(b - a + 1) PROVE a + k - 1 \in 1..n
  <2> HIDE DEF a, b, n
  <2> QED
    BY <1>1, <1>4
<1> HIDE DEF part, a, b
<1>7. Len(part) \in 1..5
  BY <1>4, <1>5
<1>8. Centroid(part) \in Places /\ \A axis \in Axes : Centroid(part)[axis] = Mean(part, axis)
  BY <1>5, <1>7, CentroidIs
<1>9. ASSUME NEW axis \in Axes, NEW c \in Nat, \A k \in 1..n : s[k].mask[axis] = c
      PROVE  Centroid(part)[axis] = 60 * c
  <2>1. \A k \in 1..Len(part) : part[k].mask[axis] = c
    BY <1>5, <1>6, <1>9
  <2>2. Mean(part, axis) = 60 * c
    <3>1. \A d \in Nat : (\A k \in 1..Len(part) : part[k].mask[axis] = d) => Mean(part, axis) = 60 * d
      BY <1>5, <1>7, MeanIs
    <3> QED
      BY <2>1, <3>1
  <2> QED
    BY <1>8, <2>2
<1> QED
  BY <1>3, <1>8, <1>9

Steps(s) == [i \in 1..(Len(s) - 1) |-> Distance(SmoothedCentroid(s, i), SmoothedCentroid(s, i + 1))]

LEMMA PathIsSum ==
    ASSUME NEW s \in Seq(SampleData), s # <<>>
    PROVE  /\ \A i \in 1..(Len(s) - 1) : Steps(s)[i] \in Nat
           /\ IsFiniteSet(1..(Len(s) - 1))
           /\ HasSum(PathDisplacement(s), Steps(s), 1..(Len(s) - 1))
<1> DEFINE S == 1..(Len(s) - 1)
           f == Steps(s)
           Step(i) == Distance(SmoothedCentroid(s, i), SmoothedCentroid(s, i + 1))
           Solves(sum) == sum = [t \in SUBSET S |->
                                   IF t = {} THEN 0
                                   ELSE Step(CHOOSE i \in t : TRUE) + sum[t \ {CHOOSE i \in t : TRUE}]]
<1>1. Len(s) \in Nat \ {0}
  OBVIOUS
<1>2. \A i \in S : f[i] = Step(i) /\ f[i] \in Nat
  <2> SUFFICES ASSUME NEW i \in S PROVE Step(i) \in Nat
    BY DEF Steps
  <2>1. i \in 1..Len(s) /\ i + 1 \in 1..Len(s)
    BY <1>1
  <2>2. SmoothedCentroid(s, i) \in Places /\ SmoothedCentroid(s, i + 1) \in Places
    BY <2>1, SmoothedIs
  <2> QED
    BY <2>2, DistanceIs
<1>3. PathDisplacement(s) = (CHOOSE sum : Solves(sum))[S]
  BY Zenon DEF PathDisplacement, MapThenSumSet, MapThenFoldSet
<1>4. IsFiniteSet(S)
  <2> DEFINE one == 1
             end == Len(s) - 1
  <2>1. one \in Int /\ end \in Int
    BY <1>1
  <2> HIDE DEF one, end
  <2>2. IsFiniteSet(one..end)
    BY <2>1, FS_Interval
  <2> QED
    BY <2>2 DEF one, end
<1>5. \A i \in S : f[i] \in Int
  BY <1>2
<1> HIDE DEF S, f, Step
<1>6. \A t \in SUBSET S : t # {} => f[AnyOf(t)] = Step(CHOOSE i \in t : TRUE)
  BY <1>2 DEF AnyOf
<1>7. ASSUME NEW sum PROVE Solves(sum) <=> IsSumOf(sum, f, S)
  <2>1. \A t \in SUBSET S : (IF t = {} THEN 0
                             ELSE Step(CHOOSE i \in t : TRUE) + sum[t \ {CHOOSE i \in t : TRUE}])
                          = (IF t = {} THEN 0 ELSE f[AnyOf(t)] + sum[t \ {AnyOf(t)}])
    BY <1>6 DEF AnyOf
  <2>2. [t \in SUBSET S |-> IF t = {} THEN 0
                             ELSE Step(CHOOSE i \in t : TRUE) + sum[t \ {CHOOSE i \in t : TRUE}]]
          = [t \in SUBSET S |-> IF t = {} THEN 0 ELSE f[AnyOf(t)] + sum[t \ {AnyOf(t)}]]
    BY <2>1
  <2> QED
    BY Zenon, <2>2 DEF IsSumOf
<1>8. \E sum : Solves(sum)
  <2> HIDE DEF Solves
  <2>1. \E sum : IsSumOf(sum, f, S)
    BY <1>4, <1>5, SumExists
  <2> QED
    BY <1>7, <2>1
<1> DEFINE chosen == CHOOSE it : Solves(it)
<1>9. Solves(chosen)
  <2> HIDE DEF Solves
  <2> QED
    BY <1>8
<1> HIDE DEF Solves, chosen
<1>10. Sums(chosen, f, S)
  BY <1>4, <1>5, <1>7, <1>9, ComputedSums
<1>11. PathDisplacement(s) = chosen[S]
  BY <1>3 DEF chosen
<1> QED
  BY <1>2, <1>4, <1>10, <1>11 DEF HasSum, S, f

\* No two smoothed positions are farther apart than the path between them is long.
LEMMA PathIsLongEnough ==
    ASSUME NEW s \in Seq(SampleData), NEW i \in 1..Len(s), NEW j \in i..Len(s)
    PROVE  Distance(SmoothedCentroid(s, i), SmoothedCentroid(s, j)) <= PathDisplacement(s)
<1> DEFINE n == Len(s)
           m == n - 1
           f == Steps(s)
           c(k) == SmoothedCentroid(s, k)
<1>1. n \in Nat /\ n >= 1 /\ m \in Nat /\ n = m + 1 /\ s # <<>>
  OBVIOUS
<1>2. PICK sum : Sums(sum, f, 1..m) /\ PathDisplacement(s) = sum[1..m]
  BY <1>1, PathIsSum DEF HasSum
<1>3. \A k \in 1..n : c(k) \in Places
  BY SmoothedIs
<1>4. \A k \in 1..m : f[k] \in Nat /\ f[k] = Distance(c(k), c(k + 1))
  BY <1>1, PathIsSum DEF Steps
<1>5. IsFiniteSet(1..m)
  BY <1>1, PathIsSum
<1> HIDE DEF n, m, f, c
<1> DEFINE wrong == {k \in i..n : ~(Distance(c(i), c(k)) <= sum[i..(k - 1)])}
<1>6. wrong = {}
  <2>1. SUFFICES ASSUME wrong # {} PROVE FALSE
    OBVIOUS
  <2>2. PICK k \in wrong : \A l \in wrong : k <= l
    <3>1. wrong \subseteq Nat
      BY <1>1 DEF n
    <3> HIDE DEF wrong
    <3> QED
      BY <2>1, <3>1, LeastNatural
  <2>3. i \in 1..n /\ k \in i..n
    BY <2>2 DEF n
  <2>4. k # i
    <3>1. i..(i - 1) = {} /\ sum[{}] = 0 /\ c(i) \in Places
      BY <1>2, <1>3, <2>3 DEF Sums
    <3>2. Distance(c(i), c(i)) = 0
      BY <3>1, DistanceIs
    <3> QED
      BY <2>2, <3>1, <3>2
  <2> DEFINE l == k - 1
  <2>5. l \in i..n /\ l \in 1..m /\ l + 1 = k /\ ~(k <= l) /\ i \in 1..m
    BY <1>1, <2>3, <2>4
  <2> HIDE DEF l
  <2>6. Distance(c(i), c(l)) <= sum[i..(l - 1)]
    BY <2>2, <2>5
  <2>7. sum[i..l] = f[l] + sum[i..(l - 1)] /\ i..(l - 1) \in SUBSET (1..m)
    <3>1. /\ i..l \in SUBSET (1..m) /\ l \in i..l /\ (i..l) \ {l} = i..(l - 1)
          /\ i..(l - 1) \in SUBSET (1..m)
      BY <1>1, <2>5
    <3> QED
      BY <1>2, <3>1 DEF Sums
  <2>8. c(i) \in Places /\ c(k) \in Places /\ c(l) \in Places
    BY <1>1, <1>3, <2>3, <2>5
  <2>9. /\ Distance(c(i), c(k)) <= f[l] + Distance(c(i), c(l))
        /\ Distance(c(i), c(k)) \in Nat /\ Distance(c(i), c(l)) \in Nat /\ f[l] \in Nat
        /\ sum[i..(l - 1)] \in Int
    <3>1. f[l] \in Nat /\ f[l] = Distance(c(l), c(k))
      BY <1>4, <2>5
    <3>2. Distance(c(i), c(k)) <= Distance(c(l), c(k)) + Distance(c(i), c(l))
          /\ Distance(c(i), c(k)) \in Nat /\ Distance(c(i), c(l)) \in Nat
      BY <2>8, DistanceIs
    <3> QED
      BY <1>2, <2>7, <3>1, <3>2 DEF Sums
  <2>10. Distance(c(i), c(k)) <= sum[i..l]
    BY <2>6, <2>7, <2>9
  <2> QED
    BY <2>2, <2>5, <2>10 DEF l
<1>7. Distance(c(i), c(j)) <= sum[i..(j - 1)] /\ Distance(c(i), c(j)) \in Nat
  <2>1. i \in 1..n /\ j \in i..n /\ j \in 1..n
    BY DEF n
  <2> QED
    BY <1>3, <1>6, <2>1, DistanceIs
<1>8. sum[i..(j - 1)] <= sum[1..m]
  <2>1. i..(j - 1) \in SUBSET (1..m) /\ 1..m \in SUBSET (1..m) /\ i..(j - 1) \subseteq 1..m
    <3>1. i \in 1..n /\ j \in i..n
      BY DEF n
    <3> QED
      BY <1>1, <3>1
  <2> QED
    BY <1>2, <1>4, <1>5, <2>1, LargerSetSumsMore
<1>9. sum[i..(j - 1)] \in Int /\ sum[1..m] \in Int
  <2>1. i..(j - 1) \in SUBSET (1..m) /\ 1..m \in SUBSET (1..m)
    <3>1. i \in 1..n /\ j \in i..n
      BY DEF n
    <3> QED
      BY <1>1, <3>1
  <2> QED
    BY <1>2, <2>1 DEF Sums
<1> QED
  BY <1>2, <1>7, <1>8, <1>9 DEF c

FirstFive(s, axis) ==
    s[1].mask[axis] + s[2].mask[axis] + s[3].mask[axis] + s[4].mask[axis] + s[5].mask[axis]
LastFive(s, n, axis) ==
    s[n - 4].mask[axis] + s[n - 3].mask[axis] + s[n - 2].mask[axis] + s[n - 1].mask[axis] + s[n].mask[axis]

LEMMA NetIs ==
    ASSUME NEW s \in Seq(SampleData), s # <<>>, NEW n, n = Len(s)
    PROVE  /\ NetDisplacement(s) \in Places
           /\ \A axis \in Axes :
                n > 5 => NetDisplacement(s)[axis] = 12 * LastFive(s, n, axis) - 12 * FirstFive(s, axis)
<1> DEFINE e == EdgeCount(s)
           first == SubSeq(s, 1, e)
           last == SubSeq(s, n - e + 1, n)
<1>1. n \in Nat \ {0}
  OBVIOUS
<1>2. e \in 1..5 /\ e <= n /\ (n > 5 => e = 5)
  BY <1>1 DEF EdgeCount, Smaller, MOTION_SMOOTHING_WINDOW
<1>3. NetDisplacement(s) = [x |-> Centroid(last).x - Centroid(first).x,
                            y |-> Centroid(last).y - Centroid(first).y]
  BY DEF NetDisplacement, LastOnes, FirstOnes
<1> HIDE DEF e
<1>4. /\ first \in Seq(SampleData) /\ Len(first) = e
      /\ \A i \in 1..e : first[i] = s[i]
  <2> DEFINE one == 1
  <2>1. one \in 1..Len(s) /\ e \in one..Len(s) /\ e - one + 1 = e /\ \A i \in 1..e : one + i - 1 = i
    BY <1>1, <1>2
  <2> HIDE DEF one
  <2>2. /\ SubSeq(s, one, e) \in Seq(SampleData) /\ Len(SubSeq(s, one, e)) = e - one + 1
        /\ \A i \in 1..(e - one + 1) : SubSeq(s, one, e)[i] = s[one + i - 1]
    BY <2>1, PartsAre
  <2>3. first = SubSeq(s, one, e)
    BY DEF one
  <2> HIDE DEF first
  <2> QED
    BY <2>1, <2>2, <2>3
<1>5. /\ last \in Seq(SampleData) /\ Len(last) = e
      /\ \A i \in 1..e : last[i] = s[n - e + i]
  <2> DEFINE a == n - e + 1
  <2>1. a \in 1..Len(s) /\ n \in a..Len(s) /\ n - a + 1 = e /\ \A i \in 1..e : a + i - 1 = n - e + i
    BY <1>1, <1>2
  <2>2. last = SubSeq(s, a, n)
    OBVIOUS
  <2> HIDE DEF a, last
  <2>3. /\ SubSeq(s, a, n) \in Seq(SampleData) /\ Len(SubSeq(s, a, n)) = n - a + 1
        /\ \A i \in 1..(n - a + 1) : SubSeq(s, a, n)[i] = s[a + i - 1]
    BY <2>1, PartsAre
  <2> QED
    BY <2>1, <2>2, <2>3
<1> HIDE DEF first, last
<1>6. Centroid(first) \in Places /\ Centroid(last) \in Places
  BY <1>2, <1>4, <1>5, CentroidIs
<1>7. /\ NetDisplacement(s) \in Places
      /\ \A axis \in Axes : NetDisplacement(s)[axis] = Centroid(last)[axis] - Centroid(first)[axis]
  BY <1>3, <1>6 DEF Places, Axes
<1>8. ASSUME n > 5, NEW axis \in Axes
      PROVE  /\ Centroid(first)[axis] = 12 * FirstFive(s, axis)
             /\ Centroid(last)[axis] = 12 * LastFive(s, n, axis)
  <2>1. e = 5 /\ Len(first) = 5 /\ Len(last) = 5 /\ 5 \in 1..5
    BY <1>2, <1>4, <1>5, <1>8
  <2>2. /\ first[1] = s[1] /\ first[2] = s[2] /\ first[3] = s[3] /\ first[4] = s[4] /\ first[5] = s[5]
    BY <1>4, <2>1
  <2>3. n - 5 + 1 = n - 4 /\ n - 5 + 2 = n - 3 /\ n - 5 + 3 = n - 2 /\ n - 5 + 4 = n - 1 /\ n - 5 + 5 = n
    BY <1>1
  <2>4. /\ last[1] = s[n - 4] /\ last[2] = s[n - 3] /\ last[3] = s[n - 2] /\ last[4] = s[n - 1]
        /\ last[5] = s[n]
    BY <1>5, <2>1, <2>3
  <2>5. Mean(first, axis) = 12 * FirstFive(first, axis) /\ Mean(last, axis) = 12 * FirstFive(last, axis)
    BY <1>4, <1>5, <2>1, MeanIs DEF FirstFive
  <2>6. FirstFive(first, axis) = FirstFive(s, axis) /\ FirstFive(last, axis) = LastFive(s, n, axis)
    BY <2>2, <2>4 DEF FirstFive, LastFive
  <2>7. Centroid(first)[axis] = Mean(first, axis) /\ Centroid(last)[axis] = Mean(last, axis)
    BY <1>4, <1>5, <2>1, CentroidIs
  <2> QED
    BY <2>5, <2>6, <2>7
<1> QED
  BY <1>7, <1>8

LEMMA PathIsNumber ==
    ASSUME NEW s \in Seq(SampleData), s # <<>>
    PROVE  PathDisplacement(s) \in Nat
<1> DEFINE S == 1..(Len(s) - 1)
           f == Steps(s)
<1>1. (\A i \in S : f[i] \in Nat) /\ IsFiniteSet(S) /\ HasSum(PathDisplacement(s), f, S)
  BY PathIsSum
<1> HIDE DEF S, f
<1>2. PICK sum : Sums(sum, f, S) /\ PathDisplacement(s) = sum[S]
  BY <1>1 DEF HasSum
<1> DEFINE none == {}
<1>3. none \in SUBSET S /\ S \in SUBSET S /\ none \subseteq S /\ sum[none] = 0 /\ sum[S] \in Int
  BY <1>2 DEF Sums
<1> HIDE DEF none
<1>4. sum[none] <= sum[S]
  BY <1>1, <1>2, <1>3, LargerSetSumsMore
<1> QED
  BY <1>2, <1>3, <1>4

LEMMA StationaryStays ==
    ASSUME samples \in Seq(SampleData), samples # <<>>, MotionEventType(samples) = "stationary"
    PROVE  Stays
<1> DEFINE n == Len(samples)
           path == PathDisplacement(samples)
           c(k) == SmoothedCentroid(samples, k)
<1>1. n \in Nat \ {0} /\ DOMAIN samples = 1..n /\ path \in Nat /\ NetDisplacement(samples) \in Places
      /\ Diagonal \in Nat
  BY PathIsNumber, NetIs, BoundsAssumption
<1>2. \A k \in 1..n : c(k) \in Places
  BY SmoothedIs
<1>3. TwiceDisplacement(samples) \in Int /\ (n >= 2 => path <= TwiceDisplacement(samples))
  <2> DEFINE net == NetDisplacement(samples)
             length == Hypot(net.x, net.y)
  <2>1. length \in Nat
    <3>1. net.x \in Int /\ net.y \in Int
      BY <1>1 DEF Places
    <3> HIDE DEF net
    <3> QED
      BY <3>1, HypotIs
  <2>2. TwiceDisplacement(samples) = IF n < 2 THEN 0 ELSE Larger(2 * length, path)
    BY DEF TwiceDisplacement
  <2> HIDE DEF path, length, n
  <2> QED
    BY <1>1, <2>1, <2>2 DEF Larger
<1>4. 100 * TwiceDisplacement(samples) <= 120 * 3 * Diagonal
  BY DEF MotionEventType, STATIONARY_DISPLACEMENT_RATIO
<1>5. \A i \in 1..n : \A j \in i..n : Distance(c(i), c(j)) <= path
  BY PathIsLongEnough
<1> HIDE DEF path, n, c
<1>6. ASSUME NEW i \in 1..n, NEW j \in 1..n
      PROVE  100 * Distance(c(i), c(j)) <= 120 * 3 * Diagonal
  <2>1. /\ Distance(c(i), c(j)) \in Nat /\ Distance(c(i), c(j)) = Distance(c(j), c(i))
        /\ Distance(c(i), c(i)) = 0
    BY <1>2, DistanceIs
  <2>2. CASE n < 2
    BY <1>1, <2>1, <2>2
  <2>3. CASE n >= 2
    <3>1. Distance(c(i), c(j)) <= path
      <4>1. j \in i..n \/ i \in j..n
        BY <1>1
      <4> QED
        BY <1>5, <2>1, <4>1
    <3> QED
      BY <1>1, <1>3, <1>4, <2>1, <2>3, <3>1
  <2> QED
    BY <1>1, <2>2, <2>3
<1> QED
  BY <1>1, <1>6 DEF Stays, STATIONARY_DISPLACEMENT_RATIO, c

\* Of numbers that never rise none is above an earlier one, and when the last
\* five are together no less than the first five, all are the same.
LEMMA NeverRising ==
    ASSUME NEW n \in Nat, NEW v, \A k \in 1..n : v[k] \in Int,
           \A k \in 1..(n - 1) : v[k + 1] <= v[k],
           NEW i \in 1..n, NEW j \in i..n
    PROVE  v[j] <= v[i]
<1> DEFINE wrong == {k \in i..n : ~(v[k] <= v[i])}
<1>1. wrong = {}
  <2>1. SUFFICES ASSUME wrong # {} PROVE FALSE
    OBVIOUS
  <2>2. PICK k \in wrong : \A l \in wrong : k <= l
    <3>1. wrong \subseteq Nat
      OBVIOUS
    <3> HIDE DEF wrong
    <3> QED
      BY <2>1, <3>1, LeastNatural
  <2>3. k # i
    BY <2>2
  <2> DEFINE l == k - 1
  <2>4. l \in i..n /\ l \in 1..(n - 1) /\ l + 1 = k /\ ~(k <= l) /\ k \in 1..n /\ l \in 1..n
    BY <2>2, <2>3
  <2> HIDE DEF l
  <2>5. v[l] <= v[i] /\ v[k] <= v[l]
    BY <2>2, <2>4
  <2> QED
    BY <2>2, <2>4, <2>5
<1> QED
  BY <1>1

LEMMA NeverMoved ==
    ASSUME NEW n \in Nat, n > 5, NEW v, \A k \in 1..n : v[k] \in Int,
           \A k \in 1..(n - 1) : v[k + 1] <= v[k],
           v[n - 4] + v[n - 3] + v[n - 2] + v[n - 1] + v[n] >= v[1] + v[2] + v[3] + v[4] + v[5]
    PROVE  \A i \in 1..n : v[i] = v[1]
<1>1. \A i \in 1..n : \A j \in i..n : v[j] <= v[i]
  BY NeverRising
<1> DEFINE a1 == v[1]  a2 == v[2]  a3 == v[3]  a4 == v[4]  a5 == v[5]
           b1 == v[n - 4]  b2 == v[n - 3]  b3 == v[n - 2]  b4 == v[n - 1]  b5 == v[n]
<1>2. /\ a1 \in Int /\ a2 \in Int /\ a3 \in Int /\ a4 \in Int /\ a5 \in Int
      /\ b1 \in Int /\ b2 \in Int /\ b3 \in Int /\ b4 \in Int /\ b5 \in Int
  <2>1. /\ 1 \in 1..n /\ 2 \in 1..n /\ 3 \in 1..n /\ 4 \in 1..n /\ 5 \in 1..n
        /\ n - 4 \in 1..n /\ n - 3 \in 1..n /\ n - 2 \in 1..n /\ n - 1 \in 1..n /\ n \in 1..n
    OBVIOUS
  <2> QED
    BY <2>1
<1>3. /\ b1 <= a2 /\ b2 <= a3 /\ b3 <= a4 /\ b4 <= a5 /\ b5 <= a5
      /\ a2 <= a1 /\ a3 <= a2 /\ a4 <= a3 /\ a5 <= a4
  BY <1>1
<1>4. b1 + b2 + b3 + b4 + b5 >= a1 + a2 + a3 + a4 + a5
  OBVIOUS
<1>5. ASSUME NEW i \in 1..n PROVE b5 <= v[i] /\ v[i] <= a1 /\ v[i] \in Int
  BY <1>1
<1> HIDE DEF a1, a2, a3, a4, a5, b1, b2, b3, b4, b5
<1>6. b5 = a1
  BY <1>2, <1>3, <1>4
<1>7. ASSUME NEW i \in 1..n PROVE v[i] = a1
  <2>1. b5 <= v[i] /\ v[i] <= a1 /\ v[i] \in Int
    BY <1>5
  <2> HIDE DEF a1, b5
  <2> QED
    BY <1>2, <1>6, <2>1
<1> QED
  BY <1>7 DEF a1

\* In a long track an axis that is not displaced has been moved along both ways
\* or not at all; one that is displaced has been moved along that way.
LEMMA DisplacedByMoving ==
    ASSUME samples \in Seq(SampleData), Len(samples) > 5, NEW axis \in Axes
    PROVE  LET net == NetDisplacement(samples)[axis]
           IN  /\ net \in Int
               /\ net > 0 => Forth(axis)
               /\ net < 0 => Back(axis)
               /\ net = 0 /\ ~(Forth(axis) /\ Back(axis)) =>
                    /\ ~Forth(axis) /\ ~Back(axis)
                    /\ \A i \in 1..Len(samples) : samples[i].mask[axis] = samples[1].mask[axis]
<1> DEFINE n == Len(samples)
           net == NetDisplacement(samples)[axis]
           v == [i \in 1..n |-> samples[i].mask[axis]]
           w == [i \in 1..n |-> 0 - samples[i].mask[axis]]
           first == FirstFive(samples, axis)
           last == LastFive(samples, n, axis)
<1>1. n \in Nat /\ n > 5 /\ samples # <<>>
  OBVIOUS
<1>2. /\ \A i \in 1..n : v[i] = samples[i].mask[axis] /\ w[i] = 0 - v[i] /\ v[i] \in Int /\ w[i] \in Int
      /\ \A i \in 1..n : w[i] = 0 - samples[i].mask[axis]
  BY SumOnIsSum
<1>3. net = 12 * last - 12 * first
  BY <1>1, NetIs
<1>4. Forth(axis) <=> \E i \in 1..(n - 1) : v[i] < v[i + 1]
  <2>1. \A i \in 1..(n - 1) : i \in 1..n /\ i + 1 \in 1..n
    BY <1>1
  <2> QED
    BY <1>2, <2>1 DEF Forth
<1>5. Back(axis) <=> \E i \in 1..(n - 1) : v[i + 1] < v[i]
  <2>1. \A i \in 1..(n - 1) : i \in 1..n /\ i + 1 \in 1..n
    BY <1>1
  <2> QED
    BY <1>2, <2>1 DEF Back
<1>6. /\ first = v[1] + v[2] + v[3] + v[4] + v[5]
      /\ last = v[n - 4] + v[n - 3] + v[n - 2] + v[n - 1] + v[n]
      /\ 0 - first = w[1] + w[2] + w[3] + w[4] + w[5]
      /\ 0 - last = w[n - 4] + w[n - 3] + w[n - 2] + w[n - 1] + w[n]
      /\ first \in Int /\ last \in Int
  <2>1. /\ 1 \in 1..n /\ 2 \in 1..n /\ 3 \in 1..n /\ 4 \in 1..n /\ 5 \in 1..n
        /\ n - 4 \in 1..n /\ n - 3 \in 1..n /\ n - 2 \in 1..n /\ n - 1 \in 1..n /\ n \in 1..n
    BY <1>1
  <2>2. /\ first = v[1] + v[2] + v[3] + v[4] + v[5]
        /\ last = v[n - 4] + v[n - 3] + v[n - 2] + v[n - 1] + v[n]
    BY <1>2, <2>1 DEF FirstFive, LastFive
  <2>3. /\ v[1] \in Int /\ v[2] \in Int /\ v[3] \in Int /\ v[4] \in Int /\ v[5] \in Int
        /\ w[1] = 0 - v[1] /\ w[2] = 0 - v[2] /\ w[3] = 0 - v[3] /\ w[4] = 0 - v[4] /\ w[5] = 0 - v[5]
    BY <1>2, <2>1
  <2>4. /\ v[n - 4] \in Int /\ v[n - 3] \in Int /\ v[n - 2] \in Int /\ v[n - 1] \in Int /\ v[n] \in Int
        /\ w[n - 4] = 0 - v[n - 4] /\ w[n - 3] = 0 - v[n - 3] /\ w[n - 2] = 0 - v[n - 2]
        /\ w[n - 1] = 0 - v[n - 1] /\ w[n] = 0 - v[n]
    BY <1>2, <2>1
  <2> HIDE DEF v, w, first, last, n
  <2>5. first \in Int /\ 0 - first = w[1] + w[2] + w[3] + w[4] + w[5]
    <3> DEFINE a1 == v[1]  a2 == v[2]  a3 == v[3]  a4 == v[4]  a5 == v[5]
               c1 == w[1]  c2 == w[2]  c3 == w[3]  c4 == w[4]  c5 == w[5]
    <3>1. /\ a1 \in Int /\ a2 \in Int /\ a3 \in Int /\ a4 \in Int /\ a5 \in Int
          /\ c1 = 0 - a1 /\ c2 = 0 - a2 /\ c3 = 0 - a3 /\ c4 = 0 - a4 /\ c5 = 0 - a5
          /\ first = a1 + a2 + a3 + a4 + a5
      BY Zenon, <2>2, <2>3
    <3> HIDE DEF a1, a2, a3, a4, a5, c1, c2, c3, c4, c5
    <3>2. first \in Int /\ 0 - first = c1 + c2 + c3 + c4 + c5
      BY <3>1
    <3> QED
      BY Zenon, <3>2 DEF c1, c2, c3, c4, c5
  <2>6. last \in Int /\ 0 - last = w[n - 4] + w[n - 3] + w[n - 2] + w[n - 1] + w[n]
    <3> DEFINE a1 == v[n - 4]  a2 == v[n - 3]  a3 == v[n - 2]  a4 == v[n - 1]  a5 == v[n]
               c1 == w[n - 4]  c2 == w[n - 3]  c3 == w[n - 2]  c4 == w[n - 1]  c5 == w[n]
    <3>1. /\ a1 \in Int /\ a2 \in Int /\ a3 \in Int /\ a4 \in Int /\ a5 \in Int
          /\ c1 = 0 - a1 /\ c2 = 0 - a2 /\ c3 = 0 - a3 /\ c4 = 0 - a4 /\ c5 = 0 - a5
          /\ last = a1 + a2 + a3 + a4 + a5
      BY Zenon, <2>2, <2>4
    <3> HIDE DEF a1, a2, a3, a4, a5, c1, c2, c3, c4, c5
    <3>2. last \in Int /\ 0 - last = c1 + c2 + c3 + c4 + c5
      BY <3>1
    <3> QED
      BY Zenon, <3>2 DEF c1, c2, c3, c4, c5
  <2> QED
    BY <2>2, <2>5, <2>6
<1> HIDE DEF n, v, w, first, last, net
\* Never moved forth and not displaced back: at rest.
<1>7. ASSUME ~Forth(axis), net >= 0 PROVE \A i \in 1..n : v[i] = v[1]
  <2>1. \A k \in 1..(n - 1) : v[k + 1] <= v[k]
    <3> SUFFICES ASSUME NEW k \in 1..(n - 1) PROVE v[k + 1] <= v[k]
      OBVIOUS
    <3>1. k \in 1..n /\ k + 1 \in 1..n /\ ~(v[k] < v[k + 1])
      BY <1>1, <1>4, <1>7
    <3> QED
      BY <1>2, <3>1
  <2>2. last >= first
    BY <1>3, <1>6, <1>7
  <2> QED
    BY <1>1, <1>2, <1>6, <2>1, <2>2, NeverMoved
<1>8. ASSUME ~Back(axis), net <= 0 PROVE \A i \in 1..n : v[i] = v[1]
  <2>1. \A k \in 1..(n - 1) : w[k + 1] <= w[k]
    <3> SUFFICES ASSUME NEW k \in 1..(n - 1) PROVE w[k + 1] <= w[k]
      OBVIOUS
    <3>1. k \in 1..n /\ k + 1 \in 1..n /\ ~(v[k + 1] < v[k])
      BY <1>1, <1>5, <1>8
    <3> QED
      BY <1>2, <3>1
  <2>2. 0 - last >= 0 - first
    BY <1>3, <1>6, <1>8
  <2>3. \A i \in 1..n : w[i] = w[1]
    BY <1>1, <1>2, <1>6, <2>1, <2>2, NeverMoved
  <2>4. 1 \in 1..n
    BY <1>1
  <2> QED
    BY <1>2, <2>3, <2>4
<1>9. ASSUME \A i \in 1..n : v[i] = v[1] PROVE net = 0 /\ ~Forth(axis) /\ ~Back(axis)
  <2>1. 1 \in 1..n /\ v[1] \in Int
    BY <1>1, <1>2
  <2>2. net = 0
    <3>1. /\ 2 \in 1..n /\ 3 \in 1..n /\ 4 \in 1..n /\ 5 \in 1..n
          /\ n - 4 \in 1..n /\ n - 3 \in 1..n /\ n - 2 \in 1..n /\ n - 1 \in 1..n /\ n \in 1..n
      BY <1>1
    <3>2. first = last
      BY <1>6, <1>9, <2>1, <3>1
    <3> QED
      BY <1>3, <1>6, <3>2
  <2>3. \A i \in 1..(n - 1) : v[i] = v[1] /\ v[i + 1] = v[1]
    BY <1>1, <1>9
  <2> QED
    BY <1>4, <1>5, <2>1, <2>2, <2>3
<1>10. net \in Int
  BY <1>3, <1>6
<1>11. net > 0 => Forth(axis)
  BY <1>7, <1>9, <1>10
<1>12. net < 0 => Back(axis)
  BY <1>8, <1>9, <1>10
<1>13. net = 0 /\ ~(Forth(axis) /\ Back(axis)) =>
         ~Forth(axis) /\ ~Back(axis) /\ \A i \in 1..n : v[i] = v[1]
  BY <1>7, <1>8, <1>9, <1>10
<1>14. 1 \in 1..n
  BY <1>1
<1> QED
  BY <1>2, <1>10, <1>11, <1>12, <1>13, <1>14 DEF n, net

\* An object that is in the same place in every sample is stationary.
LEMMA RestIsStationary ==
    ASSUME samples \in Seq(SampleData), Len(samples) > 5,
           \A axis \in Axes : \A i \in 1..Len(samples) :
              samples[i].mask[axis] = samples[1].mask[axis],
           NetDisplacement(samples).x = 0, NetDisplacement(samples).y = 0
    PROVE  MotionEventType(samples) = "stationary"
<1> DEFINE n == Len(samples)
           S == 1..(n - 1)
           f == Steps(samples)
           c(i) == SmoothedCentroid(samples, i)
<1>1. n \in Nat /\ n > 5 /\ samples # <<>> /\ 1 \in 1..n
  OBVIOUS
<1>2. \A i \in 1..n : c(i) \in Places /\ \A axis \in Axes : c(i)[axis] = 60 * samples[1].mask[axis]
  <2> SUFFICES ASSUME NEW i \in 1..n, NEW axis \in Axes
               PROVE  c(i) \in Places /\ c(i)[axis] = 60 * samples[1].mask[axis]
    BY DEF Axes
  <2>1. samples[1].mask[axis] \in Nat
    BY <1>1, SumOnIsSum
  <2> QED
    BY <2>1, SmoothedIs
<1>3. \A i \in S : f[i] = 0
  <2> SUFFICES ASSUME NEW i \in S PROVE Distance(c(i), c(i + 1)) = 0
    BY DEF Steps
  <2>1. i \in 1..n /\ i + 1 \in 1..n
    BY <1>1
  <2> HIDE DEF c
  <2>2. c(i) \in Places /\ c(i + 1) \in Places /\ c(i).x = c(i + 1).x /\ c(i).y = c(i + 1).y
    BY <1>2, <2>1 DEF Axes
  <2>3. Distance(c(i), c(i)) = 0
    BY <2>2, DistanceIs
  <2> QED
    BY <2>2, <2>3 DEF Distance
<1>4. PathDisplacement(samples) = 0
  <2>1. IsFiniteSet(S) /\ HasSum(PathDisplacement(samples), f, S)
    BY <1>1, PathIsSum
  <2> HIDE DEF S, f
  <2>2. PICK sum : Sums(sum, f, S) /\ PathDisplacement(samples) = sum[S]
    BY <2>1 DEF HasSum
  <2> QED
    BY <1>3, <2>1, <2>2, ZerosSumToZero
<1>5. Hypot(0, 0) = 0
  <2>1. Hypot(0, 0) \in Nat /\ Hypot(0, 0) <= 0
    BY HypotIs
  <2> QED
    BY <2>1
<1>6. TwiceDisplacement(samples) = 0
  BY <1>1, <1>4, <1>5 DEF TwiceDisplacement, Larger
<1> QED
  BY <1>6, BoundsAssumption DEF MotionEventType, STATIONARY_DISPLACEMENT_RATIO

\* What may be said of the samples.
NamedOnly(description) ==
    /\ description \in {"right", "down-right", "up-right"} => Forth("x")
    /\ description \in {"left", "down-left", "up-left"} => Back("x")
    /\ description \in {"down", "down-right", "down-left"} => Forth("y")
    /\ description \in {"up", "up-right", "up-left"} => Back("y")

LEMMA DirectionIsRight ==
    ASSUME samples \in Seq(SampleData), Len(samples) > 5, ~UpAndDown
    PROVE  NamedOnly(MotionDescription(samples))
<1> DEFINE dx == NetDisplacement(samples).x
           dy == NetDisplacement(samples).y
           direction == MotionDirection(samples)
<1>1. "x" \in Axes /\ "y" \in Axes /\ \A axis \in Axes : axis = "x" \/ axis = "y"
  BY DEF Axes
<1>2. /\ dx \in Int /\ (dx > 0 => Forth("x")) /\ (dx < 0 => Back("x"))
      /\ dy \in Int /\ (dy > 0 => Forth("y")) /\ (dy < 0 => Back("y"))
  BY <1>1, DisplacedByMoving
<1>3. CASE dx = 0 /\ dy = 0 /\ ~Forth("x")
  <2>1. /\ ~Forth("x") /\ ~Back("x")
        /\ \A i \in 1..Len(samples) : samples[i].mask.x = samples[1].mask.x
    BY <1>1, <1>3, DisplacedByMoving
  <2>2. \A i \in 1..Len(samples) : samples[i].mask.y = samples[1].mask.y
    <3>1. ~(Forth("y") /\ Back("y"))
      BY <1>3, <2>1 DEF UpAndDown
    <3> QED
      BY <1>1, <1>3, <3>1, DisplacedByMoving
  <2>3. MotionEventType(samples) = "stationary"
    BY <1>1, <1>3, <2>1, <2>2, RestIsStationary
  <2> QED
    BY <2>3 DEF MotionDescription, NamedOnly
<1>4. CASE ~(dx = 0 /\ dy = 0 /\ ~Forth("x"))
  <2>1. /\ 2 * Abs(dx) >= 3 * Abs(dy) => (dx = 0 => dy = 0)
        /\ ~(2 * Abs(dx) >= 3 * Abs(dy)) => dy # 0
        /\ ~(2 * Abs(dy) >= 3 * Abs(dx)) => dx # 0
    <3> HIDE DEF dx, dy
    <3> QED
      BY <1>2 DEF Abs, Larger
  <2>2. direction =
          IF 2 * Abs(dx) >= 3 * Abs(dy) THEN (IF dx >= 0 THEN "right" ELSE "left")
          ELSE IF 2 * Abs(dy) >= 3 * Abs(dx) THEN (IF dy >= 0 THEN "down" ELSE "up")
          ELSE IF dx >= 0 THEN (IF dy >= 0 THEN "down-right" ELSE "up-right")
          ELSE (IF dy >= 0 THEN "down-left" ELSE "up-left")
    BY DEF MotionDirection
  <2> HIDE DEF dx, dy, direction
  <2>3. /\ direction = "right" => dx >= 0 /\ (dx = 0 => dy = 0)
        /\ direction \in {"down-right", "up-right"} => dx > 0
        /\ direction \in {"left", "down-left", "up-left"} => dx < 0
        /\ direction \in {"down", "down-right", "down-left"} => dy > 0
        /\ direction \in {"up", "up-right", "up-left"} => dy < 0
    BY <1>2, <2>1, <2>2
  <2>4. NamedOnly(direction)
    BY <1>2, <1>4, <2>3 DEF NamedOnly
  <2>5. NamedOnly("stationary")
    BY DEF NamedOnly
  <2> QED
    BY <2>4, <2>5 DEF MotionDescription, direction
<1> QED
  BY <1>3, <1>4

-----------------------------------------------------------------------------
(***************************************************************************)
(* What the events of the samples tell.                                    *)
(***************************************************************************)
SeenFrames == {f - 1 : f \in {g \in DOMAIN points : points[g] # NoMask}}

Described ==
    IF samples = <<>> THEN {NoUsableMasks}
    ELSE Sightings
         \cup {Event("scale_change", FirstSeen, LastSeen + 1, d) :
                 d \in {ScaleChange(samples)} \ {"none"}}
         \cup (IF Uncertain(samples)
               THEN {Event("uncertain", FirstSeen, LastSeen + 1, "sparse or low-confidence masks")}
               ELSE {})

\* The events told are about frames in which the object was seen.
TellsFrames(told) ==
    IF SeenFrames = {} THEN told = {NoUsableMasks}
    ELSE \A e \in told : e.start < e.end /\ e.start \in SeenFrames /\ e.end - 1 \in SeenFrames

TellsMotion(told) ==
    /\ \A e \in told : e.type = "stationary" => Stays
    /\ Len(samples) > 5 => (\A e \in told : NamedOnly(e.description)) \/ UpAndDown

\* An event of a track that was seen is a sighting, a change of size or a doubt.
LEMMA WhatIsTold ==
    ASSUME samples # <<>>, NEW e \in Described
    PROVE  /\ \/ e.start = FirstSeen /\ e.end = FirstSeen + 1
              \/ e.start = LastSeen /\ e.end = LastSeen + 1
              \/ e.start = FirstSeen /\ e.end = LastSeen + 1
           /\ e.type = "stationary" => MotionEventType(samples) = "stationary"
           /\ NamedOnly(e.description) \/ e.description = MotionDescription(samples)
<1> DEFINE first == FirstSeen
           last == LastSeen
           motion == MotionEventType(samples)
           direction == MotionDescription(samples)
           scale == ScaleChange(samples)
<1>1. \/ e = Event("appearance", first, first + 1, "appears")
      \/ e = Event("disappearance", last, last + 1, "disappears")
      \/ e = Event(motion, first, last + 1, direction)
      \/ e = Event("scale_change", first, last + 1, scale)
      \/ e = Event("uncertain", first, last + 1, "sparse or low-confidence masks")
  BY DEF Described, Sightings
<1>2. /\ NamedOnly("appears") /\ NamedOnly("disappears") /\ NamedOnly(scale)
      /\ NamedOnly("sparse or low-confidence masks")
  BY DEF ScaleChange, NamedOnly
<1> HIDE DEF first, last, motion, direction, scale
<1>3. /\ \/ e.start = first /\ e.end = first + 1
         \/ e.start = last /\ e.end = last + 1
         \/ e.start = first /\ e.end = last + 1
      /\ e.type = "stationary" => motion = "stationary"
      /\ NamedOnly(e.description) \/ e.description = direction
  <2>1. CASE e = Event("appearance", first, first + 1, "appears")
    BY <1>2, <2>1 DEF Event
  <2>2. CASE e = Event("disappearance", last, last + 1, "disappears")
    BY <1>2, <2>2 DEF Event
  <2>3. CASE e = Event(motion, first, last + 1, direction)
    BY <2>3 DEF Event
  <2>4. CASE e = Event("scale_change", first, last + 1, scale)
    BY <1>2, <2>4 DEF Event
  <2>5. CASE e = Event("uncertain", first, last + 1, "sparse or low-confidence masks")
    BY <1>2, <2>5 DEF Event
  <2> QED
    BY <1>1, <2>1, <2>2, <2>3, <2>4, <2>5
<1> QED
  BY <1>3 DEF first, last, motion, direction

LEMMA DescribedTells ==
    ASSUME NEW n \in Nat, points \in [1..n -> Masks \cup {NoMask}], SamplesOf(samples, n)
    PROVE  TellsFrames(Described) /\ TellsMotion(Described)
<1>1. /\ samples \in Seq(SampleData) /\ Len(samples) \in Nat
      /\ \A i \in 1..Len(samples) : /\ samples[i].frame \in Nat /\ samples[i].frame + 1 \in 1..n
                                    /\ points[samples[i].frame + 1] # NoMask
      /\ \A f \in 1..n : points[f] # NoMask => \E i \in 1..Len(samples) : samples[i].frame = f - 1
      /\ \A i, j \in 1..Len(samples) : i < j => samples[i].frame < samples[j].frame
  <2>1. samples \in Seq(SampleData) /\ Len(samples) \in Nat
    BY DEF SamplesOf
  <2>2. \A i \in 1..Len(samples) : samples[i] \in SampleData
    BY <2>1
  <2>3. \A i \in 1..Len(samples) : samples[i].frame \in Nat
    BY <2>2 DEF SampleData
  <2> QED
    BY <2>1, <2>3 DEF SamplesOf
<1>2. CASE samples = <<>>
  <2>1. SeenFrames = {}
    BY <1>1, <1>2 DEF SeenFrames
  <2>2. Described = {NoUsableMasks}
    BY <1>2 DEF Described
  <2>3. NoUsableMasks.type # "stationary" /\ ~(Len(samples) > 5)
    BY <1>2 DEF NoUsableMasks, Event
  <2> QED
    BY <2>1, <2>2, <2>3 DEF TellsFrames, TellsMotion
<1>3. CASE samples # <<>>
  <2> DEFINE m == Len(samples)
  <2>1. m \in Nat \ {0} /\ 1 \in 1..m /\ m \in 1..m
    BY <1>1, <1>3
  <2>2. \A i \in 1..m : samples[i].frame \in SeenFrames
    <3> SUFFICES ASSUME NEW i \in 1..m PROVE samples[i].frame \in SeenFrames
      OBVIOUS
    <3> DEFINE g == samples[i].frame + 1
    <3>1. g \in DOMAIN points /\ points[g] # NoMask /\ samples[i].frame = g - 1
      BY <1>1
    <3> HIDE DEF g
    <3> QED
      BY <3>1 DEF SeenFrames
  <2>3. FirstSeen \in SeenFrames /\ LastSeen \in SeenFrames /\ FirstSeen \in Nat /\ LastSeen \in Nat
    BY <1>1, <2>1, <2>2 DEF FirstSeen, LastSeen
  <2>4. FirstSeen <= LastSeen
    <3>1. CASE m = 1
      BY <2>3, <3>1 DEF FirstSeen, LastSeen
    <3>2. CASE m # 1
      <4>1. 1 < m
        <5> HIDE DEF m
        <5> QED
          BY <2>1, <3>2
      <4> QED
        BY <1>1, <2>1, <2>3, <4>1 DEF FirstSeen, LastSeen
    <3> QED
      BY <3>1, <3>2
  <2>5. TellsFrames(Described)
    <3>1. SeenFrames # {}
      BY <2>3
    <3> SUFFICES ASSUME NEW e \in Described
                 PROVE  e.start < e.end /\ e.start \in SeenFrames /\ e.end - 1 \in SeenFrames
      BY <3>1 DEF TellsFrames
    <3>2. \/ e.start = FirstSeen /\ e.end = FirstSeen + 1
          \/ e.start = LastSeen /\ e.end = LastSeen + 1
          \/ e.start = FirstSeen /\ e.end = LastSeen + 1
      BY <1>3, WhatIsTold
    <3>3. (FirstSeen + 1) - 1 = FirstSeen /\ (LastSeen + 1) - 1 = LastSeen
      BY <2>3
    <3> QED
      BY <2>3, <2>4, <3>2, <3>3
  <2>6. ASSUME NEW e \in Described, e.type = "stationary" PROVE Stays
    <3>1. MotionEventType(samples) = "stationary"
      BY <1>3, <2>6, WhatIsTold
    <3> QED
      BY <1>1, <1>3, <3>1, StationaryStays
  <2>7. ASSUME Len(samples) > 5, ~UpAndDown, NEW e \in Described PROVE NamedOnly(e.description)
    BY <1>1, <1>3, <2>7, WhatIsTold, DirectionIsRight
  <2> QED
    BY <2>5, <2>6, <2>7 DEF TellsMotion
<1> QED
  BY <1>2, <1>3

LEMMA TellingIsEnough ==
    ASSUME TellsFrames(events), TellsMotion(events)
    PROVE  EventsTellTheTrack
  BY DEF TellsFrames, TellsMotion, SeenFrames, EventsTellTheTrack, DirectionAgrees,
         NamedOnly, MOTION_SMOOTHING_WINDOW

-----------------------------------------------------------------------------
(***************************************************************************)
(* The inductive invariant: the samples, once taken, are those of the      *)
(* track's points, and the events, once described, those of the samples.   *)
(***************************************************************************)
ObjectInv ==
    /\ \E n \in 1..MaxPoints : points \in [1..n -> Masks \cup {NoMask}]
    /\ step \in {"sample", "describe", "done"}
    /\ step # "sample" => SamplesOf(samples, Len(points))
    /\ step = "done" => events = Described

LEMMA ObjectInvHolds == ObjectSpec => []ObjectInv
<1>1. ObjectInit => ObjectInv
  BY DEF ObjectInit, ObjectInv
<1>2. ObjectInv /\ [ObjectNext]_objectVars => ObjectInv'
  <2> SUFFICES ASSUME ObjectInv, [ObjectNext]_objectVars PROVE ObjectInv'
    OBVIOUS
  <2>1. PICK n \in 1..MaxPoints : points \in [1..n -> Masks \cup {NoMask}]
    BY DEF ObjectInv
  <2>2. n \in Nat /\ Len(points) = n
    BY <2>1, BoundsAssumption
  <2>3. CASE TakeSample
    <3>1. points' = points /\ samples' = TrackSamples /\ step' = "describe"
      BY <2>3 DEF TakeSample
    <3>2. SamplesOf(TrackSamples, n)
      BY <2>1, <2>2, TrackSamplesAre
    <3>3. SamplesOf(samples, Len(points))'
      BY <2>2, <3>1, <3>2 DEF SamplesOf
    <3> QED
      BY <2>1, <3>1, <3>3 DEF ObjectInv
  <2>4. CASE Describe
    <3>1. points' = points /\ samples' = samples /\ step' = "done" /\ step = "describe"
          /\ events' = Described
      BY <2>4 DEF Describe, Described
    <3>2. SamplesOf(samples, Len(points))'
      BY <3>1 DEF ObjectInv, SamplesOf
    <3>3. (events = Described)'
      BY <3>1 DEF Described, Sightings, FirstSeen, LastSeen, NoUsableMasks
    <3> QED
      BY <2>1, <3>1, <3>2, <3>3 DEF ObjectInv
  <2>5. CASE UNCHANGED objectVars
    <3>1. points' = points /\ samples' = samples /\ step' = step /\ events' = events
      BY <2>5 DEF objectVars
    <3>2. SamplesOf(samples, Len(points))' = SamplesOf(samples, Len(points))
      BY <3>1 DEF SamplesOf
    <3>3. (events = Described)' = (events = Described)
      BY <3>1 DEF Described, Sightings, FirstSeen, LastSeen, NoUsableMasks
    <3> QED
      BY <3>1, <3>2, <3>3 DEF ObjectInv
  <2> QED
    BY <2>3, <2>4, <2>5 DEF ObjectNext
<1> QED
  BY <1>1, <1>2, PTL DEF ObjectSpec

\* The events described of a track lie in frames in which the object was seen;
\* an object said to be stationary never strays; and in a track of more than five
\* samples an object is only said to move in directions in which it does move,
\* unless it goes up and down and ends where it began (_object_visual_events).
THEOREM EventsAlwaysTellTheTrack == ObjectSpec => []EventsTellTheTrack
<1>1. ObjectInv => EventsTellTheTrack
  <2> SUFFICES ASSUME ObjectInv, step = "done" PROVE EventsTellTheTrack
    BY DEF EventsTellTheTrack
  <2>1. PICK n \in 1..MaxPoints : points \in [1..n -> Masks \cup {NoMask}]
    BY DEF ObjectInv
  <2>2. n \in Nat /\ Len(points) = n
    BY <2>1, BoundsAssumption
  <2>3. SamplesOf(samples, n) /\ events = Described
    BY <2>2 DEF ObjectInv
  <2>4. TellsFrames(Described) /\ TellsMotion(Described)
    BY <2>1, <2>2, <2>3, DescribedTells
  <2> QED
    BY <2>3, <2>4, TellingIsEnough
<1> QED
  BY <1>1, ObjectInvHolds, PTL

-----------------------------------------------------------------------------
(***************************************************************************)
(* The stages.  Objects are the tracks they were built from, under the     *)
(* number of their layer, so that an id has one track and a track at most  *)
(* one id; a track is in its scene.                                        *)
(***************************************************************************)
TracksOK ==
    /\ lastId \in Nat
    /\ \A t \in tracks : t.id \in Nat /\ t.id <= lastId /\ t.scene \in Scenes
                          /\ t.shape \in Shapes[t.scene]
    /\ \A t, u \in tracks : t.id = u.id => t = u

ObjectsOf(n) == {o \in VisualObject : o.id = <<n, o.track>>}

LayerOK ==
    /\ builds \in Nat
    /\ layer \in LayerRecord \cup {None}
    /\ layer # None => \E n \in Nat : layer.objects \subseteq ObjectsOf(n)

\* The objects are those of the tracks.
Matches == layer # None /\ {o.track : o \in layer.objects} = {t.id : t \in tracks}

LayerInv ==
    /\ TracksOK /\ LayerOK
    /\ matched => Matches
    /\ EventsKnowTheirObjects /\ EventsOfCurrentTracks

LEMMA InitLayerInv == ASSUME LayerInit PROVE LayerInv
  BY DEF LayerInit, LayerInv, TracksOK, LayerOK, EventsKnowTheirObjects, EventsOfCurrentTracks, Events

\* Tracking finds new tracks, scene by scene.
LEMMA TrackKeeps ==
    ASSUME LayerInv, NEW selected \in SUBSET Scenes, Track(selected) PROVE LayerInv'
<1>1. PICK found \in Finds(selected) :
        /\ tracks' = {t \in tracks : t.scene \notin selected}
                      \cup {[id |-> lastId + i, scene |-> found[i].scene, shape |-> found[i].shape] :
                               i \in DOMAIN found}
        /\ lastId' = lastId + Len(found)
  BY DEF Track
<1> DEFINE seen == UNION {{[scene |-> s, shape |-> h] : h \in Shapes[s]} : s \in selected}
<1>2. PICK n \in Nat : found \in [1..n -> seen] /\ Len(found) = n /\ DOMAIN found = 1..n
  <2>1. PICK n \in 0..MaxFound : found \in [1..n -> seen]
    BY DEF Finds
  <2> QED  BY <2>1, LayerBoundsAssumption
<1>3. \A x \in seen : x.scene \in Scenes /\ x.shape \in Shapes[x.scene]
  OBVIOUS
<1>4. \A i \in 1..n : found[i].scene \in Scenes /\ found[i].shape \in Shapes[found[i].scene]
  BY <1>2, <1>3
<1> HIDE DEF seen
<1> DEFINE new(i) == [id |-> lastId + i, scene |-> found[i].scene, shape |-> found[i].shape]
<1>5. \A t \in tracks' : t \in tracks \/ \E i \in 1..n : t = new(i)
  BY <1>1, <1>2
<1>6. \A i \in 1..n : /\ new(i).id = lastId + i
                      /\ new(i).scene \in Scenes /\ new(i).shape \in Shapes[new(i).scene]
  BY <1>4
<1> HIDE DEF new
<1>7. TracksOK'
  <2>1. lastId \in Nat /\ lastId' \in Nat /\ lastId <= lastId'
    BY <1>1, <1>2 DEF LayerInv, TracksOK
  <2>2. ASSUME NEW t \in tracks'
        PROVE  /\ t.id \in Nat /\ t.id <= lastId' /\ t.scene \in Scenes /\ t.shape \in Shapes[t.scene]
               /\ \/ t \in tracks /\ t.id <= lastId
                  \/ \E i \in 1..n : t = new(i) /\ t.id = lastId + i
    <3>1. CASE t \in tracks
      BY <2>1, <3>1 DEF LayerInv, TracksOK
    <3>2. CASE \E i \in 1..n : t = new(i)
      BY <1>1, <1>2, <1>6, <2>1, <3>2
    <3> QED  BY <1>5, <3>1, <3>2
  <2>3. ASSUME NEW t \in tracks', NEW u \in tracks', t.id = u.id PROVE t = u
    BY <2>1, <2>2, <2>3 DEF LayerInv, TracksOK
  <2> QED  BY <2>1, <2>2, <2>3 DEF TracksOK
<1>8. UNCHANGED <<layer, builds>> /\ ~matched' /\ ~current'
  BY DEF Track
<1> QED
  BY <1>7, <1>8 DEF LayerInv, LayerOK, EventsKnowTheirObjects, EventsOfCurrentTracks,
     Events, Objects, ObjectIds

LEMMA BuildKeeps == ASSUME LayerInv, Build PROVE LayerInv'
<1> DEFINE made == ObjectsOfTracks
<1>1. /\ layer' = [objects |-> made, events |-> {}] /\ builds' = builds + 1 /\ builds' \in Nat
      /\ UNCHANGED <<tracks, lastId>> /\ matched' /\ ~current'
  BY DEF Build, LayerInv, LayerOK
<1>2. made \subseteq ObjectsOf(builds')
  BY <1>1 DEF ObjectsOfTracks, ObjectsOf, VisualObject, ObjectId, LayerInv, TracksOK
<1>3. {o.track : o \in made} = {t.id : t \in tracks}
  <2>1. ASSUME NEW t \in tracks PROVE \E o \in made : o.track = t.id
    <3>1. [id |-> <<builds', t.id>>, track |-> t.id] \in made
      BY DEF ObjectsOfTracks
    <3> QED  BY <3>1
  <2>2. ASSUME NEW o \in made PROVE \E t \in tracks : o.track = t.id
    BY DEF ObjectsOfTracks
  <2> QED  BY <2>1, <2>2
<1> HIDE DEF made
<1>4. layer' \in LayerRecord /\ layer' # None /\ layer'.objects = made /\ layer'.events = {}
  BY <1>1, <1>2, NoneAssumption DEF LayerRecord, ObjectsOf
<1> QED
  BY <1>1, <1>2, <1>3, <1>4 DEF LayerInv, TracksOK, LayerOK, Matches, EventsKnowTheirObjects,
     EventsOfCurrentTracks, Events
-----------------------------------------------------------------------------
(***************************************************************************)
(* The computation of the events.                                          *)
(***************************************************************************)
\* An event is within the scene of a track that is there.
Located(e) ==
    \E o \in layer.objects, t \in tracks :
        /\ e.object = o.id /\ o.track = t.id
        /\ e.start..(e.end - 1) \subseteq t.scene
        /\ e.start < e.end

\* x is told of its contact with y over the frames r.
TellsContact(e, x, y, r) ==
    /\ e.object = x.object /\ e.related = {y.object} /\ e.type = "contact"
    /\ e.start = FirstFrame(r) /\ e.end = LastFrame(r) + 1

\* The tracks of the objects: each object has at most one, of the same id.
LEMMA TracksOfObjects ==
    ASSUME LayerInv, layer # None, NEW ot \in VisualObjectTracks
    PROVE  \E o \in layer.objects, t \in tracks :
              /\ o.id = ot.object /\ o.track = t.id /\ t.shape = ot.shape
              /\ ot.object \in ObjectId /\ ot.object[2] = t.id
<1>1. PICK o \in layer.objects, t \in tracks :
        o.track = t.id /\ ot = [object |-> o.id, shape |-> t.shape]
  BY DEF VisualObjectTracks
<1>2. PICK n \in Nat : o \in ObjectsOf(n)
  BY DEF LayerInv, LayerOK
<1>3. o.id = <<n, t.id>> /\ o.id \in ObjectId
  BY <1>1, <1>2 DEF ObjectsOf, VisualObject
<1> QED
  BY <1>1, <1>3

\* Two of them with one id are one.
LEMMA OneTrackOfObject ==
    ASSUME LayerInv, layer # None, NEW a \in VisualObjectTracks, NEW b \in VisualObjectTracks,
           a.object = b.object
    PROVE  a = b
<1>1. PICK o \in layer.objects, t \in tracks :
        /\ a = [object |-> o.id, shape |-> t.shape] /\ o.track = t.id
  BY DEF VisualObjectTracks
<1>2. PICK p \in layer.objects, u \in tracks :
        /\ b = [object |-> p.id, shape |-> u.shape] /\ p.track = u.id
  BY DEF VisualObjectTracks
<1>3. PICK n \in Nat : layer.objects \subseteq ObjectsOf(n)
  BY DEF LayerInv, LayerOK
<1>4. o.id = <<n, t.id>> /\ p.id = <<n, u.id>> /\ o.id = p.id
  BY <1>1, <1>2, <1>3 DEF ObjectsOf
<1>5. t.id = u.id
  BY <1>4
<1>6. t = u
  BY <1>5 DEF LayerInv, TracksOK
<1> QED
  BY <1>1, <1>2, <1>4, <1>6

\* Frames of a track are in its scene, and so is all that lies between them.
LEMMA FramesOfScene ==
    ASSUME LayerInv, NEW t \in tracks, NEW T, T \subseteq t.shape.points, T # {}
    PROVE  /\ FirstFrame(T) \in Nat /\ LastFrame(T) \in Nat
           /\ FirstFrame(T) < LastFrame(T) + 1
           /\ FirstFrame(T)..(LastFrame(T) + 1 - 1) \subseteq t.scene
<1>1. t.scene \in Scenes /\ t.shape \in Shapes[t.scene]
  BY DEF LayerInv, TracksOK
<1>2. T \subseteq t.scene
  BY <1>1, ShapesAssumption
<1>3. PICK a \in Nat, b \in Nat : t.scene = a..b
  BY <1>1, ScenesAssumption
<1>4. FirstFrame(T) \in T /\ LastFrame(T) \in T /\ FirstFrame(T) <= LastFrame(T)
  BY <1>2, <1>3, FirstFrameIs, LastFrameIs
<1> QED
  BY <1>2, <1>3, <1>4

\* What the events of one object and of a pair of objects are like.
LEMMA EventOfObject ==
    ASSUME LayerInv, layer # None, NEW ot \in VisualObjectTracks
    PROVE  \E e \in VisualEvent : /\ ObjectEvents(ot) = {e}
                                  /\ e.object = ot.object
                                  /\ e.related = {} /\ e.type # "contact"
                                  /\ Located(e)
<1>1. PICK o \in layer.objects, t \in tracks :
        /\ o.id = ot.object /\ o.track = t.id /\ t.shape = ot.shape /\ ot.object \in ObjectId
  BY TracksOfObjects
<1> DEFINE sampled == DOMAIN ot.shape.samples
           T == IF sampled = {} THEN ot.shape.points ELSE sampled
           type == IF sampled = {} THEN "uncertain" ELSE "motion"
           e == LayerEvent(ot.object, type, T, {})
<1>2. ObjectEvents(ot) = {e}
  BY DEF ObjectEvents
<1>3. T \subseteq t.shape.points /\ T # {}
  BY <1>1, ShapesAssumption DEF LayerInv, TracksOK
<1>4. type \in {"uncertain", "motion"}
  OBVIOUS
<1> HIDE DEF T, type
<1>5. /\ FirstFrame(T) \in Nat /\ LastFrame(T) \in Nat
      /\ FirstFrame(T) < LastFrame(T) + 1
      /\ FirstFrame(T)..(LastFrame(T) + 1 - 1) \subseteq t.scene
  BY <1>3, FramesOfScene
<1>6. /\ e.object = ot.object /\ e.related = {} /\ e.type = type
      /\ e.start = FirstFrame(T) /\ e.end = LastFrame(T) + 1
  BY DEF LayerEvent
<1>7. e \in VisualEvent
  BY <1>1, <1>4, <1>5 DEF VisualEvent, LayerEvent
<1> HIDE DEF e
<1>8. Located(e)
  BY <1>1, <1>5, <1>6 DEF Located
<1> QED
  BY <1>2, <1>4, <1>6, <1>7, <1>8

LEMMA ContactOfPair ==
    ASSUME LayerInv, layer # None,
           NEW x \in VisualObjectTracks, NEW y \in VisualObjectTracks,
           x.object # y.object, NEW r \in Contact(x, y) \cup Contact(y, x),
           NEW e, e = LayerEvent(x.object, "contact", r, {y.object})
    PROVE  e \in VisualEvent /\ TellsContact(e, x, y, r) /\ Located(e)
<1>1. PICK o \in layer.objects, t \in tracks :
        /\ o.id = x.object /\ o.track = t.id /\ t.shape = x.shape /\ x.object \in ObjectId
  BY TracksOfObjects
<1>2. y.object \in ObjectId
  BY TracksOfObjects
<1>3. Together(y, x) = Together(x, y)
  BY DEF Together
<1>4. PICK f, g \in Together(x, y) : r = f..g /\ IsMaximalRun(Together(x, y), f, g)
  BY <1>3 DEF Contact, MaximalRuns
<1>5. r \subseteq Together(x, y) /\ r # {}
  <2>1. f \in Nat /\ g \in Nat
    <3>1. t.shape.points \subseteq Nat /\ DOMAIN t.shape.samples \subseteq t.shape.points
      BY ShapesAssumption, ScenesAssumption DEF LayerInv, TracksOK
    <3> QED  BY <1>1, <1>4, <3>1 DEF Together
  <2>2. f <= g /\ r \subseteq Together(x, y)
    BY <1>4 DEF IsMaximalRun
  <2>3. f \in r
    BY <1>4, <2>1, <2>2
  <2> QED  BY <2>2, <2>3
<1>6. r \subseteq t.shape.points
  <2>1. Together(x, y) \subseteq DOMAIN x.shape.samples
    BY DEF Together
  <2>2. DOMAIN t.shape.samples \subseteq t.shape.points
    BY ShapesAssumption DEF LayerInv, TracksOK
  <2> QED  BY <1>1, <1>5, <2>1, <2>2
<1>7. /\ FirstFrame(r) \in Nat /\ LastFrame(r) \in Nat
      /\ FirstFrame(r) < LastFrame(r) + 1
      /\ FirstFrame(r)..(LastFrame(r) + 1 - 1) \subseteq t.scene
  BY <1>5, <1>6, FramesOfScene
<1>8. /\ e.object = x.object /\ e.related = {y.object} /\ e.type = "contact"
      /\ e.start = FirstFrame(r) /\ e.end = LastFrame(r) + 1
  BY DEF LayerEvent
<1>9. e \in VisualEvent
  BY <1>1, <1>2, <1>7 DEF VisualEvent, LayerEvent
<1>10. Located(e)
  <2>1. e.start..(e.end - 1) \subseteq t.scene
    BY <1>7, <1>8
  <2>2. e.start < e.end
    BY <1>7, <1>8
  <2> QED  BY <1>1, <1>8, <2>1, <2>2 DEF Located
<1> QED
  BY <1>8, <1>9, <1>10 DEF TellsContact

\* Every event is of an object or of a pair.
LEMMA WhoseEvent ==
    ASSUME LayerInv, layer # None,
           NEW e \in ContactEvents \cup (UNION {ObjectEvents(ot) : ot \in VisualObjectTracks})
    PROVE  \/ \E ot \in VisualObjectTracks : e \in ObjectEvents(ot)
           \/ \E a, b \in VisualObjectTracks : \E r \in Contact(a, b) : \E x, y \in {a, b} :
                 /\ a.object[2] < b.object[2] /\ x # y
                 /\ e = LayerEvent(x.object, "contact", r, {y.object})
<1>1. CASE e \in ContactEvents
  <2>1. PICK p \in {q \in VisualObjectTracks \X VisualObjectTracks : q[1].object[2] < q[2].object[2]} :
          e \in UNION {{LayerEvent(p[1].object, "contact", r, {p[2].object}),
                       LayerEvent(p[2].object, "contact", r, {p[1].object})} : r \in Contact(p[1], p[2])}
    BY <1>1 DEF ContactEvents
  <2>2. PICK r \in Contact(p[1], p[2]) :
          e \in {LayerEvent(p[1].object, "contact", r, {p[2].object}),
                LayerEvent(p[2].object, "contact", r, {p[1].object})}
    BY <2>1
  <2> DEFINE a == p[1]
             b == p[2]
  <2>3. a \in VisualObjectTracks /\ b \in VisualObjectTracks /\ a.object[2] < b.object[2]
    BY <2>1
  <2>4. a # b
    <3>1. a.object[2] \in Nat
      BY <2>3, TracksOfObjects DEF ObjectId
    <3> QED  BY <2>3, <3>1
  <2>5. e \in {LayerEvent(a.object, "contact", r, {b.object}),
              LayerEvent(b.object, "contact", r, {a.object})} /\ r \in Contact(a, b)
    BY <2>2
  <2> HIDE DEF a, b
  <2> QED  BY <2>3, <2>4, <2>5
<1>2. CASE e \in UNION {ObjectEvents(ot) : ot \in VisualObjectTracks}
  BY <1>2
<1> QED
  BY <1>1, <1>2

LEMMA ComputeKeeps == ASSUME LayerInv, Compute PROVE LayerInv'
<1> DEFINE found == ContactEvents \cup (UNION {ObjectEvents(ot) : ot \in VisualObjectTracks})
<1>1. /\ layer # None /\ layer' = [layer EXCEPT !.events = found]
      /\ UNCHANGED <<tracks, lastId, builds, matched>>
  BY DEF Compute
<1>2. \A e \in found :
         \/ \E ot \in VisualObjectTracks : e \in ObjectEvents(ot)
         \/ \E a, b \in VisualObjectTracks : \E r \in Contact(a, b) : \E x, y \in {a, b} :
               /\ a.object[2] < b.object[2] /\ x # y
               /\ e = LayerEvent(x.object, "contact", r, {y.object})
  BY <1>1, WhoseEvent
<1>3. \A ot \in VisualObjectTracks : ObjectEvents(ot) \subseteq found
  OBVIOUS
<1>4. ASSUME NEW a \in VisualObjectTracks, NEW b \in VisualObjectTracks, a.object[2] < b.object[2],
             NEW r \in Contact(a, b)
      PROVE  /\ LayerEvent(a.object, "contact", r, {b.object}) \in found
             /\ LayerEvent(b.object, "contact", r, {a.object}) \in found
  <2> DEFINE pair == <<a, b>>
             told(p) == UNION {{LayerEvent(p[1].object, "contact", s, {p[2].object}),
                                LayerEvent(p[2].object, "contact", s, {p[1].object})} :
                                  s \in Contact(p[1], p[2])}
             pairs == {q \in VisualObjectTracks \X VisualObjectTracks : q[1].object[2] < q[2].object[2]}
  <2>1. pair \in pairs
    BY <1>4
  <2>2. /\ LayerEvent(a.object, "contact", r, {b.object}) \in told(pair)
        /\ LayerEvent(b.object, "contact", r, {a.object}) \in told(pair)
    OBVIOUS
  <2>3. ContactEvents = UNION {told(p) : p \in pairs}
    BY DEF ContactEvents
  <2> HIDE DEF told, pair, pairs
  <2>4. told(pair) \subseteq ContactEvents
    BY <2>1, <2>3
  <2> QED  BY <2>2, <2>4 DEF found
<1> HIDE DEF found
<1>5. layer \in LayerRecord
  BY <1>1 DEF LayerInv, LayerOK
<1>6. layer'.objects = layer.objects /\ layer'.events = found
  BY <1>1, <1>5 DEF LayerRecord
<1>7. ASSUME NEW e \in found
      PROVE  /\ e \in VisualEvent /\ Located(e)
             /\ e.type = "contact" <=> e.related # {}
             /\ \A i \in e.related : /\ \E o \in layer.objects : o.id = i
                                    /\ i # e.object
                                    /\ \E f \in found : /\ f.object = i /\ f.related = {e.object}
                                                      /\ f.start = e.start /\ f.end = e.end
  <2>1. CASE \E ot \in VisualObjectTracks : e \in ObjectEvents(ot)
    BY <1>1, <2>1, EventOfObject
  <2>2. CASE \E a, b \in VisualObjectTracks : \E r \in Contact(a, b) : \E x, y \in {a, b} :
               /\ a.object[2] < b.object[2] /\ x # y
               /\ e = LayerEvent(x.object, "contact", r, {y.object})
    <3>1. PICK a \in VisualObjectTracks, b \in VisualObjectTracks : \E r \in Contact(a, b) : \E x, y \in {a, b} :
               /\ a.object[2] < b.object[2] /\ x # y
               /\ e = LayerEvent(x.object, "contact", r, {y.object})
      BY <2>2
    <3>2. PICK r \in Contact(a, b) : \E x, y \in {a, b} :
               /\ a.object[2] < b.object[2] /\ x # y
               /\ e = LayerEvent(x.object, "contact", r, {y.object})
      BY <3>1
    <3>3. PICK x \in {a, b}, y \in {a, b} :
               /\ a.object[2] < b.object[2] /\ x # y
               /\ e = LayerEvent(x.object, "contact", r, {y.object})
      BY <3>2
    <3> DEFINE f == LayerEvent(y.object, "contact", r, {x.object})
    <3>4. e \in VisualEvent /\ TellsContact(e, x, y, r) /\ Located(e) /\ x.object # y.object
      <4>1. (x = a /\ y = b) \/ (x = b /\ y = a)
        BY <3>3
      <4>2. a.object \in ObjectId /\ b.object \in ObjectId
        BY <1>1, TracksOfObjects
      <4>3. x.object # y.object
        BY <3>3, <4>1, <4>2 DEF ObjectId
      <4>4. x \in VisualObjectTracks /\ y \in VisualObjectTracks
            /\ r \in Contact(x, y) \cup Contact(y, x)
        BY <4>1
      <4> QED  BY <1>1, <3>3, <4>3, <4>4, ContactOfPair
    <3>5. TellsContact(f, y, x, r)
      BY DEF LayerEvent, TellsContact
    <3>6. f \in found
      <4>1. (x = a /\ y = b) \/ (x = b /\ y = a)
        BY <3>3
      <4> QED  BY <1>4, <3>3, <4>1
    <3>7. \E o \in layer.objects : o.id = y.object
      BY <1>1, <3>3, TracksOfObjects
    <3> HIDE DEF f
    <3> QED  BY <3>4, <3>5, <3>6, <3>7 DEF TellsContact
  <2> QED  BY <1>2, <2>1, <2>2
<1>8. found \subseteq VisualEvent
  BY <1>7
<1>9. layer' \in LayerRecord /\ layer' # None
  BY <1>1, <1>5, <1>8, NoneAssumption DEF LayerRecord
<1>10. Events' = found /\ Objects' = layer.objects
  BY <1>6, <1>9 DEF Events, Objects
<1>11. EventsKnowTheirObjects'
  <2>1. ObjectIds' = {o.id : o \in layer.objects}
    BY <1>10 DEF ObjectIds
  <2>2. ASSUME NEW e \in found
        PROVE  /\ e.object \in ObjectIds'
               /\ e.related \subseteq ObjectIds' \ {e.object}
               /\ e.type = "contact" <=> e.related # {}
               /\ \A i \in e.related :
                     \E f \in found : /\ f.object = i /\ f.related = {e.object}
                                     /\ f.start = e.start /\ f.end = e.end
    <3>1. /\ \E o \in layer.objects : o.id = e.object
          /\ \A i \in e.related : i # e.object /\ \E o \in layer.objects : o.id = i
      BY <1>7 DEF Located
    <3>2. e.object \in ObjectIds' /\ e.related \subseteq ObjectIds' \ {e.object}
      BY <2>1, <3>1
    <3> QED  BY <1>7, <3>2
  <2> QED  BY <1>10, <2>2 DEF EventsKnowTheirObjects
<1>12. ASSUME matched, NEW t \in tracks
       PROVE  \E o \in layer.objects :
                 /\ {p \in layer.objects : p.track = t.id} = {o}
                 /\ Cardinality({e \in found : e.object = o.id /\ e.type # "contact"}) = 1
  <2>1. PICK o \in layer.objects : o.track = t.id
    BY <1>12 DEF LayerInv, Matches
  <2>2. PICK n \in Nat : layer.objects \subseteq ObjectsOf(n)
    BY <1>1 DEF LayerInv, LayerOK
  <2>3. {p \in layer.objects : p.track = t.id} = {o}
    <3>1. ASSUME NEW p \in layer.objects, p.track = t.id PROVE p = o
      <4>1. p.id = o.id /\ p \in VisualObject /\ o \in VisualObject
        BY <2>1, <2>2, <3>1 DEF ObjectsOf
      <4> QED  BY <2>1, <3>1, <4>1 DEF VisualObject
    <3> QED  BY <2>1, <3>1
  <2> DEFINE ot == [object |-> o.id, shape |-> t.shape]
  <2>4. ot \in VisualObjectTracks /\ ot.object = o.id
    <3>1. <<o, t>> \in {q \in layer.objects \X tracks : q[1].track = q[2].id}
      BY <2>1
    <3> QED  BY <3>1 DEF VisualObjectTracks
  <2> HIDE DEF ot
  <2>5. PICK e \in VisualEvent : ObjectEvents(ot) = {e} /\ e.object = o.id /\ e.type # "contact"
    BY <1>1, <2>4, EventOfObject
  <2>6. ASSUME NEW f \in found, f.object = o.id, f.type # "contact" PROVE f = e
    <3>1. CASE \E other \in VisualObjectTracks : f \in ObjectEvents(other)
      <4>1. PICK other \in VisualObjectTracks : f \in ObjectEvents(other)
        BY <3>1
      <4>2. f.object = other.object
        BY <1>1, <4>1, EventOfObject
      <4>3. other = ot
        BY <1>1, <2>4, <2>6, <4>2, OneTrackOfObject
      <4> QED  BY <2>5, <4>1, <4>3
    <3>2. CASE \E a, b \in VisualObjectTracks : \E r \in Contact(a, b) : \E x, y \in {a, b} :
               /\ a.object[2] < b.object[2] /\ x # y
               /\ f = LayerEvent(x.object, "contact", r, {y.object})
      BY <2>6, <3>2 DEF LayerEvent
    <3> QED  BY <1>2, <3>1, <3>2
  <2>7. e \in found
    BY <1>3, <2>4, <2>5
  <2>8. {f \in found : f.object = o.id /\ f.type # "contact"} = {e}
    BY <2>5, <2>6, <2>7
  <2> QED  BY <2>3, <2>8, FS_Singleton
<1>13. EventsOfCurrentTracks'
  BY <1>1, <1>7, <1>10, <1>12 DEF EventsOfCurrentTracks, Located
<1>14. TracksOK' /\ LayerOK'
  BY <1>1, <1>6, <1>9 DEF LayerInv, TracksOK, LayerOK
<1>15. matched' => Matches'
  BY <1>1, <1>6, <1>9 DEF LayerInv, Matches
<1> QED
  BY <1>11, <1>13, <1>14, <1>15 DEF LayerInv

LEMMA LayerNextInv == ASSUME LayerInv, [LayerNext]_layerVars PROVE LayerInv'
<1>1. CASE UNCHANGED layerVars
  <2>1. Events' = Events /\ Objects' = Objects /\ ObjectIds' = ObjectIds
    BY <1>1 DEF layerVars, Events, Objects, ObjectIds
  <2>2. EventsKnowTheirObjects' /\ EventsOfCurrentTracks'
    BY <1>1, <2>1 DEF layerVars, LayerInv, EventsKnowTheirObjects, EventsOfCurrentTracks
  <2> QED
    BY <1>1, <2>2 DEF layerVars, LayerInv, TracksOK, LayerOK, Matches
<1>2. CASE LayerNext
  BY <1>1, <1>2, TrackKeeps, BuildKeeps, ComputeKeeps DEF LayerNext, ComputeRefused
<1> QED
  BY <1>1, <1>2

LEMMA LayerInvariance == LayerSpec => []LayerInv
  BY InitLayerInv, LayerNextInv, PTL DEF LayerSpec

\* However often the stages are repeated, an event knows its objects, and both
\* objects of a contact are told of it.
THEOREM EventsAlwaysKnowTheirObjects == LayerSpec => []EventsKnowTheirObjects
<1>1. LayerInv => EventsKnowTheirObjects
  BY DEF LayerInv
<1> QED
  BY <1>1, LayerInvariance, PTL

\* Once computed, the events are about tracks that are still there, within their
\* scenes, and a layer built from these tracks has an event for each.
THEOREM EventsAlwaysOfCurrentTracks == LayerSpec => []EventsOfCurrentTracks
<1>1. LayerInv => EventsOfCurrentTracks
  BY DEF LayerInv
<1> QED
  BY <1>1, LayerInvariance, PTL
=============================================================================
