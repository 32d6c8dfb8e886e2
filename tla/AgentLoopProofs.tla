--------------------------- MODULE AgentLoopProofs ---------------------------
(***************************************************************************)
(* Proofs about the sound timeline, from its pure functions to a run of    *)
(* the agent: for any ids, any video length and any number of concurrent   *)
(* calls, all of them writing if they like, the timeline stays consistent; *)
(* calls of one answer can undo only each other's edits; every assignment  *)
(* is one edit of a timeline that stood since the agent was last told (the *)
(* promise of SoundTimeline); and a call leaves an effect exactly when the *)
(* agent is told so, the exception AnswerMatchesEffect states apart.       *)
(***************************************************************************)
EXTENDS AgentLoop, TLAPS

-----------------------------------------------------------------------------
(***************************************************************************)
(* The pure functions of TimelineData: each edit returns a timeline, keeps *)
(* it consistent and changes its ids as expected.                          *)
(***************************************************************************)
\* A partial function is a function on some subset of the ids.
LEMMA PartialFunctionsChar ==
    ASSUME NEW S, NEW T, NEW f
    PROVE  f \in PartialFunctions(S, T)
             <=> DOMAIN f \subseteq S /\ f \in [DOMAIN f -> T]
<1>1. ASSUME f \in PartialFunctions(S, T)
      PROVE  DOMAIN f \subseteq S /\ f \in [DOMAIN f -> T]
  <2>1. PICK D \in SUBSET S : f \in [D -> T]
    BY <1>1 DEF PartialFunctions
  <2>2. DOMAIN f = D
    BY <2>1
  <2> QED  BY <2>1, <2>2
<1>2. ASSUME DOMAIN f \subseteq S, f \in [DOMAIN f -> T]
      PROVE  f \in PartialFunctions(S, T)
  BY <1>2 DEF PartialFunctions
<1> QED  BY <1>1, <1>2

\* Writing one id of a partial function leaves a partial function.
LEMMA PutType ==
    ASSUME NEW S, NEW T, NEW f \in PartialFunctions(S, T), NEW i \in S, NEW v \in T
    PROVE  Put(f, i, v) \in PartialFunctions(S, T)
<1>1. DOMAIN f \subseteq S /\ f \in [DOMAIN f -> T]
  BY PartialFunctionsChar
<1>2. DOMAIN Put(f, i, v) = DOMAIN f \cup {i}
  BY DEF Put
<1>3. Put(f, i, v) \in [DOMAIN f \cup {i} -> T]
  BY <1>1 DEF Put
<1> QED  BY <1>1, <1>2, <1>3, PartialFunctionsChar

\* Dropping an id leaves a partial function.
LEMMA DropType ==
    ASSUME NEW S, NEW T, NEW f \in PartialFunctions(S, T), NEW i
    PROVE  Drop(f, i) \in PartialFunctions(S, T)
<1>1. DOMAIN f \subseteq S /\ f \in [DOMAIN f -> T]
  BY PartialFunctionsChar
<1>2. DOMAIN Drop(f, i) = DOMAIN f \ {i}
  BY DEF Drop
<1>3. Drop(f, i) \in [DOMAIN f \ {i} -> T]
  BY <1>1 DEF Drop
<1> QED  BY <1>1, <1>2, <1>3, PartialFunctionsChar

-----------------------------------------------------------------------------
\* The timeline ensure_sound_timeline creates is a consistent one.
LEMMA EmptyTimelineOK == EmptyTimeline \in Timelines /\ Consistent(EmptyTimeline)
<1> DEFINE nothing == [i \in {} |-> None]
<1>1. DOMAIN nothing = {}
  OBVIOUS
<1>2. nothing \in PartialFunctions(SourceIds, SourceData)
  BY PartialFunctionsChar
<1>3. nothing \in PartialFunctions(EventIds, EventData)
  BY PartialFunctionsChar
<1>4. EmptyTimeline = [sources |-> nothing, events |-> nothing]
  BY DEF EmptyTimeline
<1> HIDE DEF nothing
<1> QED
  BY <1>1, <1>2, <1>3, <1>4 DEF Timelines, Consistent, SourcesResolve, RangesInVideo

\* upsert_sound_source: the new source list with the same events is consistent.
LEMMA PutSourceOK ==
    ASSUME NEW t \in Timelines, Consistent(t), NEW i \in SourceIds, NEW obj \in SourceData
    PROVE  /\ PutSource(t, i, obj) \in Timelines
           /\ Consistent(PutSource(t, i, obj))
           /\ DOMAIN PutSource(t, i, obj).sources = DOMAIN t.sources \cup {i}
           /\ PutSource(t, i, obj).events = t.events
<1> DEFINE u == PutSource(t, i, obj)
<1>1. t.sources \in PartialFunctions(SourceIds, SourceData)
      /\ t.events \in PartialFunctions(EventIds, EventData)
  BY DEF Timelines
<1>2. u.sources = Put(t.sources, i, obj) /\ u.events = t.events
  BY DEF PutSource
<1>3. u.sources \in PartialFunctions(SourceIds, SourceData)
      /\ DOMAIN u.sources = DOMAIN t.sources \cup {i}
  <2>1. Put(t.sources, i, obj) \in PartialFunctions(SourceIds, SourceData)
    BY <1>1, PutType
  <2>2. DOMAIN Put(t.sources, i, obj) = DOMAIN t.sources \cup {i}
    BY DEF Put
  <2> QED  BY <1>2, <2>1, <2>2
<1>4. u \in Timelines
  BY <1>1, <1>2, <1>3 DEF Timelines, PutSource
<1>5. Consistent(u)
  BY <1>2, <1>3 DEF Consistent, SourcesResolve, RangesInVideo
<1> QED  BY <1>2, <1>3, <1>4, <1>5

\* delete_sound_source: detaching the events of the source keeps the timeline
\* consistent, and no event keeps a reference to it.
LEMMA DropSourceOK ==
    ASSUME NEW t \in Timelines, Consistent(t), NEW i \in SourceIds
    PROVE  /\ DropSource(t, i) \in Timelines
           /\ Consistent(DropSource(t, i))
           /\ DOMAIN DropSource(t, i).sources = DOMAIN t.sources \ {i}
           /\ DOMAIN DropSource(t, i).events = DOMAIN t.events
<1> DEFINE u == DropSource(t, i)
<1>1. t.sources \in PartialFunctions(SourceIds, SourceData)
      /\ DOMAIN t.events \subseteq EventIds /\ t.events \in [DOMAIN t.events -> EventData]
  BY PartialFunctionsChar DEF Timelines
<1>2. u.sources = Drop(t.sources, i)
  BY DEF DropSource
<1>3. DOMAIN u.events = DOMAIN t.events
  BY DEF DropSource
<1>4. u.sources \in PartialFunctions(SourceIds, SourceData)
      /\ DOMAIN u.sources = DOMAIN t.sources \ {i}
  <2>1. Drop(t.sources, i) \in PartialFunctions(SourceIds, SourceData)
    BY <1>1, DropType
  <2>2. DOMAIN Drop(t.sources, i) = DOMAIN t.sources \ {i}
    BY DEF Drop
  <2> QED  BY <1>2, <2>1, <2>2
<1>5. ASSUME NEW e \in DOMAIN t.events
      PROVE  /\ u.events[e] \in EventData
             /\ u.events[e].start = t.events[e].start
             /\ u.events[e].end = t.events[e].end
             /\ u.events[e].source = IF t.events[e].source = i THEN None ELSE t.events[e].source
  <2>1. t.events[e] \in EventData
    BY <1>1
  <2>2. u.events[e] = IF t.events[e].source = i
                      THEN [t.events[e] EXCEPT !.source = None] ELSE t.events[e]
    BY DEF DropSource
  <2> QED  BY <2>1, <2>2 DEF EventData
<1>6. u.events \in [DOMAIN t.events -> EventData]
  <2> DEFINE g == [x \in DOMAIN t.events |-> IF t.events[x].source = i
                      THEN [t.events[x] EXCEPT !.source = None] ELSE t.events[x]]
  <2>1. u.events = g
    BY DEF DropSource
  <2>2. \A e \in DOMAIN t.events : g[e] \in EventData
    BY <1>5, <2>1
  <2> QED  BY <2>1, <2>2
<1>7. u.events \in PartialFunctions(EventIds, EventData)
  BY <1>1, <1>3, <1>6, PartialFunctionsChar
<1>8. u \in Timelines
  BY <1>4, <1>7 DEF Timelines, DropSource
<1>9. Consistent(u)
  BY <1>3, <1>4, <1>5 DEF Consistent, SourcesResolve, RangesInVideo
<1> QED  BY <1>3, <1>4, <1>8, <1>9

\* upsert_sound_event: an event in range, attached to a source the timeline
\* holds or to none, keeps it consistent.
LEMMA PutEventOK ==
    ASSUME NEW t \in Timelines, Consistent(t), NEW i \in EventIds, NEW e \in EventData,
           e.source \in DOMAIN t.sources \cup {None}, CheckFrameRange(e.start, e.end)
    PROVE  /\ PutEvent(t, i, e) \in Timelines
           /\ Consistent(PutEvent(t, i, e))
           /\ DOMAIN PutEvent(t, i, e).events = DOMAIN t.events \cup {i}
           /\ PutEvent(t, i, e).sources = t.sources
<1> DEFINE u == PutEvent(t, i, e)
<1>1. t.sources \in PartialFunctions(SourceIds, SourceData)
      /\ t.events \in PartialFunctions(EventIds, EventData)
  BY DEF Timelines
<1>2. u.events = Put(t.events, i, e) /\ u.sources = t.sources
  BY DEF PutEvent
<1>3. /\ u.events \in PartialFunctions(EventIds, EventData)
      /\ DOMAIN u.events = DOMAIN t.events \cup {i}
      /\ u.events[i] = e
      /\ \A x \in DOMAIN t.events \ {i} : u.events[x] = t.events[x]
  <2>1. Put(t.events, i, e) \in PartialFunctions(EventIds, EventData)
    BY <1>1, PutType
  <2>2. /\ DOMAIN Put(t.events, i, e) = DOMAIN t.events \cup {i}
        /\ Put(t.events, i, e)[i] = e
        /\ \A x \in DOMAIN t.events \ {i} : Put(t.events, i, e)[x] = t.events[x]
    BY DEF Put
  <2> QED  BY <1>2, <2>1, <2>2
<1>4. u \in Timelines
  BY <1>1, <1>2, <1>3 DEF Timelines, PutEvent
<1>5. Consistent(u)
  BY <1>2, <1>3 DEF Consistent, SourcesResolve, RangesInVideo
<1> QED  BY <1>2, <1>3, <1>4, <1>5

\* delete_sound_event keeps the timeline consistent.
LEMMA DropEventOK ==
    ASSUME NEW t \in Timelines, Consistent(t), NEW i \in EventIds
    PROVE  /\ DropEvent(t, i) \in Timelines
           /\ Consistent(DropEvent(t, i))
           /\ DOMAIN DropEvent(t, i).events = DOMAIN t.events \ {i}
           /\ DropEvent(t, i).sources = t.sources
<1> DEFINE u == DropEvent(t, i)
<1>1. t.sources \in PartialFunctions(SourceIds, SourceData)
      /\ t.events \in PartialFunctions(EventIds, EventData)
  BY DEF Timelines
<1>2. u.events = Drop(t.events, i) /\ u.sources = t.sources
  BY DEF DropEvent
<1>3. /\ u.events \in PartialFunctions(EventIds, EventData)
      /\ DOMAIN u.events = DOMAIN t.events \ {i}
      /\ \A x \in DOMAIN t.events \ {i} : u.events[x] = t.events[x]
  <2>1. Drop(t.events, i) \in PartialFunctions(EventIds, EventData)
    BY <1>1, DropType
  <2>2. /\ DOMAIN Drop(t.events, i) = DOMAIN t.events \ {i}
        /\ \A x \in DOMAIN t.events \ {i} : Drop(t.events, i)[x] = t.events[x]
    BY DEF Drop
  <2> QED  BY <1>2, <2>1, <2>2
<1>4. u \in Timelines
  BY <1>1, <1>2, <1>3 DEF Timelines, DropEvent
<1>5. Consistent(u)
  BY <1>2, <1>3 DEF Consistent, SourcesResolve, RangesInVideo
<1> QED  BY <1>2, <1>3, <1>4, <1>5

-----------------------------------------------------------------------------
(***************************************************************************)
(* The editor, whatever its callers do.                                    *)
(***************************************************************************)
\* The ids of the timeline an edit returns.
LEMMA IdsOfTimeline ==
    ASSUME NEW t \in Timelines
    PROVE  t # None /\ IdsIn(t) = DOMAIN t.sources \cup DOMAIN t.events
BY NoneAssumption DEF IdsIn

\* A timeline only knows source ids and event ids.
LEMMA DomainsOfTimeline ==
    ASSUME NEW t \in Timelines
    PROVE  DOMAIN t.sources \subseteq SourceIds /\ DOMAIN t.events \subseteq EventIds
<1>1. t.sources \in PartialFunctions(SourceIds, SourceData)
      /\ t.events \in PartialFunctions(EventIds, EventData)
  BY DEF Timelines
<1> QED  BY <1>1, PartialFunctionsChar

LEMMA EmptyIds == IdsIn(EmptyTimeline) = {}
<1> DEFINE nothing == [i \in {} |-> None]
<1>1. DOMAIN nothing = {}
  OBVIOUS
<1>2. EmptyTimeline.sources = nothing /\ EmptyTimeline.events = nothing
  BY DEF EmptyTimeline
<1> HIDE DEF nothing
<1> QED  BY <1>1, <1>2 DEF IdsIn

\* Initially no call runs and the loaded timeline is consistent.
LEMMA InitIInv == Init => IInv
<1> SUFFICES ASSUME Init PROVE IInv
  OBVIOUS
<1>1. timeline \in Timelines \cup {None} /\ (timeline # None => Consistent(timeline))
  BY LoadedAssumption DEF Init
<1>2. IdsIn(timeline) \subseteq SourceIds \cup EventIds
  BY <1>1, IdsOfTimeline, DomainsOfTimeline DEF IdsIn
<1>3. IdsIn(None) = {}
  BY DEF IdsIn
<1>4. TypeOK
  BY <1>1, <1>2 DEF Init, TypeOK, Labels
<1> QED
  BY <1>1, <1>3, <1>4 DEF Init, IInv, TimelineConsistent, EnsureNeverReturnsNone,
     SnapshotsConsistent, RangesChecked, Writing, TimelineReady, IdsCreated

-----------------------------------------------------------------------------
\* What a step that assigns a timeline u to the attribute and sends caller c on
\* to label l must show: u is a consistent timeline with known ids.
LEMMA StoreStep ==
    ASSUME IInv, NEW c \in Callers, pc[c] \in {"fill", "store"},
           NEW u \in Timelines, Consistent(u), timeline' = u,
           NEW l \in {"snapshot", "returned"}, Goto(c, l), UNCHANGED <<call, snap>>,
           created \subseteq created', created' \subseteq SourceIds \cup EventIds,
           IdsIn(u) \subseteq created', deleted' \subseteq created'
    PROVE  IInv'
<1>1. u # None
  BY NoneAssumption
<1>2. TypeOK'
  BY DEF IInv, TypeOK, Labels, Goto
<1> QED
  BY <1>1, <1>2 DEF IInv, TypeOK, TimelineConsistent, EnsureNeverReturnsNone, Goto, Labels,
     SnapshotsConsistent, RangesChecked, Writing, TimelineReady, IdsCreated

\* Steps that leave the timeline and the history alone.
LEMMA BeginStep ==
    ASSUME IInv, NEW c \in Callers, NEW k \in Calls, Begin(c, k)
    PROVE  IInv'
<1>1. k # None
  BY CallsAssumption
<1>2. /\ FirstStep(k) \in {"read", "rejected", "ensure"}
      /\ FirstStep(k) = "ensure" =>
            k.op # "read" /\ (k.op = "upsert_event" => CheckFrameRange(k.start, k.end))
  BY DEF FirstStep
<1>3. TypeOK'
  BY <1>2 DEF IInv, TypeOK, Begin, Goto, Labels, history
<1> QED
  BY <1>1, <1>2, <1>3 DEF IInv, TypeOK, Begin, Goto, Labels, history, IsWrite,
     TimelineConsistent, EnsureNeverReturnsNone, SnapshotsConsistent, RangesChecked,
     Writing, TimelineReady, IdsCreated

LEMMA ReadStep ==
    ASSUME IInv, NEW c \in Callers, ReadTimeline(c) \/ Snapshot(c)
    PROVE  IInv'
<1>1. TypeOK'
  BY DEF IInv, TypeOK, ReadTimeline, Snapshot, Goto, Labels, history
<1> QED
  BY <1>1 DEF IInv, TypeOK, ReadTimeline, Snapshot, Goto, Labels, history,
     TimelineConsistent, EnsureNeverReturnsNone, SnapshotsConsistent, RangesChecked,
     Writing, TimelineReady, IdsCreated

LEMMA LocalStep ==
    ASSUME IInv, NEW c \in Callers, CheckNone(c) \/ Reject(c) \/ Collect(c)
    PROVE  IInv'
<1>1. IdsIn(None) = {}
  BY DEF IdsIn
<1>2. TypeOK'
  BY DEF IInv, TypeOK, CheckNone, Reject, Collect, Goto, Labels, history
<1> QED
  BY <1>1, <1>2 DEF IInv, TypeOK, CheckNone, Reject, Collect, Goto, Labels, history,
     TimelineConsistent, EnsureNeverReturnsNone, SnapshotsConsistent, RangesChecked,
     Writing, TimelineReady, IdsCreated

LEMMA FillStep ==
    ASSUME IInv, NEW c \in Callers, Fill(c)
    PROVE  IInv'
<1>1. created' = created /\ deleted' = deleted
  BY DEF Fill, history
<1> QED
  BY <1>1, StoreStep, EmptyTimelineOK, EmptyIds DEF Fill, IInv, TypeOK

-----------------------------------------------------------------------------
\* What holds of a write tool that is about to assign: it holds a consistent
\* timeline and its arguments were accepted against it.
LEMMA AcceptedCall ==
    ASSUME IInv, NEW c \in Callers, NEW op, Accepted(c, op)
    PROVE  /\ snap[c] \in Timelines /\ Consistent(snap[c])
           /\ IdsIn(snap[c]) \subseteq created
           /\ call[c] \in Calls /\ call[c].op = op
           /\ op = "upsert_event" => CheckFrameRange(call[c].start, call[c].end)
           /\ ~Refused(snap[c], call[c])
           /\ pc[c] = "store" /\ Goto(c, "returned") /\ UNCHANGED <<call, snap>>
BY DEF IInv, TypeOK, Accepted, EnsureNeverReturnsNone, SnapshotsConsistent, RangesChecked,
   Writing, IdsCreated, IsWrite

LEMMA StoreSourceStep ==
    ASSUME IInv, NEW c \in Callers, StoreSource(c)
    PROVE  IInv'
<1>1. PICK i \in WrittenId(c, SourceIds) :
         timeline' = PutSource(snap[c], i, call[c].object) /\ created' = created \cup {i}
  BY DEF StoreSource
<1>2. Accepted(c, "upsert_source") /\ deleted' = deleted
  BY DEF StoreSource
<1>3. call[c].id \in SourceIds \cup {None} /\ call[c].object \in SourceData
  BY <1>2, AcceptedCall DEF Calls
<1>4. i \in SourceIds
  BY <1>1, <1>3 DEF WrittenId
<1> DEFINE u == PutSource(snap[c], i, call[c].object)
<1>5. u \in Timelines /\ Consistent(u)
      /\ DOMAIN u.sources = DOMAIN snap[c].sources \cup {i} /\ u.events = snap[c].events
  BY <1>2, <1>3, <1>4, AcceptedCall, PutSourceOK
<1>6. timeline' = u
  BY <1>1
<1> HIDE DEF u
<1>7. IdsIn(u) \subseteq created \cup {i}
  BY <1>2, <1>5, AcceptedCall, IdsOfTimeline
<1> QED
  BY <1>1, <1>2, <1>4, <1>5, <1>6, <1>7, AcceptedCall, StoreStep DEF IInv, TypeOK

LEMMA RemoveSourceStep ==
    ASSUME IInv, NEW c \in Callers, RemoveSource(c)
    PROVE  IInv'
<1>1. /\ Accepted(c, "delete_source") /\ timeline' = DropSource(snap[c], call[c].id)
      /\ deleted' = deleted \cup {call[c].id} /\ created' = created
  BY DEF RemoveSource
<1>2. call[c].id \in SourceIds
  BY <1>1, AcceptedCall DEF Calls
<1>3. call[c].id \in DOMAIN snap[c].sources
  BY <1>1, AcceptedCall DEF Refused
<1> DEFINE u == DropSource(snap[c], call[c].id)
<1>4. u \in Timelines /\ Consistent(u)
      /\ DOMAIN u.sources = DOMAIN snap[c].sources \ {call[c].id}
      /\ DOMAIN u.events = DOMAIN snap[c].events
  BY <1>1, <1>2, AcceptedCall, DropSourceOK
<1>5. timeline' = u
  BY <1>1
<1> HIDE DEF u
<1>6. IdsIn(u) \subseteq created /\ call[c].id \in created
  BY <1>1, <1>3, <1>4, AcceptedCall, IdsOfTimeline
<1> QED
  BY <1>1, <1>4, <1>5, <1>6, AcceptedCall, StoreStep DEF IInv, TypeOK

\* The event an accepted upsert writes is well formed: its range was checked
\* before anything was read, its source against what was read.
LEMMA AcceptedEvent ==
    ASSUME IInv, NEW c \in Callers, Accepted(c, "upsert_event"), NEW e, e = NewEvent(call[c])
    PROVE  /\ e \in EventData /\ CheckFrameRange(e.start, e.end)
           /\ e.source \in DOMAIN snap[c].sources \cup {None}
<1>1. /\ call[c].source \in SourceIds \cup {None}
      /\ call[c].start \in RequestFrames /\ call[c].end \in RequestFrames
  BY AcceptedCall DEF Calls
<1>2. CheckFrameRange(e.start, e.end) /\ e.source \in DOMAIN snap[c].sources \cup {None}
  BY AcceptedCall DEF NewEvent, Refused
<1>3. e.start \in Frames /\ e.end \in Frames
  BY <1>1, <1>2, FrameCountAssumption
     DEF CheckFrameRange, CheckFrameIndex, Frames, RequestFrames, NewEvent
<1>4. e \in EventData
  BY <1>1, <1>3 DEF EventData, NewEvent
<1> QED  BY <1>2, <1>4

LEMMA StoreEventStep ==
    ASSUME IInv, NEW c \in Callers, StoreEvent(c)
    PROVE  IInv'
<1> DEFINE e == NewEvent(call[c])
<1>1. PICK i \in WrittenId(c, EventIds) :
         timeline' = PutEvent(snap[c], i, e) /\ created' = created \cup {i}
  BY DEF StoreEvent
<1>2. Accepted(c, "upsert_event") /\ deleted' = deleted
  BY DEF StoreEvent
<1>3. call[c].id \in EventIds \cup {None}
  BY <1>2, AcceptedCall DEF Calls
<1>4. i \in EventIds
  BY <1>1, <1>3 DEF WrittenId
<1>5. /\ e \in EventData /\ CheckFrameRange(e.start, e.end)
      /\ e.source \in DOMAIN snap[c].sources \cup {None}
  BY <1>2, AcceptedEvent
<1> HIDE DEF e
<1> DEFINE u == PutEvent(snap[c], i, e)
<1>6. u \in Timelines /\ Consistent(u)
      /\ DOMAIN u.events = DOMAIN snap[c].events \cup {i} /\ u.sources = snap[c].sources
  BY <1>2, <1>4, <1>5, AcceptedCall, PutEventOK
<1>7. timeline' = u
  BY <1>1
<1> HIDE DEF u
<1>8. IdsIn(u) \subseteq created \cup {i}
  BY <1>2, <1>6, AcceptedCall, IdsOfTimeline
<1> QED
  BY <1>1, <1>2, <1>4, <1>6, <1>7, <1>8, AcceptedCall, StoreStep DEF IInv, TypeOK

LEMMA RemoveEventStep ==
    ASSUME IInv, NEW c \in Callers, RemoveEvent(c)
    PROVE  IInv'
<1>1. /\ Accepted(c, "delete_event") /\ timeline' = DropEvent(snap[c], call[c].id)
      /\ deleted' = deleted \cup {call[c].id} /\ created' = created
  BY DEF RemoveEvent
<1>2. call[c].id \in EventIds
  BY <1>1, AcceptedCall DEF Calls
<1>3. call[c].id \in DOMAIN snap[c].events
  BY <1>1, AcceptedCall DEF Refused
<1> DEFINE u == DropEvent(snap[c], call[c].id)
<1>4. u \in Timelines /\ Consistent(u)
      /\ DOMAIN u.events = DOMAIN snap[c].events \ {call[c].id}
      /\ u.sources = snap[c].sources
  BY <1>1, <1>2, AcceptedCall, DropEventOK
<1>5. timeline' = u
  BY <1>1
<1> HIDE DEF u
<1>6. IdsIn(u) \subseteq created /\ call[c].id \in created
  BY <1>1, <1>3, <1>4, AcceptedCall, IdsOfTimeline
<1> QED
  BY <1>1, <1>4, <1>5, <1>6, AcceptedCall, StoreStep DEF IInv, TypeOK

-----------------------------------------------------------------------------
\* Every step of every caller preserves the inductive invariant.
LEMMA NextIInv == IInv /\ [Next]_vars => IInv'
<1> SUFFICES ASSUME IInv, [Next]_vars PROVE IInv'
  OBVIOUS
<1>1. ASSUME NEW c \in Callers, NEW k \in Calls, Begin(c, k) PROVE IInv'
  BY <1>1, BeginStep
<1>2. ASSUME NEW c \in Callers, Work(c) PROVE IInv'
  BY <1>2, ReadStep, LocalStep, FillStep, StoreSourceStep, RemoveSourceStep,
     StoreEventStep, RemoveEventStep DEF Work
<1>3. ASSUME NEW c \in Callers, Collect(c) PROVE IInv'
  BY <1>3, LocalStep
<1>4. CASE UNCHANGED vars
  BY <1>4 DEF vars, callVars, history, IInv, TypeOK, TimelineConsistent,
     EnsureNeverReturnsNone, SnapshotsConsistent, RangesChecked, TimelineReady, IdsCreated
<1> QED  BY <1>1, <1>2, <1>3, <1>4 DEF Next

LEMMA Invariance == Spec => []IInv
BY InitIInv, NextIInv, PTL DEF Spec

\* Every variable of the editor keeps its type.
THEOREM EditorTypeOK == Spec => []TypeOK
<1>1. IInv => TypeOK
  BY DEF IInv
<1> QED  BY <1>1, Invariance, PTL

\* However many tool calls run side by side, and however their steps
\* interleave, the timeline the asset holds is consistent: its events refer to
\* sources it holds and lie within the video.
THEOREM EditorKeepsTimelineConsistent == Spec => []TimelineConsistent
<1>1. IInv => TimelineConsistent
  BY DEF IInv
<1> QED  BY <1>1, Invariance, PTL

-----------------------------------------------------------------------------
(***************************************************************************)
(* Each assignment of a write tool is the edit of SoundTimeline of the     *)
(* same name, applied to the timeline the call has read.                   *)
(***************************************************************************)

\* The records of a timeline carry exactly the ids of its lists.
LEMMA RecordIds ==
    ASSUME NEW t \in Timelines
    PROVE  /\ Promise!IdsOf(SourceSet(t)) = DOMAIN t.sources
           /\ Promise!IdsOf(EventSet(t)) = DOMAIN t.events
<1>1. Content(t) = t
  BY NoneAssumption DEF Content
<1>2. SourceSet(t) = {[id |-> i, object |-> t.sources[i]] : i \in DOMAIN t.sources}
  BY <1>1 DEF SourceSet
<1>3. EventSet(t) = {[id |-> i, start |-> t.events[i].start, end |-> t.events[i].end,
                      source |-> t.events[i].source] : i \in DOMAIN t.events}
  BY <1>1 DEF EventSet
<1>4. Promise!IdsOf(SourceSet(t)) = DOMAIN t.sources
  <2>1. \A r \in SourceSet(t) : r.id \in DOMAIN t.sources
    BY <1>2
  <2>2. ASSUME NEW i \in DOMAIN t.sources PROVE \E r \in SourceSet(t) : r.id = i
    <3>1. [id |-> i, object |-> t.sources[i]] \in SourceSet(t)
      BY <1>2
    <3> QED  BY <3>1
  <2> QED  BY <2>1, <2>2 DEF Promise!IdsOf
<1>5. Promise!IdsOf(EventSet(t)) = DOMAIN t.events
  <2>1. \A r \in EventSet(t) : r.id \in DOMAIN t.events
    BY <1>3
  <2>2. ASSUME NEW i \in DOMAIN t.events PROVE \E r \in EventSet(t) : r.id = i
    <3>1. [id |-> i, start |-> t.events[i].start, end |-> t.events[i].end,
           source |-> t.events[i].source] \in EventSet(t)
      BY <1>3
    <3> QED  BY <3>1
  <2> QED  BY <2>1, <2>2 DEF Promise!IdsOf
<1> QED  BY <1>4, <1>5

\* A missing timeline has the records of an empty one: none.
LEMMA RecordsOfNone ==
    /\ Records(None) = [sources |-> {}, events |-> {}]
    /\ Records(EmptyTimeline) = Records(None)
<1>1. Content(None) = EmptyTimeline /\ Content(EmptyTimeline) = EmptyTimeline
  BY DEF Content
<1>2. DOMAIN EmptyTimeline.sources = {} /\ DOMAIN EmptyTimeline.events = {}
  BY EmptyIds, EmptyTimelineOK, IdsOfTimeline
<1> QED  BY <1>1, <1>2 DEF Records, SourceSet, EventSet

LEMMA PutSourceRecords ==
    ASSUME NEW t \in Timelines, NEW i, NEW obj, PutSource(t, i, obj) \in Timelines
    PROVE  /\ SourceSet(PutSource(t, i, obj))
                = {r \in SourceSet(t) : r.id # i} \cup {Promise!SourceRecord(i, obj)}
           /\ EventSet(PutSource(t, i, obj)) = EventSet(t)
<1> DEFINE u == PutSource(t, i, obj)
<1>1. Content(t) = t /\ Content(u) = u
  BY NoneAssumption DEF Content
<1>2. /\ DOMAIN u.sources = DOMAIN t.sources \cup {i} /\ u.events = t.events
      /\ u.sources[i] = obj
      /\ \A x \in DOMAIN t.sources \ {i} : u.sources[x] = t.sources[x]
  BY DEF PutSource, Put
<1> HIDE DEF u
<1>3. SourceSet(u) = {r \in SourceSet(t) : r.id # i} \cup {Promise!SourceRecord(i, obj)}
  BY <1>1, <1>2 DEF SourceSet, Promise!SourceRecord
<1>4. EventSet(u) = EventSet(t)
  BY <1>1, <1>2 DEF EventSet
<1> QED  BY <1>3, <1>4 DEF u

LEMMA PutEventRecords ==
    ASSUME NEW t \in Timelines, NEW i, NEW e, PutEvent(t, i, e) \in Timelines
    PROVE  /\ EventSet(PutEvent(t, i, e))
                = {r \in EventSet(t) : r.id # i} \cup {Promise!EventRecord(i, e)}
           /\ SourceSet(PutEvent(t, i, e)) = SourceSet(t)
<1> DEFINE u == PutEvent(t, i, e)
<1>1. Content(t) = t /\ Content(u) = u
  BY NoneAssumption DEF Content
<1>2. /\ DOMAIN u.events = DOMAIN t.events \cup {i} /\ u.sources = t.sources
      /\ u.events[i] = e
      /\ \A x \in DOMAIN t.events \ {i} : u.events[x] = t.events[x]
  BY DEF PutEvent, Put
<1> HIDE DEF u
<1>3. EventSet(u) = {r \in EventSet(t) : r.id # i} \cup {Promise!EventRecord(i, e)}
  BY <1>1, <1>2 DEF EventSet, Promise!EventRecord
<1>4. SourceSet(u) = SourceSet(t)
  BY <1>1, <1>2 DEF SourceSet
<1> QED  BY <1>3, <1>4 DEF u

LEMMA DropEventRecords ==
    ASSUME NEW t \in Timelines, NEW i, DropEvent(t, i) \in Timelines
    PROVE  /\ EventSet(DropEvent(t, i)) = {r \in EventSet(t) : r.id # i}
           /\ SourceSet(DropEvent(t, i)) = SourceSet(t)
<1> DEFINE u == DropEvent(t, i)
<1>1. Content(t) = t /\ Content(u) = u
  BY NoneAssumption DEF Content
<1>2. /\ DOMAIN u.events = DOMAIN t.events \ {i} /\ u.sources = t.sources
      /\ \A x \in DOMAIN t.events \ {i} : u.events[x] = t.events[x]
  BY DEF DropEvent, Drop
<1> HIDE DEF u
<1>3. EventSet(u) = {r \in EventSet(t) : r.id # i}
  BY <1>1, <1>2 DEF EventSet
<1>4. SourceSet(u) = SourceSet(t)
  BY <1>1, <1>2 DEF SourceSet
<1> QED  BY <1>3, <1>4 DEF u

LEMMA DropSourceRecords ==
    ASSUME NEW t \in Timelines, NEW i, DropSource(t, i) \in Timelines
    PROVE  /\ SourceSet(DropSource(t, i)) = {r \in SourceSet(t) : r.id # i}
           /\ EventSet(DropSource(t, i))
                = {r \in EventSet(t) : r.source # i}
                  \cup {[r EXCEPT !.source = None] : r \in {q \in EventSet(t) : q.source = i}}
<1> DEFINE u == DropSource(t, i)
           d(x) == IF t.events[x].source = i THEN None ELSE t.events[x].source
<1>1. Content(t) = t /\ Content(u) = u
  BY NoneAssumption DEF Content
<1>2. /\ DOMAIN u.sources = DOMAIN t.sources \ {i}
      /\ \A x \in DOMAIN t.sources \ {i} : u.sources[x] = t.sources[x]
  BY DEF DropSource, Drop
<1>3. /\ DOMAIN t.events \subseteq EventIds /\ t.events \in [DOMAIN t.events -> EventData]
  BY PartialFunctionsChar DEF Timelines
<1>4. DOMAIN u.events = DOMAIN t.events
  BY DEF DropSource
<1>5. ASSUME NEW x \in DOMAIN t.events
      PROVE  /\ u.events[x].start = t.events[x].start
             /\ u.events[x].end = t.events[x].end
             /\ u.events[x].source = d(x)
  <2>1. t.events[x] \in EventData
    BY <1>3
  <2>2. u.events[x] = IF t.events[x].source = i
                      THEN [t.events[x] EXCEPT !.source = None] ELSE t.events[x]
    BY DEF DropSource
  <2> QED  BY <2>1, <2>2 DEF EventData
<1> HIDE DEF u
<1>6. SourceSet(u) = {r \in SourceSet(t) : r.id # i}
  BY <1>1, <1>2 DEF SourceSet
<1> DEFINE R(x, src) == [id |-> x, start |-> t.events[x].start, end |-> t.events[x].end,
                         source |-> src]
           kept == {r \in EventSet(t) : r.source # i}
           detached == {[r EXCEPT !.source = None] : r \in {q \in EventSet(t) : q.source = i}}
<1>7. EventSet(u) = {R(x, d(x)) : x \in DOMAIN t.events}
  BY <1>1, <1>4, <1>5 DEF EventSet
<1>8. EventSet(t) = {R(x, t.events[x].source) : x \in DOMAIN t.events}
  BY <1>1 DEF EventSet
<1>9. EventSet(u) = kept \cup detached
  <2>1. ASSUME NEW r \in EventSet(u) PROVE r \in kept \cup detached
    <3>1. PICK x \in DOMAIN t.events : r = R(x, d(x))
      BY <1>7
    <3>2. R(x, t.events[x].source) \in EventSet(t)
      BY <1>8
    <3>3. CASE t.events[x].source = i
      <4>1. r = [R(x, i) EXCEPT !.source = None]
        BY <3>1, <3>3
      <4>2. R(x, i) \in EventSet(t) /\ R(x, i).source = i
        BY <3>2, <3>3
      <4> QED  BY <4>1, <4>2
    <3>4. CASE t.events[x].source # i
      BY <3>1, <3>2, <3>4
    <3> QED  BY <3>3, <3>4
  <2>2. ASSUME NEW r \in kept PROVE r \in EventSet(u)
    BY <1>7, <1>8
  <2>3. ASSUME NEW r \in detached PROVE r \in EventSet(u)
    <3>1. PICK q \in EventSet(t) : q.source = i /\ r = [q EXCEPT !.source = None]
      OBVIOUS
    <3>2. PICK x \in DOMAIN t.events : q = R(x, t.events[x].source)
      BY <1>8
    <3>3. t.events[x].source = i /\ r = R(x, None)
      BY <3>1, <3>2
    <3> QED  BY <1>7, <3>3
  <2> QED  BY <2>1, <2>2, <2>3
<1> QED  BY <1>6, <1>9 DEF u

-----------------------------------------------------------------------------
\* The id an upsert writes is a new one, or one the timeline it read holds.
LEMMA WrittenIdNewOrHeld ==
    ASSUME IInv, NEW c \in Callers
    PROVE  /\ \A i \in WrittenId(c, SourceIds) : Accepted(c, "upsert_source") =>
                 /\ i \in SourceIds
                 /\ i \in created => i = call[c].id /\ i \in DOMAIN snap[c].sources
           /\ \A i \in WrittenId(c, EventIds) : Accepted(c, "upsert_event") =>
                 /\ i \in EventIds
                 /\ i \in created => i = call[c].id /\ i \in DOMAIN snap[c].events
<1>1. ASSUME NEW i \in WrittenId(c, SourceIds), Accepted(c, "upsert_source")
      PROVE  /\ i \in SourceIds
             /\ i \in created => i = call[c].id /\ i \in DOMAIN snap[c].sources
  <2>1. call[c].id \in SourceIds \cup {None}
    BY <1>1, AcceptedCall DEF Calls
  <2>2. call[c].id \in DOMAIN snap[c].sources \cup {None}
    BY <1>1, AcceptedCall DEF Refused, Accepted
  <2> QED  BY <1>1, <2>1, <2>2 DEF WrittenId
<1>2. ASSUME NEW i \in WrittenId(c, EventIds), Accepted(c, "upsert_event")
      PROVE  /\ i \in EventIds
             /\ i \in created => i = call[c].id /\ i \in DOMAIN snap[c].events
  <2>1. call[c].id \in EventIds \cup {None}
    BY <1>2, AcceptedCall DEF Calls
  <2>2. call[c].id \in DOMAIN snap[c].events \cup {None}
    BY <1>2, AcceptedCall DEF Refused, Accepted
  <2> QED  BY <1>2, <2>1, <2>2 DEF WrittenId
<1> QED  BY <1>1, <1>2

LEMMA EditsBySource ==
    ASSUME IInv, NEW c \in Callers, StoreSource(c)
    PROVE  \E i \in SourceIds, obj \in SourceData : Promise!WriteSource(Records(snap[c]), i, obj)
<1> DEFINE obj == call[c].object
           t == snap[c]
<1>1. PICK i \in WrittenId(c, SourceIds) :
         timeline' = PutSource(t, i, obj) /\ created' = created \cup {i}
  BY DEF StoreSource
<1>2. Accepted(c, "upsert_source")
  BY DEF StoreSource
<1>3. obj \in SourceData /\ t \in Timelines /\ Consistent(t)
  BY <1>2, AcceptedCall DEF Calls
<1>4. i \in SourceIds /\ (i \in created => i \in DOMAIN t.sources)
  BY <1>2, WrittenIdNewOrHeld
<1> HIDE DEF obj, t
<1>6. PutSource(t, i, obj) \in Timelines
  BY <1>3, <1>4, PutSourceOK
<1>7. /\ SourceSet(timeline') = {r \in SourceSet(t) : r.id # i} \cup {Promise!SourceRecord(i, obj)}
      /\ EventSet(timeline') = EventSet(t)
  BY <1>1, <1>3, <1>6, PutSourceRecords
<1>8. Promise!IdsOf(SourceSet(t)) = DOMAIN t.sources
  BY <1>3, RecordIds
<1>9. Promise!WriteSource(Records(t), i, obj)
  BY <1>1, <1>4, <1>7, <1>8 DEF Promise!WriteSource, Records
<1> QED  BY <1>3, <1>4, <1>9 DEF t

LEMMA EditsByRemovedSource ==
    ASSUME IInv, NEW c \in Callers, RemoveSource(c)
    PROVE  \E i \in SourceIds : Promise!RemoveSource(Records(snap[c]), i)
<1> DEFINE i == call[c].id
           t == snap[c]
<1>1. Accepted(c, "delete_source") /\ timeline' = DropSource(t, i) /\ created' = created
  BY DEF RemoveSource
<1>2. i \in SourceIds /\ i \in DOMAIN t.sources /\ t \in Timelines /\ Consistent(t)
  BY <1>1, AcceptedCall DEF Calls, Refused
<1> HIDE DEF i, t
<1>3. DropSource(t, i) \in Timelines
  BY <1>2, DropSourceOK
<1>4. /\ SourceSet(timeline') = {r \in SourceSet(t) : r.id # i}
      /\ EventSet(timeline') = {r \in EventSet(t) : r.source # i}
            \cup {[r EXCEPT !.source = None] : r \in {q \in EventSet(t) : q.source = i}}
  BY <1>1, <1>2, <1>3, DropSourceRecords
<1>5. Promise!IdsOf(SourceSet(t)) = DOMAIN t.sources
  BY <1>2, RecordIds
<1>6. Promise!RemoveSource(Records(t), i)
  BY <1>1, <1>2, <1>4, <1>5 DEF Promise!RemoveSource, Records
<1> QED  BY <1>2, <1>6 DEF t

LEMMA EditsByEvent ==
    ASSUME IInv, NEW c \in Callers, StoreEvent(c)
    PROVE  \E i \in EventIds, e \in EventData : Promise!WriteEvent(Records(snap[c]), i, e)
<1> DEFINE e == NewEvent(call[c])
           t == snap[c]
<1>1. PICK i \in WrittenId(c, EventIds) :
         timeline' = PutEvent(t, i, e) /\ created' = created \cup {i}
  BY DEF StoreEvent
<1>2. Accepted(c, "upsert_event")
  BY DEF StoreEvent
<1>3. /\ e \in EventData /\ CheckFrameRange(e.start, e.end)
      /\ e.source \in DOMAIN t.sources \cup {None}
      /\ t \in Timelines /\ Consistent(t)
  BY <1>2, AcceptedEvent, AcceptedCall
<1>4. i \in EventIds /\ (i \in created => i \in DOMAIN t.events)
  BY <1>2, WrittenIdNewOrHeld
<1> HIDE DEF e, t
<1>6. PutEvent(t, i, e) \in Timelines
  BY <1>3, <1>4, PutEventOK
<1>7. /\ EventSet(timeline') = {r \in EventSet(t) : r.id # i} \cup {Promise!EventRecord(i, e)}
      /\ SourceSet(timeline') = SourceSet(t)
  BY <1>1, <1>3, <1>6, PutEventRecords
<1>8. /\ Promise!IdsOf(SourceSet(t)) = DOMAIN t.sources
      /\ Promise!IdsOf(EventSet(t)) = DOMAIN t.events
  BY <1>3, RecordIds
<1>9. Promise!CheckFrameRange(e.start, e.end)
  BY <1>3 DEF CheckFrameRange, CheckFrameIndex, Promise!CheckFrameRange, Promise!CheckFrameIndex
<1>10. Promise!WriteEvent(Records(t), i, e)
  BY <1>1, <1>3, <1>4, <1>7, <1>8, <1>9 DEF Promise!WriteEvent, Records
<1> QED  BY <1>3, <1>4, <1>10 DEF t

LEMMA EditsByRemovedEvent ==
    ASSUME IInv, NEW c \in Callers, RemoveEvent(c)
    PROVE  \E i \in EventIds : Promise!RemoveEvent(Records(snap[c]), i)
<1> DEFINE i == call[c].id
           t == snap[c]
<1>1. Accepted(c, "delete_event") /\ timeline' = DropEvent(t, i) /\ created' = created
  BY DEF RemoveEvent
<1>2. i \in EventIds /\ i \in DOMAIN t.events /\ t \in Timelines /\ Consistent(t)
  BY <1>1, AcceptedCall DEF Calls, Refused
<1> HIDE DEF i, t
<1>3. DropEvent(t, i) \in Timelines
  BY <1>2, DropEventOK
<1>4. EventSet(timeline') = {r \in EventSet(t) : r.id # i} /\ SourceSet(timeline') = SourceSet(t)
  BY <1>1, <1>2, <1>3, DropEventRecords
<1>5. Promise!IdsOf(EventSet(t)) = DOMAIN t.events
  BY <1>2, RecordIds
<1>6. Promise!RemoveEvent(Records(t), i)
  BY <1>1, <1>2, <1>4, <1>5 DEF Promise!RemoveEvent, Records
<1> QED  BY <1>2, <1>6 DEF t

\* So a call that assigns edits the timeline it holds.
LEMMA AssignmentEdits ==
    ASSUME IInv, NEW c \in Callers,
           StoreSource(c) \/ RemoveSource(c) \/ StoreEvent(c) \/ RemoveEvent(c)
    PROVE  Promise!Edit(Records(snap[c]))
BY EditsBySource, EditsByRemovedSource, EditsByEvent, EditsByRemovedEvent
   DEF Promise!Edit, Promise!SourceData, SourceData, Promise!EventData, EventData,
       Promise!Frames, Frames

-----------------------------------------------------------------------------
(***************************************************************************)
(* What was there when the agent was last told: kept by each edit of a     *)
(* timeline that keeps it, provided the edit names only ids the call was   *)
(* given, or new ones.                                                     *)
(***************************************************************************)
Known(from) ==
    /\ from.timeline \in Timelines \cup {None}
    /\ IdsIn(from.timeline) \subseteq from.created

\* A missing timeline counts as an empty one.
LEMMA ContentOf ==
    ASSUME NEW t \in Timelines \cup {None}
    PROVE  /\ Content(t) \in Timelines
           /\ IdsIn(t) = DOMAIN Content(t).sources \cup DOMAIN Content(t).events
           /\ DOMAIN Content(t).sources \subseteq SourceIds
           /\ DOMAIN Content(t).events \subseteq EventIds
           /\ t \in Timelines => Content(t) = t
           /\ t = None => Content(t) = EmptyTimeline
<1>1. CASE t = None
  <2>1. DOMAIN EmptyTimeline.sources = {} /\ DOMAIN EmptyTimeline.events = {} /\ IdsIn(None) = {}
    BY EmptyIds, EmptyTimelineOK, IdsOfTimeline DEF IdsIn
  <2> QED  BY <1>1, <2>1, EmptyTimelineOK, NoneAssumption DEF Content
<1>2. CASE t \in Timelines
  BY <1>2, IdsOfTimeline, DomainsOfTimeline DEF Content
<1> QED  BY <1>1, <1>2

LEMMA KeepsItself ==
    ASSUME NEW from, NEW R, NEW W PROVE Keeps(from.timeline, from, R, W)
BY DEF Keeps

LEMMA KeepsPutSource ==
    ASSUME NEW from, Known(from), NEW R, NEW W, NEW t \in Timelines, Keeps(t, from, R, W),
           NEW i \in SourceIds, NEW obj, PutSource(t, i, obj) \in Timelines,
           i \in from.created => i \in W /\ i \in DOMAIN t.sources
    PROVE  Keeps(PutSource(t, i, obj), from, R, W)
<1> DEFINE u == PutSource(t, i, obj)
           then == Content(from.timeline)
<1>1. Content(t) = t /\ Content(u) = u
      /\ IdsIn(t) = DOMAIN t.sources \cup DOMAIN t.events
      /\ IdsIn(u) = DOMAIN u.sources \cup DOMAIN u.events
  BY ContentOf
<1>2. /\ DOMAIN u.sources = DOMAIN t.sources \cup {i} /\ u.events = t.events
      /\ \A x \in DOMAIN t.sources \ {i} : u.sources[x] = t.sources[x]
  BY DEF PutSource, Put
<1>3. DOMAIN then.sources \subseteq from.created
  BY ContentOf DEF Known
<1> HIDE DEF u
<1> QED  BY <1>1, <1>2, <1>3 DEF Keeps, u

LEMMA KeepsPutEvent ==
    ASSUME NEW from, Known(from), NEW R, NEW W, NEW t \in Timelines, Keeps(t, from, R, W),
           NEW i \in EventIds, NEW e, PutEvent(t, i, e) \in Timelines,
           i \in from.created => i \in W /\ i \in DOMAIN t.events
    PROVE  Keeps(PutEvent(t, i, e), from, R, W)
<1> DEFINE u == PutEvent(t, i, e)
           then == Content(from.timeline)
<1>1. Content(t) = t /\ Content(u) = u
      /\ IdsIn(t) = DOMAIN t.sources \cup DOMAIN t.events
      /\ IdsIn(u) = DOMAIN u.sources \cup DOMAIN u.events
  BY ContentOf
<1>2. /\ DOMAIN u.events = DOMAIN t.events \cup {i} /\ u.sources = t.sources
      /\ \A x \in DOMAIN t.events \ {i} : u.events[x] = t.events[x]
  BY DEF PutEvent, Put
<1>3. DOMAIN then.events \subseteq from.created
  BY ContentOf DEF Known
<1> HIDE DEF u
<1> QED  BY <1>1, <1>2, <1>3 DEF Keeps, u

LEMMA KeepsDropSource ==
    ASSUME NEW from, Known(from), NEW R, NEW W, NEW t \in Timelines, Keeps(t, from, R, W),
           NEW i \in R, DropSource(t, i) \in Timelines
    PROVE  Keeps(DropSource(t, i), from, R, W)
<1> DEFINE u == DropSource(t, i)
           then == Content(from.timeline)
<1>1. Content(t) = t /\ Content(u) = u
      /\ IdsIn(t) = DOMAIN t.sources \cup DOMAIN t.events
      /\ IdsIn(u) = DOMAIN u.sources \cup DOMAIN u.events
  BY ContentOf
<1>2. /\ DOMAIN u.sources = DOMAIN t.sources \ {i} /\ DOMAIN u.events = DOMAIN t.events
      /\ \A x \in DOMAIN t.sources \ {i} : u.sources[x] = t.sources[x]
      /\ \A x \in DOMAIN t.events : t.events[x].source # i => u.events[x] = t.events[x]
  BY DEF DropSource, Drop
<1> HIDE DEF u
<1> QED  BY <1>1, <1>2 DEF Keeps, u

LEMMA KeepsDropEvent ==
    ASSUME NEW from, Known(from), NEW R, NEW W, NEW t \in Timelines, Keeps(t, from, R, W),
           NEW i \in R, DropEvent(t, i) \in Timelines
    PROVE  Keeps(DropEvent(t, i), from, R, W)
<1> DEFINE u == DropEvent(t, i)
           then == Content(from.timeline)
<1>1. Content(t) = t /\ Content(u) = u
      /\ IdsIn(t) = DOMAIN t.sources \cup DOMAIN t.events
      /\ IdsIn(u) = DOMAIN u.sources \cup DOMAIN u.events
  BY ContentOf
<1>2. /\ DOMAIN u.events = DOMAIN t.events \ {i} /\ u.sources = t.sources
      /\ \A x \in DOMAIN t.events \ {i} : u.events[x] = t.events[x]
  BY DEF DropEvent, Drop
<1> HIDE DEF u
<1> QED  BY <1>1, <1>2 DEF Keeps, u

-----------------------------------------------------------------------------
(***************************************************************************)
(* A run of the agent.  Outside the tools node no call is under way and    *)
(* the timeline is the one the agent was told of.  In it, every timeline a *)
(* call may still assign stood since then and keeps what was there; a call *)
(* creates a timeline only if there was none.                              *)
(***************************************************************************)
Phases == {"model", "dispatch", "tools", "final"} \cup Ended

AtRest ==
    /\ \A c \in Callers : pc[c] = "idle" /\ snap[c] = None /\ edits[c] = 0
    /\ outset = [timeline |-> timeline, created |-> created]

\* What the history says of the timeline and of those the calls hold.
Held ==
    /\ Records(timeline) \in stood /\ Records(outset.timeline) \in stood
    /\ \A c \in Callers : pc[c] = "store" => Records(snap[c]) \in stood

Kept ==
    /\ Keeps(timeline, outset, Removed, Rewritten)
    /\ \A c \in Callers : pc[c] = "store" => Keeps(snap[c], outset, Removed, Rewritten)

\* A timeline is created only in place of a missing one: the one the agent was
\* told of, and when no other call writes the one there is.
Created ==
    /\ Known(outset) /\ outset.created \subseteq created
    /\ outset.timeline # None => timeline # None
    /\ \A c \in Callers : pc[c] = "fill" =>
          outset.timeline = None /\ IsWrite(call[c]) /\ (LoneWriter => timeline = None)

AgentInv ==
    /\ IInv
    /\ phase \in Phases
    /\ attempts \in [Callers -> Nat]
    /\ edits \in [Callers -> Nat]
    /\ Held /\ Created /\ AnswerMatchesEffect
    /\ phase # "tools" => AtRest
    /\ phase = "tools" => Kept
    /\ \A c \in Callers : pc[c] # "idle" => call[c] # None

LEMMA InitAgentInv == ASSUME AgentInit PROVE AgentInv
<1>1. IInv
  BY InitIInv DEF AgentInit
<1>2. Created
  BY <1>1 DEF AgentInit, Init, Created, Known, IInv, TypeOK, IdsCreated
<1>3. Held /\ AnswerMatchesEffect
  BY DEF AgentInit, Init, Held, AnswerMatchesEffect
<1> QED
  BY <1>1, <1>2, <1>3 DEF AgentInit, Init, AgentInv, Phases, AtRest

\* The first step of a call that is a write has checked its range.
LEMMA FirstStepOf ==
    ASSUME NEW k \in Calls
    PROVE  /\ FirstStep(k) \in {"read", "rejected", "ensure"}
           /\ FirstStep(k) = "ensure" =>
                 IsWrite(k) /\ (k.op = "upsert_event" => CheckFrameRange(k.start, k.end))
<1>1. k # None
  BY CallsAssumption
<1> QED  BY <1>1 DEF FirstStep, IsWrite

\* Steps taken outside the tools node, with nothing under way.
LEMMA RestKeeps ==
    ASSUME AgentInv, AtRest, UNCHANGED <<timeline, pc, snap, created, deleted, attempts, edits,
                                         outset, stood>>,
           call' \in [Callers -> Calls \cup {None}], phase' \in Phases \ {"tools"}
    PROVE  AgentInv'
<1>1. IInv'
  BY DEF AtRest, AgentInv, IInv, TypeOK, TimelineConsistent,
     EnsureNeverReturnsNone, SnapshotsConsistent, RangesChecked, Writing, TimelineReady, IdsCreated
<1>2. Held'
  BY DEF AtRest, AgentInv, Held
<1>3. Created'
  BY DEF AtRest, AgentInv, Created, Known
<1>4. AnswerMatchesEffect'
  BY DEF AtRest, AnswerMatchesEffect
<1> QED
  BY <1>1, <1>2, <1>3, <1>4 DEF AtRest, AgentInv

LEMMA ModelNodeKeeps ==
    ASSUME AgentInv, CallTools \/ FinalAnswer \/ ModelFails \/ Finish \/ RecursionLimit
    PROVE  AgentInv'
<1>1. /\ UNCHANGED <<timeline, pc, snap, created, deleted, attempts, edits, outset, stood>>
      /\ phase # "tools" /\ phase' \in Phases \ {"tools"}
  BY DEF CallTools, FinalAnswer, ModelFails, Finish, RecursionLimit, vars, callVars, history,
     Phases, Ended
<1>2. call' \in [Callers -> Calls \cup {None}]
  BY DEF CallTools, FinalAnswer, ModelFails, Finish, RecursionLimit, Batches, vars, callVars,
     AgentInv, IInv, TypeOK
<1> QED  BY <1>1, <1>2, RestKeeps DEF AgentInv

LEMMA StartToolsKeeps == ASSUME AgentInv, StartTools PROVE AgentInv'
<1>1. AtRest /\ \A c \in Callers : snap[c] = None /\ edits[c] = 0 /\ call[c] \in Calls \cup {None}
  BY DEF StartTools, AgentInv, AtRest, IInv, TypeOK
<1>2. UNCHANGED <<timeline, call, snap, created, deleted, attempts, edits, outset, stood>>
  BY DEF StartTools, history
<1>3. pc' \in [Callers -> {"idle", "read", "rejected", "ensure"}]
  BY <1>1, FirstStepOf DEF StartTools
<1>4. \A c \in Callers : pc'[c] # "idle" => call[c] # None
  BY DEF StartTools
<1>5. \A c \in Callers : pc'[c] \in Writing =>
         /\ pc'[c] = "ensure" /\ IsWrite(call[c])
         /\ call[c].op = "upsert_event" => CheckFrameRange(call[c].start, call[c].end)
  BY <1>1, FirstStepOf DEF StartTools, Writing
<1>6. IInv'
  <2>1. TypeOK'
    BY <1>2, <1>3 DEF AgentInv, IInv, TypeOK, Labels
  <2>2. TimelineConsistent' /\ SnapshotsConsistent' /\ IdsCreated'
    BY <1>2 DEF AgentInv, IInv, TimelineConsistent, SnapshotsConsistent, IdsCreated
  <2>3. EnsureNeverReturnsNone' /\ TimelineReady' /\ RangesChecked'
    BY <1>2, <1>3, <1>5 DEF EnsureNeverReturnsNone, TimelineReady, RangesChecked
  <2> QED  BY <2>1, <2>2, <2>3 DEF IInv
<1>7. Held' /\ Created'
  BY <1>2, <1>3 DEF AgentInv, Held, Created, Known
<1>8. Kept'
  <2>1. Keeps(outset.timeline, outset, Removed', Rewritten')
    BY KeepsItself
  <2>2. outset.timeline = timeline
    BY <1>1 DEF AtRest
  <2> QED  BY <1>2, <1>3, <2>1, <2>2 DEF Kept
<1>9. AnswerMatchesEffect'
  BY <1>1, <1>2 DEF AnswerMatchesEffect
<1> QED
  BY <1>2, <1>4, <1>6, <1>7, <1>8, <1>9 DEF StartTools, AgentInv, Phases

LEMMA RetryKeeps == ASSUME AgentInv, NEW c \in Callers, Retry(c) PROVE AgentInv'
<1>1. /\ pc[c] = "rejected" /\ pc' = [pc EXCEPT ![c] = FirstStep(call[c])]
      /\ snap' = [snap EXCEPT ![c] = None] /\ attempts' = [attempts EXCEPT ![c] = @ + 1]
      /\ phase = "tools"
      /\ UNCHANGED <<timeline, call, created, deleted, phase, edits, outset, stood>>
  BY DEF Retry, Goto, history
<1>2. call[c] \in Calls
  BY <1>1 DEF AgentInv, IInv, TypeOK
<1>3. /\ FirstStep(call[c]) \in {"read", "rejected", "ensure"}
      /\ FirstStep(call[c]) = "ensure" =>
            IsWrite(call[c]) /\ (call[c].op = "upsert_event" =>
                                    CheckFrameRange(call[c].start, call[c].end))
  BY <1>2, FirstStepOf
<1>4. IdsIn(None) = {}
  BY DEF IdsIn
<1>5. TypeOK'
  BY <1>1, <1>3 DEF AgentInv, IInv, TypeOK, Labels
<1>6. IInv'
  BY <1>1, <1>3, <1>4, <1>5 DEF AgentInv, IInv, TypeOK, TimelineConsistent,
     EnsureNeverReturnsNone, SnapshotsConsistent, RangesChecked, Writing, TimelineReady, IdsCreated
<1>7. pc \in [Callers -> Labels] /\ snap \in [Callers -> Timelines \cup {None}]
  BY DEF AgentInv, IInv, TypeOK
<1>8. \A d \in Callers : pc'[d] \in {"fill", "store"} => pc'[d] = pc[d] /\ snap'[d] = snap[d]
  BY <1>1, <1>3, <1>7
<1>9. Removed' = Removed /\ Rewritten' = Rewritten /\ LoneWriter' = LoneWriter
  BY <1>1 DEF Removed, Rewritten, Given, LoneWriter
<1>10. Held'
  BY <1>1, <1>8 DEF AgentInv, Held
<1>11. Created'
  BY <1>1, <1>8, <1>9 DEF AgentInv, Created, Known
<1>12. Kept'
  BY <1>1, <1>8, <1>9 DEF AgentInv, Kept
<1>13. AnswerMatchesEffect'
  BY <1>1, <1>3, <1>7, <1>9 DEF AgentInv, AnswerMatchesEffect
<1>14. attempts' \in [Callers -> Nat]
  BY <1>1 DEF AgentInv
<1>15. \A d \in Callers : pc'[d] # "idle" => call'[d] # None
  BY <1>1, <1>2, <1>7, CallsAssumption DEF AgentInv
<1> QED
  BY <1>1, <1>6, <1>10, <1>11, <1>12, <1>13, <1>14, <1>15 DEF AgentInv

LEMMA JoinToolsKeeps == ASSUME AgentInv, JoinTools PROVE AgentInv'
<1>1. IdsIn(None) = {}
  BY DEF IdsIn
<1>2. IInv'
  BY <1>1 DEF JoinTools, history, AgentInv, IInv, TypeOK, Labels, TimelineConsistent,
     EnsureNeverReturnsNone, SnapshotsConsistent, RangesChecked, Writing, TimelineReady, IdsCreated
<1>3. Created'
  BY DEF JoinTools, history, AgentInv, IInv, TypeOK, IdsCreated, Created, Known
<1>4. Held'
  BY DEF JoinTools, Held
<1> QED
  BY <1>2, <1>3, <1>4 DEF JoinTools, history, AgentInv, Phases, AtRest, AnswerMatchesEffect

-----------------------------------------------------------------------------
\* The step of a tool.
Assigns(c) == StoreSource(c) \/ RemoveSource(c) \/ StoreEvent(c) \/ RemoveEvent(c)

Looks(c) == ReadTimeline(c) \/ CheckNone(c) \/ Snapshot(c) \/ Reject(c)

\* The ids a call is given are among those of its batch.
LEMMA GivenToCall ==
    ASSUME IInv, NEW c \in Callers, NEW op, Accepted(c, op)
    PROVE  /\ op \in {"delete_source", "delete_event"} => call[c].id \in Removed
           /\ op \in {"upsert_source", "upsert_event"} => call[c].id \in Rewritten
<1>1. IsWrite(call[c]) /\ call[c].op = op
  BY DEF Accepted, IInv, RangesChecked, Writing
<1> QED  BY <1>1 DEF Removed, Rewritten, Given

\* An assignment keeps what was there, if the timeline it edits does.
LEMMA AssignsKeeps ==
    ASSUME IInv, Created, NEW c \in Callers, Assigns(c),
           Keeps(snap[c], outset, Removed, Rewritten)
    PROVE  Keeps(timeline', outset, Removed, Rewritten)
<1> DEFINE t == snap[c]
           R == Removed
           W == Rewritten
           from == outset
<1>1. CASE StoreSource(c)
  <2>1. PICK i \in WrittenId(c, SourceIds) : timeline' = PutSource(t, i, call[c].object)
    BY <1>1 DEF StoreSource
  <2>2. Accepted(c, "upsert_source")
    BY <1>1 DEF StoreSource
  <2>3. /\ i \in SourceIds /\ call[c].id \in W /\ t \in Timelines /\ Consistent(t)
        /\ call[c].object \in SourceData
        /\ i \in created => i = call[c].id /\ i \in DOMAIN t.sources
    BY <2>2, WrittenIdNewOrHeld, GivenToCall, AcceptedCall DEF Calls
  <2>4. PutSource(t, i, call[c].object) \in Timelines
    BY <2>3, PutSourceOK
  <2>5. Known(from) /\ from.created \subseteq created
    BY DEF Created
  <2> HIDE DEF t, R, W, from
  <2>6. Keeps(t, from, R, W)
    BY DEF t, R, W, from
  <2>7. Keeps(PutSource(t, i, call[c].object), from, R, W)
    BY <2>3, <2>4, <2>5, <2>6, KeepsPutSource
  <2> QED  BY <2>1, <2>7 DEF R, W, from
<1>2. CASE StoreEvent(c)
  <2> DEFINE e == NewEvent(call[c])
  <2>1. PICK i \in WrittenId(c, EventIds) : timeline' = PutEvent(t, i, e)
    BY <1>2 DEF StoreEvent
  <2>2. Accepted(c, "upsert_event")
    BY <1>2 DEF StoreEvent
  <2>3. /\ i \in EventIds /\ call[c].id \in W /\ t \in Timelines /\ Consistent(t)
        /\ i \in created => i = call[c].id /\ i \in DOMAIN t.events
    BY <2>2, WrittenIdNewOrHeld, GivenToCall, AcceptedCall
  <2>4. /\ e \in EventData /\ CheckFrameRange(e.start, e.end)
        /\ e.source \in DOMAIN t.sources \cup {None}
    BY <2>2, AcceptedEvent
  <2> HIDE DEF e
  <2>5. PutEvent(t, i, e) \in Timelines
    BY <2>3, <2>4, PutEventOK
  <2>6. Known(from) /\ from.created \subseteq created
    BY DEF Created
  <2> HIDE DEF t, R, W, from
  <2>7. Keeps(t, from, R, W)
    BY DEF t, R, W, from
  <2>8. Keeps(PutEvent(t, i, e), from, R, W)
    BY <2>3, <2>5, <2>6, <2>7, KeepsPutEvent
  <2> QED  BY <2>1, <2>8 DEF R, W, from
<1>3. CASE RemoveSource(c)
  <2> DEFINE i == call[c].id
  <2>1. Accepted(c, "delete_source") /\ timeline' = DropSource(t, i)
    BY <1>3 DEF RemoveSource
  <2>2. i \in SourceIds /\ i \in R /\ t \in Timelines /\ Consistent(t)
    BY <2>1, GivenToCall, AcceptedCall DEF Calls
  <2>3. Known(from)
    BY DEF Created
  <2> HIDE DEF i, t, R, W, from
  <2>4. Keeps(t, from, R, W)
    BY DEF t, R, W, from
  <2>5. Keeps(DropSource(t, i), from, R, W)
    BY <2>2, <2>3, <2>4, DropSourceOK, KeepsDropSource
  <2> QED  BY <2>1, <2>5 DEF R, W, from
<1>4. CASE RemoveEvent(c)
  <2> DEFINE i == call[c].id
  <2>1. Accepted(c, "delete_event") /\ timeline' = DropEvent(t, i)
    BY <1>4 DEF RemoveEvent
  <2>2. i \in EventIds /\ i \in R /\ t \in Timelines /\ Consistent(t)
    BY <2>1, GivenToCall, AcceptedCall DEF Calls
  <2>3. Known(from)
    BY DEF Created
  <2> HIDE DEF i, t, R, W, from
  <2>4. Keeps(t, from, R, W)
    BY DEF t, R, W, from
  <2>5. Keeps(DropEvent(t, i), from, R, W)
    BY <2>2, <2>3, <2>4, DropEventOK, KeepsDropEvent
  <2> QED  BY <2>1, <2>5 DEF R, W, from
<1> QED  BY <1>1, <1>2, <1>3, <1>4 DEF Assigns

\* What a tool assigns is a timeline.
LEMMA AssignsTimeline ==
    ASSUME IInv, NEW c \in Callers, Assigns(c)
    PROVE  timeline' \in Timelines /\ timeline' # None /\ created \subseteq created'
<1>1. CASE StoreSource(c)
  <2>1. PICK i \in WrittenId(c, SourceIds) : timeline' = PutSource(snap[c], i, call[c].object)
    BY <1>1 DEF StoreSource
  <2>2. Accepted(c, "upsert_source") /\ created \subseteq created'
    BY <1>1 DEF StoreSource
  <2> QED  BY <2>1, <2>2, WrittenIdNewOrHeld, AcceptedCall, PutSourceOK, NoneAssumption DEF Calls
<1>2. CASE StoreEvent(c)
  <2>1. PICK i \in WrittenId(c, EventIds) : timeline' = PutEvent(snap[c], i, NewEvent(call[c]))
    BY <1>2 DEF StoreEvent
  <2>2. Accepted(c, "upsert_event") /\ created \subseteq created'
    BY <1>2 DEF StoreEvent
  <2> QED  BY <2>1, <2>2, WrittenIdNewOrHeld, AcceptedCall, AcceptedEvent, PutEventOK, NoneAssumption
<1>3. CASE RemoveSource(c)
  BY <1>3, AcceptedCall, DropSourceOK, NoneAssumption DEF RemoveSource, Calls
<1>4. CASE RemoveEvent(c)
  BY <1>4, AcceptedCall, DropEventOK, NoneAssumption DEF RemoveEvent, Calls
<1> QED  BY <1>1, <1>2, <1>3, <1>4 DEF Assigns

\* What every step of a tool leaves alone, and where it takes the call.
LEMMA WorkMoves ==
    ASSUME IInv, NEW c \in Callers, Work(c)
    PROVE  /\ Looks(c) \/ Fill(c) \/ Assigns(c)
           /\ pc[c] \notin {"idle", "returned"}
           /\ \E l \in Labels \ {"idle"} : Goto(c, l)
           /\ UNCHANGED call
           /\ Looks(c) => UNCHANGED <<timeline, created, deleted>>
           /\ Fill(c) => pc[c] = "fill" /\ timeline' = EmptyTimeline
                         /\ Goto(c, "snapshot") /\ UNCHANGED <<snap, created, deleted>>
           /\ Assigns(c) => pc[c] = "store" /\ Goto(c, "returned") /\ UNCHANGED snap
                            /\ timeline' # None /\ created \subseteq created'
<1>1. Assigns(c) => timeline' # None /\ created \subseteq created'
  BY AssignsTimeline
<1>2. Assigns(c) => pc[c] = "store" /\ Goto(c, "returned") /\ UNCHANGED <<call, snap>>
  BY DEF Assigns, StoreSource, RemoveSource, StoreEvent, RemoveEvent, Accepted
<1>3. Looks(c) => /\ UNCHANGED <<timeline, created, deleted, call>>
                  /\ \E l \in Labels \ {"idle"} : Goto(c, l)
                  /\ pc[c] \notin {"idle", "returned"}
  BY DEF Looks, ReadTimeline, CheckNone, Snapshot, Reject, history, Labels
<1> QED
  BY <1>1, <1>2, <1>3 DEF Work, Looks, Assigns, Fill, history, Labels

\* Only the call itself moves.
LEMMA OthersStay ==
    ASSUME IInv, NEW c \in Callers, Work(c), NEW d \in Callers, d # c
    PROVE  pc'[d] = pc[d] /\ snap'[d] = snap[d] /\ call'[d] = call[d]
<1>1. pc \in [Callers -> Labels] /\ snap \in [Callers -> Timelines \cup {None}]
  BY DEF IInv, TypeOK
<1> QED
  BY <1>1 DEF Work, ReadTimeline, CheckNone, Fill, Snapshot, Reject, StoreSource, RemoveSource,
     StoreEvent, RemoveEvent, Accepted, Goto

\* A call takes up the current timeline, or keeps what it has.
LEMMA SnapOf ==
    ASSUME IInv, NEW c \in Callers, Work(c), pc'[c] = "store"
    PROVE  snap'[c] = timeline /\ UNCHANGED timeline
<1>1. pc \in [Callers -> Labels] /\ snap \in [Callers -> Timelines \cup {None}]
  BY DEF IInv, TypeOK
<1> QED
  BY <1>1 DEF Work, ReadTimeline, CheckNone, Fill, Snapshot, Reject, StoreSource, RemoveSource,
     StoreEvent, RemoveEvent, Accepted, Goto, Labels

LEMMA RunToolHeld ==
    ASSUME AgentInv, NEW c \in Callers, RunTool(c) PROVE Held'
<1>1. Work(c) /\ stood' = stood \cup {Records(timeline')} /\ outset' = outset /\ IInv
  BY DEF RunTool, AgentInv
<1>2. ASSUME NEW d \in Callers, pc'[d] = "store" PROVE Records(snap'[d]) \in stood'
  BY <1>1, <1>2, OthersStay, SnapOf DEF AgentInv, Held
<1> QED  BY <1>1, <1>2 DEF AgentInv, Held, Records, SourceSet, EventSet

\* The batch stays what it is.
LEMMA BatchStays ==
    ASSUME UNCHANGED call
    PROVE  Removed' = Removed /\ Rewritten' = Rewritten /\ LoneWriter' = LoneWriter
BY DEF Removed, Rewritten, Given, LoneWriter

LEMMA RunToolKept ==
    ASSUME AgentInv, NEW c \in Callers, RunTool(c) PROVE Kept'
<1>1. Work(c) /\ outset' = outset /\ IInv /\ Created /\ Kept
  BY DEF RunTool, AgentInv
<1>2. Removed' = Removed /\ Rewritten' = Rewritten
  BY <1>1, WorkMoves, BatchStays
<1>3. Keeps(timeline', outset, Removed, Rewritten)
  <2>1. CASE Looks(c)
    BY <1>1, <2>1, WorkMoves DEF Kept
  <2>2. CASE Fill(c)
    <3>1. outset.timeline = None /\ timeline' = EmptyTimeline
      BY <1>1, <2>2, WorkMoves DEF Created
    <3>2. Keeps(None, outset, Removed, Rewritten)
      BY <3>1, KeepsItself
    <3>3. Content(EmptyTimeline) = Content(None) /\ IdsIn(EmptyTimeline) = IdsIn(None)
      BY EmptyIds DEF Content, IdsIn
    <3> QED  BY <3>1, <3>2, <3>3 DEF Keeps
  <2>3. CASE Assigns(c)
    BY <1>1, <2>3, WorkMoves, AssignsKeeps DEF Kept
  <2> QED  BY <1>1, <2>1, <2>2, <2>3, WorkMoves
<1>4. ASSUME NEW d \in Callers, pc'[d] = "store"
      PROVE  Keeps(snap'[d], outset, Removed, Rewritten)
  BY <1>1, <1>4, OthersStay, SnapOf DEF Kept
<1> QED  BY <1>1, <1>2, <1>3, <1>4 DEF Kept

LEMMA RunToolCreated ==
    ASSUME AgentInv, NEW c \in Callers, RunTool(c) PROVE Created'
<1>1. Work(c) /\ outset' = outset /\ call' = call /\ IInv /\ Created
  BY WorkMoves DEF RunTool, AgentInv
<1>2. LoneWriter' = LoneWriter
  BY <1>1, BatchStays
<1>3. EmptyTimeline # None
  BY EmptyTimelineOK, NoneAssumption
<1>4. created \subseteq created' /\ (timeline # None => timeline' # None)
  BY <1>1, <1>3, WorkMoves
<1>5. pc'[c] = "fill" => timeline = None /\ timeline' = None /\ IsWrite(call[c])
  <2>1. pc \in [Callers -> Labels]
    BY <1>1 DEF IInv, TypeOK
  <2>2. ASSUME pc'[c] = "fill" PROVE CheckNone(c) /\ timeline = None
    BY <1>1, <2>1, <2>2 DEF Work, ReadTimeline, CheckNone, Fill, Snapshot, Reject, StoreSource,
       RemoveSource, StoreEvent, RemoveEvent, Accepted, Goto
  <2> QED  BY <1>1, <2>2 DEF CheckNone, IInv, RangesChecked, Writing
<1>6. ASSUME NEW d \in Callers, d # c, pc'[d] = "fill"
      PROVE  /\ outset.timeline = None /\ IsWrite(call[d])
             /\ LoneWriter => timeline' = None
  <2>1. pc[d] = "fill" /\ IsWrite(call[d]) /\ outset.timeline = None
        /\ (LoneWriter => timeline = None)
    BY <1>1, <1>6, OthersStay DEF Created
  <2>2. LoneWriter => ~IsWrite(call[c])
    BY <1>6, <2>1 DEF LoneWriter
  <2>3. Fill(c) \/ Assigns(c) => IsWrite(call[c])
    BY <1>1, WorkMoves DEF IInv, RangesChecked, Writing
  <2> QED  BY <1>1, <2>1, <2>2, <2>3, WorkMoves
<1>7. pc'[c] = "fill" => outset.timeline = None
  BY <1>1, <1>5 DEF Created
<1> QED  BY <1>1, <1>2, <1>4, <1>5, <1>6, <1>7 DEF Created, Known

\* What a call changes is counted once, in the step it returns.
LEMMA RunToolAnswers ==
    ASSUME AgentInv, NEW c \in Callers, RunTool(c)
    PROVE  AnswerMatchesEffect' /\ edits' \in [Callers -> Nat]
<1>1. /\ Work(c) /\ outset' = outset /\ call' = call /\ IInv /\ Created /\ AnswerMatchesEffect
      /\ edits \in [Callers -> Nat] /\ pc \in [Callers -> Labels]
  BY WorkMoves DEF RunTool, AgentInv, IInv, TypeOK
<1>2. edits' \in [Callers -> Nat] /\ \A d \in Callers \ {c} : edits'[d] = edits[d] /\ pc'[d] = pc[d]
  BY <1>1, OthersStay DEF RunTool
<1>3. LoneWriter' = LoneWriter
  BY <1>1, BatchStays
<1>4. ASSUME outset.timeline # None \/ LoneWriter
      PROVE  edits'[c] <= 1 /\ (edits'[c] = 1 => pc'[c] = "returned")
  <2>1. edits[c] = 0
    BY <1>1, <1>4, WorkMoves DEF AnswerMatchesEffect
  <2>2. CASE Content(timeline') = Content(timeline)
    BY <1>1, <2>1, <2>2 DEF RunTool
  <2>3. CASE Content(timeline') # Content(timeline)
    <3>1. ~Fill(c)
      <4>1. Fill(c) => timeline = None /\ timeline' = EmptyTimeline
        BY <1>1, <1>4, WorkMoves DEF Created
      <4>2. Content(EmptyTimeline) = Content(None)
        BY DEF Content
      <4> QED  BY <2>3, <4>1, <4>2
    <3>2. Goto(c, "returned")
      BY <1>1, <2>3, <3>1, WorkMoves
    <3>3. edits' = [edits EXCEPT ![c] = @ + 1]
      BY <2>3 DEF RunTool
    <3> QED  BY <1>1, <2>1, <3>2, <3>3 DEF Goto
  <2> QED  BY <2>2, <2>3
<1> QED  BY <1>1, <1>2, <1>3, <1>4 DEF AnswerMatchesEffect

LEMMA RunToolKeeps ==
    ASSUME AgentInv, NEW c \in Callers, RunTool(c) PROVE AgentInv'
<1>1. Work(c) /\ phase = "tools" /\ UNCHANGED <<phase, attempts>> /\ IInv
  BY DEF RunTool, AgentInv
<1>2. IInv'
  BY <1>1, NextIInv DEF Next
<1>3. \A d \in Callers : pc'[d] # "idle" => call'[d] # None
  <2>1. pc \in [Callers -> Labels] /\ call' = call
    BY <1>1, WorkMoves DEF IInv, TypeOK
  <2>2. pc[c] # "idle"
    BY <1>1, WorkMoves
  <2> QED  BY <1>1, <2>1, <2>2, OthersStay DEF AgentInv
<1> QED
  BY <1>1, <1>2, <1>3, RunToolHeld, RunToolKept, RunToolCreated, RunToolAnswers DEF AgentInv

LEMMA AgentNextInv == ASSUME AgentInv, [AgentNext]_allVars PROVE AgentInv'
<1>1. CASE UNCHANGED allVars
  BY <1>1 DEF allVars, agentVars, vars, callVars, history, AgentInv, Held, Kept, Created, Known,
     IInv, TypeOK, TimelineConsistent, EnsureNeverReturnsNone, SnapshotsConsistent,
     RangesChecked, TimelineReady, IdsCreated, AtRest, AnswerMatchesEffect, LoneWriter,
     Removed, Rewritten, Given
<1>2. CASE ModelNode
  BY <1>2, ModelNodeKeeps DEF ModelNode
<1>3. CASE Runtime
  BY <1>3, StartToolsKeeps, JoinToolsKeeps, RunToolKeeps, RetryKeeps, ModelNodeKeeps DEF Runtime
<1> QED  BY <1>1, <1>2, <1>3 DEF AgentNext

LEMMA AgentInvariance == AgentSpec => []AgentInv
BY InitAgentInv, AgentNextInv, PTL DEF AgentSpec

-----------------------------------------------------------------------------
\* A tool call the agent is told has failed has left no trace, however often it
\* was retried, and one it is told has succeeded was applied once at most; only
\* where several calls of one answer write to an asset without a timeline may
\* the creation of one undo an edit.
THEOREM AnswersMatchEffects == AgentSpec => []AnswerMatchesEffect
<1>1. AgentInv => AnswerMatchesEffect
  BY DEF AgentInv
<1> QED  BY <1>1, AgentInvariance, PTL

\* Whatever calls an answer runs side by side, what the agent was told before
\* it still holds, but for what the calls are asked to delete or rewrite.
THEOREM AgentKeepsEarlierEdits == AgentSpec => []EarlierEditsHold
<1>1. AgentInv => EarlierEditsHold
  BY DEF AgentInv, Kept, EarlierEditsHold
<1> QED  BY <1>1, AgentInvariance, PTL

-----------------------------------------------------------------------------
\* A run starts where the promise starts: no edit has been made.
LEMMA RefinesInit == ASSUME AgentInit PROVE Promise!AInit
<1>1. created = IdsIn(timeline) /\ timeline \in Timelines \cup {None} /\ stood = {Records(timeline)}
  BY LoadedAssumption DEF AgentInit, Init
<1>2. Promise!IdsOf(SourceSet(timeline)) \cup Promise!IdsOf(EventSet(timeline)) = IdsIn(timeline)
  <2>1. Content(timeline) \in Timelines
        /\ IdsIn(timeline) = DOMAIN Content(timeline).sources \cup DOMAIN Content(timeline).events
    BY <1>1, ContentOf
  <2>2. Content(Content(timeline)) = Content(timeline)
    BY DEF Content
  <2>3. SourceSet(timeline) = SourceSet(Content(timeline))
        /\ EventSet(timeline) = EventSet(Content(timeline))
    BY <2>2 DEF SourceSet, EventSet
  <2> QED  BY <2>1, <2>3, RecordIds
<1> QED  BY <1>1, <1>2 DEF Promise!AInit, Promise!Standing, Records

\* A step of a tool applies an edit to a timeline that stood, creates the
\* missing timeline, or leaves everything alone.
LEMMA RefinesRunTool ==
    ASSUME AgentInv, NEW c \in Callers, RunTool(c)
    PROVE  Promise!Apply \/ UNCHANGED Promise!abstractVars
<1>1. Work(c) /\ IInv /\ Held /\ Created /\ stood' = stood \cup {Records(timeline')}
  BY DEF RunTool, AgentInv
<1>2. Promise!Standing' = Records(timeline')
  BY DEF Promise!Standing, Records
<1>3. CASE Looks(c)
  <2>1. timeline' = timeline /\ created' = created /\ stood' = stood
    BY <1>1, <1>3, WorkMoves DEF Held
  <2> QED  BY <2>1 DEF Promise!abstractVars
<1>4. CASE Fill(c)
  <2>1. outset.timeline = None /\ timeline' = EmptyTimeline /\ created' = created
    BY <1>1, <1>4, WorkMoves DEF Created
  <2>2. [sources |-> {}, events |-> {}] \in stood
    BY <1>1, <2>1, RecordsOfNone DEF Held
  <2>3. SourceSet(timeline') = {} /\ EventSet(timeline') = {}
    BY <2>1, RecordsOfNone DEF Records
  <2>4. Promise!Create
    BY <2>1, <2>2, <2>3 DEF Promise!Create
  <2> QED  BY <1>1, <1>2, <2>4 DEF Promise!Apply
<1>5. CASE Assigns(c)
  <2>1. pc[c] = "store" /\ Records(snap[c]) \in stood
    BY <1>1, <1>5, WorkMoves DEF Held
  <2>2. Promise!Edit(Records(snap[c]))
    BY <1>1, <1>5, AssignmentEdits DEF Assigns
  <2> QED  BY <1>1, <1>2, <2>1, <2>2 DEF Promise!Apply
<1> QED  BY <1>1, <1>3, <1>4, <1>5, WorkMoves

LEMMA RefinesNext ==
    ASSUME AgentInv, [AgentNext]_allVars
    PROVE  [Promise!Apply \/ Promise!Told]_(Promise!abstractVars)
<1>1. ASSUME NEW c \in Callers, RunTool(c)
      PROVE  Promise!Apply \/ UNCHANGED Promise!abstractVars
  BY <1>1, RefinesRunTool
<1>2. ASSUME JoinTools PROVE Promise!Told
  BY <1>2 DEF JoinTools, history, Promise!Told, Promise!Standing, Records
<1>3. ASSUME UNCHANGED <<timeline, created, stood>> PROVE UNCHANGED Promise!abstractVars
  BY <1>3 DEF Promise!abstractVars
<1> QED
  BY <1>1, <1>2, <1>3 DEF AgentNext, ModelNode, Runtime, CallTools, FinalAnswer, ModelFails,
     StartTools, Retry, Finish, RecursionLimit, allVars, agentVars, vars, history

\* A run implements SoundTimeline, retries included: every assignment to the
\* timeline is one edit of a timeline that stood since the agent was last told.
THEOREM AgentImplementsTimeline == AgentSpec => EditsOfTheAnswer
BY RefinesInit, RefinesNext, AgentInvariance, PTL
   DEF AgentSpec, EditsOfTheAnswer, Promise!ASpec
=============================================================================
