---------------------------- MODULE SoundTimeline ----------------------------
(***************************************************************************)
(* What the sound timeline tools promise to the agent that uses them.  The *)
(* agent is told the outcome of all the tool calls of one answer together. *)
(* Each of those that reports success is one edit of a timeline that stood *)
(* since the agent was last told, each that reports an error changes       *)
(* nothing, and an id is never used for a second record.  With one writing *)
(* call in an answer the edit is applied to the timeline as it stands.     *)
(***************************************************************************)
EXTENDS TimelineData

VARIABLES sources,  \* set of records [id, object]
          events,   \* set of records [id, start, end, source]
          used,     \* every id a record of the timeline ever had
          stood     \* the timelines since the agent was last told

abstractVars == <<sources, events, used, stood>>

IdsOf(R) == {r.id : r \in R}

SourceRecord(i, obj) == [id |-> i, object |-> obj]

EventRecord(i, e) == [id |-> i, start |-> e.start, end |-> e.end, source |-> e.source]

Standing == [sources |-> sources, events |-> events]

\* The timeline the asset came with, if it came with one.
AInit ==
    /\ used = IdsOf(sources) \cup IdsOf(events)
    /\ stood = {Standing}

\* The source id is new to the agent's asset, or one the timeline t holds.
WriteSource(t, i, obj) ==
    /\ i \in used => i \in IdsOf(t.sources)
    /\ sources' = {r \in t.sources : r.id # i} \cup {SourceRecord(i, obj)}
    /\ events' = t.events
    /\ used' = used \cup {i}

RemoveSource(t, i) ==
    /\ i \in IdsOf(t.sources)
    /\ sources' = {r \in t.sources : r.id # i}
    /\ events' = {r \in t.events : r.source # i}
                 \cup {[r EXCEPT !.source = None] : r \in {q \in t.events : q.source = i}}
    /\ UNCHANGED used

WriteEvent(t, i, e) ==
    /\ i \in used => i \in IdsOf(t.events)
    /\ e.source \in IdsOf(t.sources) \cup {None}
    /\ CheckFrameRange(e.start, e.end)
    /\ events' = {r \in t.events : r.id # i} \cup {EventRecord(i, e)}
    /\ sources' = t.sources
    /\ used' = used \cup {i}

RemoveEvent(t, i) ==
    /\ i \in IdsOf(t.events)
    /\ events' = {r \in t.events : r.id # i}
    /\ sources' = t.sources
    /\ UNCHANGED used

\* A call that found no timeline puts an empty one in place.
Create ==
    /\ [sources |-> {}, events |-> {}] \in stood
    /\ sources' = {}
    /\ events' = {}
    /\ UNCHANGED used

Edit(t) ==
    \/ \E i \in SourceIds : RemoveSource(t, i) \/ \E obj \in SourceData : WriteSource(t, i, obj)
    \/ \E i \in EventIds : RemoveEvent(t, i) \/ \E e \in EventData : WriteEvent(t, i, e)

Apply ==
    /\ Create \/ \E t \in stood : Edit(t)
    /\ stood' = stood \cup {Standing'}

Told == stood' = {Standing} /\ UNCHANGED <<sources, events, used>>

ASpec == AInit /\ [][Apply \/ Told]_abstractVars
=============================================================================
