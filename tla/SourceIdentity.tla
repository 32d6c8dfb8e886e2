---------------------------- MODULE SourceIdentity ----------------------------
(***************************************************************************)
(* SourceIdentity: how the retired pipeline (old/) makes sounds of tracks. *)
(* The tracks are cut out of the pictures and embedded; pairs that look    *)
(* and are labelled alike become identity edges, lists of look-alikes      *)
(* become candidate groups, and both together decide which tracks are one  *)
(* physical source.  A model interprets every source: it is a bed of       *)
(* ambience, or it is heard in each of its spans, or in none.  Another     *)
(* judges which events are generated together, a third chooses a route.    *)
(*                                                                         *)
(* Times are milliseconds, scores and similarities thousandths.  The       *)
(* embedding, the labels and the three models are external.                *)
(***************************************************************************)
EXTENDS Integers, Sequences, FiniteSets, FiniteSetsExt, SequencesExt

CONSTANTS TrackLists,      \* extracted tracks: [scene, start, end, boxes, labels]
          Similarities,    \* similarity of two embeddings
          Interpretations, \* [kind, audibility, label] of a source
          Routes,          \* of a generation group
          ImageSize,       \* width of a picture; its height is treated alike
          NoAnswer         \* a model has failed, or leaves a field alone

SameWindowThreshold == 995
CrossWindowThreshold == 920
GroupThreshold == 860
SameSceneThreshold == 920
MinimumGroupConfidence == 750
LabelsCompared == 3
PairGap == 2000

ExtractedTracks == [scene : Nat, start : Nat, end : Nat, boxes : SUBSET (Nat \X Nat),
                 labels : Seq([label : STRING, score : Nat])]

ASSUME IdentityAssumption ==
    /\ Similarities \subseteq -1000..1000
    /\ ImageSize \in Nat \ {0}
    /\ TrackLists \subseteq Seq(ExtractedTracks)
    /\ \A list \in TrackLists : \A i \in DOMAIN list : \A b \in list[i].boxes :
          b[1] < b[2] /\ b[2] <= ImageSize

VARIABLES tracks,      \* in the order of their ids
          similarity,  \* of two tracks, the earlier in the list first
          crops,       \* track -> crop boxes
          edges,       \* accepted identity edges
          lookAlikes,  \* candidate groups
          sources,     \* physical sources, in their order
          events,      \* sound events, in their order
          beds,        \* sources that are ambience beds
          groups,      \* generation groups of events; every bed has one of its own
          routes,
          identityStage

identityVars == <<tracks, similarity, crops, edges, lookAlikes, sources, events,
                  beds, groups, routes, identityStage>>

Pairs(s) == {p \in (DOMAIN s) \X (DOMAIN s) : p[1] < p[2]}

IdentityInit ==
    /\ tracks \in TrackLists
    /\ similarity \in [Pairs(tracks) -> Similarities]
    /\ crops = <<>> /\ edges = {} /\ lookAlikes = <<>>
    /\ sources = <<>> /\ events = <<>> /\ beds = {} /\ groups = {} /\ routes = <<>>
    /\ identityStage = "crop"

\* The members of S in the order in which before[x] come before x.
OrderedBy(S, before) ==
    [k \in 1..Cardinality(S) |-> CHOOSE x \in S : Cardinality(before[x]) = k - 1]

SmallerOf(a, b) == IF a < b THEN a ELSE b
LargerOf(a, b) == IF a > b THEN a ELSE b

-----------------------------------------------------------------------------
(***************************************************************************)
(* crop_tracks.                                                            *)
(***************************************************************************)
\* round() of a tenth, a tie to the even neighbour.
RoundedTenth(n) ==
    LET q == n \div 10
    IN  IF n % 10 < 5 \/ (n % 10 = 5 /\ q % 2 = 0) THEN q ELSE q + 1

\* Mutant: the padding is not cut off at the far side.
PadBoxUncut(b) ==
    LET pad == LargerOf(RoundedTenth(LargerOf(b[2] - b[1], 1)), 1)
    IN  <<LargerOf(b[1] - pad, 0), b[2] + pad>>

PadBox(b) ==
    LET pad == LargerOf(RoundedTenth(LargerOf(b[2] - b[1], 1)), 1)
    IN  <<LargerOf(b[1] - pad, 0), SmallerOf(b[2] + pad, ImageSize)>>

\* A point without a mask and without a box is not cropped.
CropTracks ==
    /\ identityStage = "crop"
    /\ crops' = [t \in DOMAIN tracks |-> {PadBox(b) : b \in tracks[t].boxes}]
    /\ identityStage' = "identity"
    /\ UNCHANGED <<tracks, similarity, edges, lookAlikes, sources, events, beds, groups, routes>>

Embedded(t) == crops[t] # {}

-----------------------------------------------------------------------------
(***************************************************************************)
(* build_identity_edges and group_entity_embeddings.                       *)
(***************************************************************************)
FirstLabels(t) ==
    {tracks[t].labels[i].label : i \in 1..SmallerOf(LabelsCompared, Len(tracks[t].labels))}

LabelCompatibility(i, j) ==
    IF FirstLabels(i) = {} \/ FirstLabels(j) = {} THEN 500
    ELSE IF FirstLabels(i) \cap FirstLabels(j) # {} THEN 1000 ELSE 0

SameWindow(i, j) == tracks[i].scene = tracks[j].scene

ContinuityBonus(i, j) ==
    LET gap == tracks[j].start - tracks[i].end
    IN  CASE SameWindow(i, j) -> 0
          [] ~SameWindow(i, j) /\ gap <= 1500 -> 100
          [] ~SameWindow(i, j) /\ 1500 < gap /\ gap <= 4000 -> 50
          [] OTHER -> 0

\* Ten times the confidence of an edge.
EdgeConfidence(i, j) ==
    7 * LargerOf(similarity[<<i, j>>], 0) + 2 * LabelCompatibility(i, j) + 10 * ContinuityBonus(i, j)

Accepted(i, j) ==
    /\ Embedded(i) /\ Embedded(j)
    /\ EdgeConfidence(i, j) >= 10 * (IF SameWindow(i, j) THEN SameWindowThreshold ELSE CrossWindowThreshold)

Resembles(i, j) ==
    similarity[<<i, j>>] >= IF SameWindow(i, j) THEN SameSceneThreshold ELSE GroupThreshold

\* The first track that is in no group yet takes those that resemble it.
LookAlikes ==
    FoldLeft(LAMBDA found, i :
               IF ~Embedded(i) \/ i \in UNION Range(found) THEN found
               ELSE Append(found, {i} \cup {j \in DOMAIN tracks :
                       i < j /\ Embedded(j) /\ j \notin UNION Range(found) /\ Resembles(i, j)}),
             <<>>, [t \in DOMAIN tracks |-> t])

\* The mean resemblance to the first member, itself included.
GroupConfidence(members) ==
    LET first == CHOOSE i \in members : \A j \in members : i <= j
    IN  1000 + MapThenSumSet(LAMBDA j : similarity[<<first, j>>], members \ {first})

BuildIdentity ==
    /\ identityStage = "identity"
    /\ edges' = {p \in Pairs(tracks) : Accepted(p[1], p[2])}
    /\ lookAlikes' = LookAlikes
    /\ identityStage' = "sources"
    /\ UNCHANGED <<tracks, similarity, crops, sources, events, beds, groups, routes>>

-----------------------------------------------------------------------------
(***************************************************************************)
(* build_provisional_source_tracks.                                        *)
(***************************************************************************)
\* Mutant: the other end moves alone and leaves what it was united with.
JoinedAlone(classes, link) ==
    {IF link[1] \in c THEN c \cup {link[2]} ELSE c \ {link[2]} : c \in classes} \ {{}}

\* union(): the classes of both ends become one.
Joined(classes, link) ==
    LET met == {c \in classes : link[1] \in c \/ link[2] \in c}
    IN  (classes \ met) \cup {UNION met}

Classes(items, links) ==
    FoldSet(LAMBDA link, classes : Joined(classes, link), {{i} : i \in items}, links)

LinksOfGroups ==
    {p \in Pairs(tracks) : \E k \in DOMAIN lookAlikes :
        /\ {p[1], p[2]} \subseteq lookAlikes[k]
        /\ GroupConfidence(lookAlikes[k]) >= MinimumGroupConfidence * Cardinality(lookAlikes[k])}

\* The track a source is named after: the earliest, and of these the first.
Canonical(members) ==
    CHOOSE t \in members : \A u \in members :
        tracks[t].start < tracks[u].start \/ (tracks[t].start = tracks[u].start /\ t <= u)

\* The label whose mean score is highest.
TopLabel(members) ==
    LET entries == UNION {{<<t, i>> : i \in DOMAIN tracks[t].labels} : t \in members}
        of(l) == {e \in entries : tracks[e[1]].labels[e[2]].label = l}
        total(l) == MapThenSumSet(LAMBDA e : tracks[e[1]].labels[e[2]].score, of(l))
        labels == {tracks[e[1]].labels[e[2]].label : e \in entries}
    IN  IF labels = {} THEN NoAnswer
        ELSE CHOOSE l \in labels : \A m \in labels :
                total(l) * Cardinality(of(m)) >= total(m) * Cardinality(of(l))

SourceOfTracks(members) ==
    [id |-> Canonical(members), tracks |-> members, label |-> TopLabel(members),
     spans |-> {<<tracks[t].start, tracks[t].end>> : t \in members},
     kind |-> "foreground", audibility |-> "unknown"]

BuildSources ==
    /\ identityStage = "sources"
    /\ LET classes == Classes(DOMAIN tracks, edges \cup LinksOfGroups)
           before == [d \in classes |-> {c \in classes :
                        \/ tracks[Canonical(c)].start < tracks[Canonical(d)].start
                        \/ /\ tracks[Canonical(c)].start = tracks[Canonical(d)].start
                           /\ Min(c) < Min(d)}]
           ordered == OrderedBy(classes, before)
       IN  sources' = [k \in DOMAIN ordered |-> SourceOfTracks(ordered[k])]
    /\ identityStage' = "interpret"
    /\ UNCHANGED <<tracks, similarity, crops, edges, lookAlikes, events, beds, groups, routes>>

-----------------------------------------------------------------------------
(***************************************************************************)
(* build_source_and_event_semantics.                                       *)
(***************************************************************************)
OrElse(answer, value) == IF answer = NoAnswer THEN value ELSE answer

Interpreted(source, answer) ==
    IF answer = NoAnswer THEN source
    ELSE [source EXCEPT !.kind = OrElse(answer.kind, @),
                        !.audibility = OrElse(answer.audibility, @),
                        !.label = OrElse(answer.label, @)]

IsBed(source) == source.kind \in {"ambience_region", "background_region"}

IsHeard(source) == ~IsBed(source) /\ source.audibility = "audible_active"

EventsOf(source) ==
    IF ~IsHeard(source) THEN <<>>
    ELSE LET before == [b \in source.spans |-> {a \in source.spans :
                          a[1] < b[1] \/ (a[1] = b[1] /\ a[2] < b[2])}]
             spans == OrderedBy(source.spans, before)
         IN  [k \in DOMAIN spans |-> [source |-> source.id, span |-> spans[k]]]

InterpretSources ==
    /\ identityStage = "interpret"
    /\ \E answers \in [DOMAIN sources -> Interpretations \cup {NoAnswer}] :
          sources' = [k \in DOMAIN sources |-> Interpreted(sources[k], answers[k])]
    /\ beds' = {s.id : s \in {u \in Range(sources') : IsBed(u)}}
    /\ events' = FlattenSeq([k \in DOMAIN sources' |-> EventsOf(sources'[k])])
    /\ identityStage' = "group"
    /\ UNCHANGED <<tracks, similarity, crops, edges, lookAlikes, groups, routes>>

-----------------------------------------------------------------------------
(***************************************************************************)
(* group_generation_groups and route_generation_groups.                    *)
(***************************************************************************)
LabelOf(event) == (CHOOSE s \in Range(sources) : s.id = event.source).label

\* Mutant: labels alone make a pair.
CandidatePairWhenever(e, f) ==
    \/ events[e].source = events[f].source
    \/ LabelOf(events[e]) # NoAnswer /\ LabelOf(events[e]) = LabelOf(events[f])

CandidatePair(e, f) ==
    \/ events[e].source = events[f].source
    \/ /\ LabelOf(events[e]) # NoAnswer /\ LabelOf(events[e]) = LabelOf(events[f])
       /\ events[f].span[1] - events[e].span[2] <= PairGap
       /\ events[e].span[1] - events[f].span[2] <= PairGap

\* The judge is asked about the candidate pairs only, and may fail for any.
GroupEvents ==
    /\ identityStage = "group"
    /\ \E merged \in SUBSET {p \in Pairs(events) : CandidatePair(p[1], p[2])} :
          groups' = Classes(DOMAIN events, merged)
    /\ identityStage' = "route"
    /\ UNCHANGED <<tracks, similarity, crops, edges, lookAlikes, sources, events, beds, routes>>

\* A group that the model fails for is left without a route.
RouteGroups ==
    /\ identityStage = "route"
    /\ routes' \in [groups \cup {{b} : b \in beds} -> Routes \cup {NoAnswer}]
    /\ identityStage' = "routed"
    /\ UNCHANGED <<tracks, similarity, crops, edges, lookAlikes, sources, events, beds, groups>>

IdentityNext ==
    \/ CropTracks \/ BuildIdentity \/ BuildSources
    \/ InterpretSources \/ GroupEvents \/ RouteGroups

IdentitySpec == IdentityInit /\ [][IdentityNext]_identityVars

-----------------------------------------------------------------------------
(***************************************************************************)
(* Properties.                                                             *)
(***************************************************************************)
Linked(s, links) ==
    \A part \in SUBSET s : part \notin {{}, s} =>
        \E l \in links : Cardinality({l[1], l[2]} \cap part) = 1 /\ {l[1], l[2]} \subseteq s

\* The tracks are divided among the sources by what links them and by nothing
\* else, in whatever order the links are followed: no link leads out of a
\* source, and no source falls apart into halves without a link.  Within a
\* window no identity edge is ever a link, so only a resemblance of a whole
\* group, or a detour through another window, makes two of its tracks one.
SourcesAreLinkedTracks ==
    identityStage \notin {"crop", "identity", "sources"} =>
        LET links == edges \cup LinksOfGroups
        IN  /\ UNION {s.tracks : s \in Range(sources)} = DOMAIN tracks
            /\ \A i, j \in DOMAIN sources : sources[i].tracks \cap sources[j].tracks # {} => i = j
            /\ \A s \in Range(sources) :
                  /\ s.id \in s.tracks
                  /\ Linked(s.tracks, links)
                  /\ \A l \in links : l[1] \in s.tracks <=> l[2] \in s.tracks
            /\ \A l \in edges : ~SameWindow(l[1], l[2])

\* Every source sounds as often as it is told to and is generated once: a bed
\* is one group, a source that is heard has one event for each different span,
\* every event is in one group, and a group that joins different sources joins
\* them step by step through events of one label close in time.
SoundsFollowTheirSources ==
    identityStage \in {"route", "routed"} =>
        LET eventsOf(s) == {e \in DOMAIN events : events[e].source = s.id}
            pairs == {p \in Pairs(events) : events[p[1]].source = events[p[2]].source
                         \/ /\ LabelOf(events[p[1]]) = LabelOf(events[p[2]])
                            /\ events[p[1]].span[1] <= events[p[2]].span[2] + PairGap
                            /\ events[p[2]].span[1] <= events[p[1]].span[2] + PairGap}
        IN  /\ UNION groups = DOMAIN events
            /\ \A g, h \in groups : g = h \/ g \cap h = {}
            /\ \A g \in groups : Linked(g, pairs)
            /\ \A s \in Range(sources) :
                  /\ s.id \in beds => eventsOf(s) = {}
                  /\ s.id \notin beds /\ s.audibility = "audible_active" =>
                        /\ {events[e].span : e \in eventsOf(s)} = s.spans
                        /\ Cardinality(eventsOf(s)) = Cardinality(s.spans)
                  /\ s.audibility # "audible_active" => eventsOf(s) = {}

\* A crop shows what it is cut out for: the box of its point, at least a pixel
\* more of it on every side that is not at the edge of the picture, and nothing
\* outside the picture.
CropsShowTheirTracks ==
    identityStage # "crop" =>
        \A t \in DOMAIN tracks :
            /\ \A c \in crops[t] : 0 <= c[1] /\ c[1] < c[2] /\ c[2] <= ImageSize
            /\ \A b \in tracks[t].boxes : \E c \in crops[t] :
                  /\ c[1] < b[1] \/ (c[1] = 0 /\ b[1] = 0)
                  /\ b[2] < c[2] \/ (c[2] = ImageSize /\ b[2] = ImageSize)
=============================================================================
