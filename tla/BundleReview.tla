---------------------------- MODULE BundleReview ----------------------------
(***************************************************************************)
(* BundleReview: a person edits the result of the retired pipeline (old/). *)
(* Every edit works on a copy of the bundle and is logged in it.  The list *)
(* of generation groups is a function from their ids; the id of a split    *)
(* group is the id of the group it was split from with the number of edits *)
(* so far appended, as the code formats it.                                *)
(***************************************************************************)
EXTENDS Integers, Sequences

CONSTANTS Events,     \* bundle.sound_events
          Beds,       \* bundle.ambience_beds
          Sources,    \* bundle.physical_sources
          SourceOf,   \* event -> its source_id
          Groupings,  \* the groups of a new bundle: id -> events and beds
          IssueIds,   \* ids of the validation issues
          MaxEdits    \* bound: edits of a bundle

\* A new bundle has each event in one group and no empty group, and ids that do
\* not look like those of a split.
ASSUME ReviewAssumption ==
    /\ SourceOf \in [Events -> Sources]
    /\ MaxEdits \in Nat
    /\ \A grouping \in Groupings :
         /\ DOMAIN grouping \subseteq Seq(Nat) /\ \A id \in DOMAIN grouping : Len(id) = 1
         /\ \A id \in DOMAIN grouping :
              /\ grouping[id].events \subseteq Events /\ grouping[id].beds \subseteq Beds
              /\ grouping[id].events \cup grouping[id].beds # {}
         /\ \A e \in Events : \E id \in DOMAIN grouping : e \in grouping[id].events
         /\ \A i, j \in DOMAIN grouping : i # j => grouping[i].events \cap grouping[j].events = {}

VARIABLE reviewBundle  \* groups, names of the sources, reviewed issues, number of edits

\* What a description says: the events of its group and the names of their
\* sources (by revision).
About(events, names) == [events |-> events, names |-> [e \in events |-> names[SourceOf[e]]]]

NewBundle(grouping, written) ==
    LET names == [s \in Sources |-> 0]
    IN  [groups |-> [id \in DOMAIN grouping |->
                        [events |-> grouping[id].events, beds |-> grouping[id].beds,
                         route |-> "gemini",
                         origin |-> IF id \in written THEN "writer" ELSE "none",
                         stale |-> FALSE,
                         about |-> About(grouping[id].events, names)]],
         names |-> names, reviewed |-> {}, edits |-> 0]

ReviewInit ==
    \E grouping \in Groupings : \E written \in SUBSET DOMAIN grouping :
        reviewBundle = NewBundle(grouping, written)

-----------------------------------------------------------------------------
(***************************************************************************)
(* The edits.                                                              *)
(***************************************************************************)
Groups == reviewBundle.groups
Ids == DOMAIN reviewBundle.groups

\* Only what the writer has written can become stale.
MarkStale(groups, ids) ==
    [id \in DOMAIN groups |->
        [groups[id] EXCEPT !.stale = @ \/ (id \in ids /\ groups[id].origin = "writer")]]

\* Every edit is logged; the log numbers the edits.
Logged(b) == [b EXCEPT !.edits = @ + 1]

RouteOverride(g) ==
    /\ reviewBundle.edits < MaxEdits
    /\ reviewBundle' = Logged([reviewBundle EXCEPT !.groups[g].route = "manual"])

SplitId(g) == Append(g, reviewBundle.edits)

\* Mutant: the group keeps what was moved.
SplitGroupsCopied(g, moved) ==
    [id \in Ids \cup {SplitId(g)} |->
        IF id = SplitId(g) THEN [Groups[g] EXCEPT !.events = moved, !.stale = TRUE]
        ELSE Groups[id]]

\* The new group shares the ambience beds of the old one.
SplitGroups(g, moved) ==
    [id \in Ids \cup {SplitId(g)} |->
        IF id = SplitId(g) THEN [Groups[g] EXCEPT !.events = moved, !.stale = TRUE]
        ELSE IF id = g THEN [Groups[g] EXCEPT !.events = @ \ moved]
        ELSE Groups[id]]

\* Moving no event, or all of them, changes nothing and is not logged.
Split(g, chosen) ==
    LET moved == Groups[g].events \cap chosen
    IN  /\ reviewBundle.edits < MaxEdits
        /\ moved # {} /\ moved # Groups[g].events
        /\ reviewBundle' = Logged([reviewBundle EXCEPT
                               !.groups = MarkStale(SplitGroups(g, moved), {g, SplitId(g)})])

\* The group that is first in the bundle takes the members of the others; which
\* one that is, is left open.
MergedGroups(primary, chosen) ==
    [id \in (Ids \ chosen) \cup {primary} |->
        IF id = primary
        THEN [Groups[id] EXCEPT !.events = UNION {Groups[i].events : i \in chosen},
                                !.beds = UNION {Groups[i].beds : i \in chosen}]
        ELSE Groups[id]]

Merge(primary, chosen) ==
    /\ reviewBundle.edits < MaxEdits
    /\ primary \in chosen /\ chosen # {primary}
    /\ reviewBundle' = Logged([reviewBundle EXCEPT
                           !.groups = MarkStale(MergedGroups(primary, chosen), {primary})])

\* Mutant: the descriptions that use the name are not marked.
RenameSourceQuietly(s) ==
    /\ reviewBundle.edits < MaxEdits
    /\ reviewBundle' = Logged([reviewBundle EXCEPT !.names[s] = @ + 1])

\* The groups with an event of the source are told by its name.
RenameSource(s) ==
    /\ reviewBundle.edits < MaxEdits
    /\ reviewBundle' = Logged([reviewBundle EXCEPT
                           !.names[s] = @ + 1,
                           !.groups = MarkStale(@, {id \in Ids : \E e \in Groups[id].events :
                                                                    SourceOf[e] = s})])

ApproveIssue(i) ==
    /\ reviewBundle.edits < MaxEdits
    /\ reviewBundle' = Logged([reviewBundle EXCEPT !.reviewed = @ \cup {i}])

ReviewNext ==
    \/ \E g \in Ids : RouteOverride(g) \/ \E chosen \in SUBSET Events : Split(g, chosen)
    \/ \E chosen \in SUBSET Ids : \E primary \in chosen : Merge(primary, chosen)
    \/ \E s \in Sources : RenameSource(s)
    \/ \E i \in IssueIds : ApproveIssue(i)

ReviewSpec == ReviewInit /\ [][ReviewNext]_reviewBundle

-----------------------------------------------------------------------------
(***************************************************************************)
(* Properties.                                                             *)
(***************************************************************************)
\* However a person splits and merges, every sound event is generated once: it
\* stays in exactly one group, no new id hits an old one, and no group is empty.
EveryEventInOneGroup ==
    /\ \A e \in Events : \E id \in Ids : e \in Groups[id].events
    /\ \A i, j \in Ids : i # j => Groups[i].events \cap Groups[j].events = {}
    /\ \A id \in Ids : Groups[id].events \cup Groups[id].beds # {}

\* A description of the writer that does not count as stale still tells of the
\* events its group has and of the names their sources have.
DescriptionsTellTheirGroup ==
    \A id \in Ids :
        Groups[id].origin = "writer" /\ ~Groups[id].stale =>
            Groups[id].about = About(Groups[id].events, reviewBundle.names)

\* What EveryEventInOneGroup rests on: ids of splits are numbered below the log.
SplitsAreNumbered ==
    \A id \in Ids : Len(id) > 0 /\ (Len(id) > 1 => id[Len(id)] < reviewBundle.edits)
=============================================================================
