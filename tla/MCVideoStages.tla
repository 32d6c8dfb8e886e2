---------------------------- MODULE MCVideoStages ----------------------------
(***************************************************************************)
(* TLC instance of VideoStages.                                            *)
(***************************************************************************)
EXTENDS VideoStages

-----------------------------------------------------------------------------
(***************************************************************************)
(* InitialScenes: short videos, with cuts in and past them, and longer     *)
(* ones in and around multiples of the keyframe interval, up to the one    *)
(* past the largest cap.                                                   *)
(***************************************************************************)
\* The detector's list starts at 0 and its cuts increase; none, or up to four
\* scenes.  Two lists have empty scenes at both ends, and one starts late.
Cuts == {<<>>, <<0, 0, 3, 3>>, <<2, 2, 5>>} \cup {<<0>> \o SetToSortSeq(s, LAMBDA a, b : a < b) :
                       s \in {t \in SUBSET {1, 2, 3, 5, 7} : Cardinality(t) \in 1..4}}

Videos == (1..6) \cup (61..130) \cup {60 * k + d : k \in {1, 2, 3, 6, 7, 8, 20, 21}, d \in {-1, 0, 1}}

Caps == {1, 2, 7, 20}

-----------------------------------------------------------------------------
(***************************************************************************)
(* SceneAnalysis: no scene, one, and up to two batches of which the last   *)
(* is cut short.                                                           *)
(***************************************************************************)
ZeroToFive == 0..5

-----------------------------------------------------------------------------
(***************************************************************************)
(* EvidenceWindows: nothing, less than a window, and up to three windows   *)
(* with cuts that chain within the spacing and cuts that do not.           *)
(***************************************************************************)
ProbedDurations == {0, 400, 2000, 3700}
FramePeriods == {500, 1000}
FrameDifferences == {0, 140, 1000}

-----------------------------------------------------------------------------
(***************************************************************************)
(* ProposalGrounding: two windows, the first with one or two regions, the  *)
(* second with one or without frames.  Cards that a score, a region or     *)
(* nothing backs, that point past the regions, or without a name; scores   *)
(* at the threshold and just below it.                                     *)
(***************************************************************************)
Written == {"Dog", "dog", "rain", "wet", ""}
Stripped == [l \in Written |-> IF l = "Dog" THEN "dog" ELSE l]

SourceCard(name, aliases, refs, cue) ==
    [name |-> name, aliases |-> aliases, refs |-> refs, cue |-> cue,
     ambience |-> name = "rain", confidence |-> 300]

Scored == SourceCard("Dog", {"dog"}, {}, "wet")
Beyond == SourceCard("rain", {}, {0, 5}, "")
Pointing == SourceCard("dog", {"rain"}, {1}, "")
Nameless == SourceCard("", {}, {0}, "")

Proposed(cards, visible, uncertain) ==
    [cards |-> cards, visible |-> visible, background |-> {}, cues |-> {}, uncertain |-> uncertain]

ProposerAnswers ==
    {Proposed(cards, {}, {}) : cards \in {<<>>, <<Scored>>, <<Beyond>>, <<Pointing, Scored>>,
                                         <<Nameless>>, <<Nameless, Beyond>>}}
    \cup {Proposed(<<Scored, Beyond, Pointing, Nameless>>, {"wet"}, {"Dog"})}

GroundedCard(name, refs, prompt) ==
    [name |-> name, aliases |-> {}, refs |-> refs, prompt |-> prompt]

GrounderPayloads ==
    {[cards |-> {}, prompts |-> {"Dog"}, unresolved |-> {"rain"}],
     [cards |-> {GroundedCard("Dog", {0, 1}, None), GroundedCard("rain", {1}, "")},
      prompts |-> {}, unresolved |-> {}]}

LabelScores ==
    {[l \in Written |-> [frame |-> IF l = "dog" THEN f ELSE 0, motion |-> IF l = "rain" THEN m ELSE 0]] :
        f \in {0, 219, 220}, m \in {0, 500}}

WindowChanges == {<<c, d>> : c \in {<<80, 500>>, <<79>>}, d \in {None, <<0, 80>>}}

-----------------------------------------------------------------------------
(***************************************************************************)
(* SourceIdentity: two tracks of one window with one of the next, and one  *)
(* track in each of three windows with a twin that has no crop; gaps on    *)
(* both sides of the limits, and similarities that neither, one or both of *)
(* the ways to link two tracks accept.                                     *)
(***************************************************************************)
LabelScore(label, score) == [label |-> label, score |-> score]
EntityTrack(scene, start, end, boxes, labels) ==
    [scene |-> scene, start |-> start, end |-> end, boxes |-> boxes, labels |-> labels]

EntityTracks ==
    {<<EntityTrack(1, 0, 900, {<<0, 15>>}, <<LabelScore("dog", 800), LabelScore("car", 300)>>),
       EntityTrack(1, 0, 900, {<<4, 5>>, <<3, 20>>}, <<>>),
       EntityTrack(2, 2400, 3000, {<<2, 7>>}, <<LabelScore("car", 900)>>)>>,
     <<EntityTrack(1, 500, 1000, {<<0, 20>>}, <<LabelScore("dog", 400)>>),
       EntityTrack(2, 3001, 4000, {<<1, 19>>}, <<LabelScore("dog", 800)>>),
       EntityTrack(3, 6000, 7000, {<<5, 15>>}, <<LabelScore("dog", 100), LabelScore("car", 200)>>),
       EntityTrack(3, 6000, 7000, {}, <<>>)>>}

LooksAlike == {-100, 900, 990}

InterpreterAnswers ==
    {[kind |-> NoAnswer, audibility |-> "audible_active", label |-> "dog"],
     [kind |-> "background_region", audibility |-> "audible_active", label |-> NoAnswer]}
=============================================================================
