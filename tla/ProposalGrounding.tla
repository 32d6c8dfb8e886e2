-------------------------- MODULE ProposalGrounding --------------------------
(***************************************************************************)
(* ProposalGrounding: what the retired pipeline (old/) asks the extraction *)
(* of entities to look for.  Per window: regions that move are cut out of  *)
(* the frames, a model proposes source cards that point at regions, every  *)
(* phrase of a proposal is scored against the pictures, and a second model *)
(* grounds the cards.  Each model may fail for a window; the stage goes on *)
(* with what it has.  The phrases of all of it are the vocabulary that the *)
(* extracted tracks are labelled with.                                     *)
(*                                                                         *)
(* Scores are thousandths.  Lists without repetition whose order matters   *)
(* to nobody are sets.  The models and the scoring service are external.   *)
(***************************************************************************)
EXTENDS Integers, Sequences, FiniteSets, SequencesExt

CONSTANTS Labels,     \* what the models may write, in capitals or not, or blank
          Normal,     \* label -> label.strip().lower()
          Blank,      \* the normalised blank label
          None,       \* no value
          Changes,    \* how much successive frames of a window may differ
          Answers,    \* of the proposing model
          Payloads,   \* of the grounding model
          ScoreTables \* phrase -> [frame, motion], of the scoring service

MotionThreshold == 80
PromotionThreshold == 220
MaxFallbackCards == 3

ASSUME LabelsAssumption ==
    /\ Normal \in [Labels -> Labels] /\ Blank \in Labels
    /\ \A l \in Labels : Normal[Normal[l]] = Normal[l]

\* The schemas the models have to answer by.  Nothing bounds an index of a
\* region.
SourceCards ==
    [name : Labels, aliases : SUBSET Labels, refs : SUBSET Int, cue : Labels,
     ambience : BOOLEAN, confidence : 0..1000]

GroundedCards ==
    [name : Labels, aliases : SUBSET Labels, refs : SUBSET Int, prompt : Labels \cup {None}]

WindowProposals ==
    [cards : Seq(SourceCards), visible : SUBSET Labels, background : SUBSET Labels,
     cues : SUBSET Labels, uncertain : SUBSET Labels]

ASSUME AnswersAssumption ==
    /\ Changes \subseteq Seq(Seq(Nat) \cup {None})
    /\ Answers \subseteq WindowProposals
    /\ None \notin Payloads
    /\ Payloads \subseteq [cards : SUBSET GroundedCards, prompts : SUBSET Labels, unresolved : SUBSET Labels]
    /\ ScoreTables \subseteq [Labels -> [frame : 0..1000, motion : 0..1000]]

VARIABLES changes,      \* window -> differences between its frames, None without frames
          window,       \* loop index of the stage
          regions,      \* moving_regions_by_window: how many a window has
          proposals,    \* scene_hypotheses_by_window
          grounded,     \* verified_hypotheses_by_window, with the region seeds
          lastError,    \* last_error_message of the model asked
          warnings,
          vocabulary,
          groundingStage

groundingVars == <<changes, window, regions, proposals, grounded, lastError,
                   warnings, vocabulary, groundingStage>>

GroundingInit ==
    /\ changes \in Changes
    /\ window = 1
    /\ regions = <<>>
    /\ proposals = <<>>
    /\ grounded = <<>>
    /\ lastError = FALSE
    /\ warnings = {}
    /\ vocabulary = {}
    /\ groundingStage = "regions"

Windows == DOMAIN changes
Normalised(labels) == {Normal[l] : l \in labels} \ {Blank}
NamesOf(card) == {card.name} \cup card.aliases

MovingRegions(w) ==
    IF changes[w] = None THEN 0
    ELSE Cardinality({i \in DOMAIN changes[w] : changes[w][i] >= MotionThreshold})

ProposeMovingRegions ==
    /\ groundingStage = "regions"
    /\ regions' = [w \in Windows |-> MovingRegions(w)]
    /\ groundingStage' = "propose"
    /\ UNCHANGED <<changes, window, proposals, grounded, lastError, warnings, vocabulary>>

-----------------------------------------------------------------------------
(***************************************************************************)
(* propose_source_hypotheses.                                              *)
(***************************************************************************)
FilledIn(list, labels) == IF list = {} THEN Normalised(labels) ELSE list

\* Lists that the model has left empty are filled from its cards.
WithLists(answer) ==
    LET cards == Range(answer.cards)
    IN  [answer EXCEPT
            !.visible = FilledIn(@, {c.name : c \in cards}),
            !.background = FilledIn(@, {c.name : c \in {d \in cards : d.ambience}}),
            !.cues = FilledIn(@, {c.cue : c \in cards})]

\* A window that the model fails for has no proposal; the first failure is kept.
ProposeForWindow ==
    /\ groundingStage = "propose" /\ window \in Windows
    /\ \/ /\ changes[window] = None
          /\ UNCHANGED <<proposals, lastError>>
       \/ /\ changes[window] # None
          /\ \/ /\ \E answer \in Answers : proposals' =
                      [w \in DOMAIN proposals \cup {window} |->
                          IF w = window THEN WithLists(answer) ELSE proposals[w]]
                /\ UNCHANGED lastError
             \/ lastError' = TRUE /\ UNCHANGED proposals
    /\ window' = window + 1
    /\ UNCHANGED <<changes, regions, grounded, warnings, vocabulary, groundingStage>>

ReportProposals ==
    /\ groundingStage = "propose" /\ window \notin Windows
    /\ warnings' = IF lastError THEN warnings \cup {"proposal"} ELSE warnings
    /\ lastError' = FALSE
    /\ window' = 1
    /\ groundingStage' = "ground"
    /\ UNCHANGED <<changes, regions, proposals, grounded, vocabulary>>

-----------------------------------------------------------------------------
(***************************************************************************)
(* verify_scene_hypotheses.                                                *)
(***************************************************************************)
CandidatePhrases(p) ==
    Normalised((UNION {NamesOf(c) : c \in Range(p.cards)})
               \cup p.visible \cup p.background \cup p.cues \cup p.uncertain)

\* max of the scores of the labels of a card; a motion crop is scored if there is one.
BestScore(card, scores, moving) ==
    LET of(l) == {scores[l].frame} \cup (IF moving THEN {scores[l].motion} ELSE {})
        all == {0} \cup UNION {of(l) : l \in Normalised(NamesOf(card))}
    IN  CHOOSE s \in all : \A t \in all : s >= t

\* Mutant: a card needs a score even if it points at a region.
PromotedByScore(cards, scores, moving) ==
    {i \in DOMAIN cards : BestScore(cards[i], scores, moving) >= PromotionThreshold}

\* The places of the cards that a region or a score backs.
Promoted(cards, scores, moving) ==
    {i \in DOMAIN cards : \/ cards[i].refs # {}
                          \/ BestScore(cards[i], scores, moving) >= PromotionThreshold}

\* A card is worth its best score, or else what its proposer thought of it.
Worth(card, scores, moving) ==
    LET best == BestScore(card, scores, moving) IN IF best > 0 THEN best ELSE card.confidence

\* The places with a better card, of equals the earlier.
Before(i, places, cards, scores, moving) ==
    LET worth(j) == Worth(cards[j], scores, moving)
    IN  {j \in places : worth(j) > worth(i) \/ (worth(j) = worth(i) /\ j < i)}

FallbackCard(card) ==
    [name |-> card.name, aliases |-> card.aliases, refs |-> card.refs, prompt |-> card.name]

\* The best three of them.
FallbackCards(p, scores, moving) ==
    LET promoted == Promoted(p.cards, scores, moving)
        kept == {i \in promoted :
                   Cardinality(Before(i, promoted, p.cards, scores, moving)) < MaxFallbackCards}
    IN  {FallbackCard(p.cards[i]) : i \in kept}

PromptOf(card) == Normal[IF card.prompt \in {None, Blank} THEN card.name ELSE card.prompt]

PromptsOf(cards) == {PromptOf(c) : c \in cards} \ {Blank}

\* Mutant: the number of regions is taken for an index.
SeedsPastTheEnd(cards, w) ==
    UNION {{[region |-> r, hint |-> PromptOf(c)] : r \in c.refs \cap (0..regions[w])} : c \in cards}

\* Regions are numbered from 0; one seed per region and hint.
SeedsOf(cards, w) ==
    UNION {{[region |-> r, hint |-> PromptOf(c)] : r \in c.refs \cap (0..(regions[w] - 1))} : c \in cards}

Grounding(cards, prompts, unresolved, answered, w) ==
    [cards |-> cards, seeds |-> SeedsOf(cards, w), prompts |-> prompts,
     unresolved |-> unresolved, answered |-> answered]

NothingToGround(p) ==
    [cards |-> {}, seeds |-> {}, prompts |-> {}, unresolved |-> {}, answered |-> TRUE]

\* One window: the scores, and then the model or the fallback.
Grounded(p, w, scores, payload) ==
    LET fallback == FallbackCards(p, scores, regions[w] > 0)
        cards == IF payload = None \/ payload.cards = {} THEN fallback ELSE payload.cards
    IN  IF CandidatePhrases(p) = {} THEN NothingToGround(p)
        ELSE IF payload = None
             THEN Grounding(cards, PromptsOf(cards), CandidatePhrases(p), FALSE, w)
             ELSE Grounding(cards, Normalised(payload.prompts) \cup PromptsOf(cards),
                            Normalised(payload.unresolved), TRUE, w)

GroundWindow ==
    /\ groundingStage = "ground" /\ window \in Windows
    /\ IF window \notin DOMAIN proposals THEN UNCHANGED <<grounded, lastError>>
       ELSE \E scores \in ScoreTables, payload \in Payloads \cup {None} :
               LET g == Grounded(proposals[window], window, scores, payload)
               IN  /\ grounded' = [w \in DOMAIN grounded \cup {window} |->
                                     IF w = window THEN g ELSE grounded[w]]
                   /\ lastError' = (lastError \/ ~g.answered)
    /\ window' = window + 1
    /\ UNCHANGED <<changes, regions, proposals, warnings, vocabulary, groundingStage>>

\* The scoring service fails: nobody catches that, and the run ends.
ScoringFails ==
    /\ groundingStage = "ground" /\ window \in DOMAIN proposals
    /\ CandidatePhrases(proposals[window]) # {}
    /\ groundingStage' = "failed"
    /\ UNCHANGED <<changes, window, regions, proposals, grounded, lastError, warnings, vocabulary>>

ReportGrounding ==
    /\ groundingStage = "ground" /\ window \notin Windows
    /\ warnings' = IF lastError THEN warnings \cup {"grounding"} ELSE warnings
    /\ groundingStage' = "label"
    /\ UNCHANGED <<changes, window, regions, proposals, grounded, lastError, vocabulary>>

-----------------------------------------------------------------------------
(***************************************************************************)
(* dynamic_label_vocabulary.                                               *)
(***************************************************************************)
Words ==
    (UNION {grounded[w].prompts
             \cup (UNION {NamesOf(c) \cup ({c.prompt} \ {None}) : c \in grounded[w].cards}) :
               w \in DOMAIN grounded})
    \cup
    (UNION {proposals[w].visible \cup proposals[w].background \cup proposals[w].uncertain
             \cup (UNION {NamesOf(c) : c \in Range(proposals[w].cards)}) :
               w \in DOMAIN proposals})

BuildVocabulary ==
    /\ groundingStage = "label"
    /\ vocabulary' = Normalised(Words)
    /\ groundingStage' = "labelled"
    /\ UNCHANGED <<changes, window, regions, proposals, grounded, lastError, warnings>>

GroundingNext ==
    \/ ProposeMovingRegions \/ ProposeForWindow \/ ReportProposals
    \/ GroundWindow \/ ScoringFails \/ ReportGrounding \/ BuildVocabulary

GroundingSpec == GroundingInit /\ [][GroundingNext]_groundingVars

-----------------------------------------------------------------------------
(***************************************************************************)
(* Properties.                                                             *)
(***************************************************************************)
\* What is extracted can be told apart and labelled: whichever model failed for
\* whichever window, a seed is a region of its window, its hint is a prompt of
\* that window and a label of the vocabulary, and every card that points at a
\* region that exists has its seed.
SeedsCanBeExtracted ==
    \A w \in DOMAIN grounded :
        LET g == grounded[w]
        IN  /\ \A s \in g.seeds : /\ s.region \in 0..(regions[w] - 1)
                                  /\ s.hint # Blank => s.hint \in g.prompts
            /\ \A c \in g.cards : /\ PromptOf(c) \in g.prompts \cup {Blank}
                                  /\ \A r \in c.refs : r \in 0..(regions[w] - 1) =>
                                        \E s \in g.seeds : s.region = r /\ s.hint = PromptOf(c)
            /\ groundingStage = "labelled" => g.prompts \subseteq vocabulary

\* The places of the cards of a proposal that its grounding g has kept as they are.
Kept(p, g) == {i \in DOMAIN p.cards : FallbackCard(p.cards[i]) \in g.cards}

\* No window is lost in silence: at the end each window with frames has been
\* grounded, or a warning tells of a failed proposal; where the grounding failed
\* there is a warning too, every phrase of the proposal is unresolved, and every
\* name the proposal knows can still be a label.  A card that points at a region
\* is then kept, unless three cards are: no more are (promoted[:3]), and which
\* they are depends on the scores alone.  The warnings are those of these stages;
\* what the adjudication makes of them is not part of this module.
LossesAreReported ==
    groundingStage = "labelled" =>
        \A w \in {v \in Windows : changes[v] # None} :
            /\ w \notin DOMAIN grounded => "proposal" \in warnings
            /\ w \in DOMAIN grounded =>
                 /\ UNION {Normalised(NamesOf(c)) : c \in Range(proposals[w].cards)} \subseteq vocabulary
                 /\ ~grounded[w].answered =>
                      /\ "grounding" \in warnings
                      /\ CandidatePhrases(proposals[w]) \subseteq grounded[w].unresolved
                      /\ LET kept == Kept(proposals[w], grounded[w])
                         IN  \A i \in DOMAIN proposals[w].cards : proposals[w].cards[i].refs # {} =>
                                i \in kept \/ Cardinality(kept) >= MaxFallbackCards
=============================================================================
