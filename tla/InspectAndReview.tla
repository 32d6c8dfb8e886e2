-------------------------- MODULE InspectAndReview --------------------------
(***************************************************************************)
(* InspectAndReview: the retired pipeline from a user's side: a run over a *)
(* video (InspectVideo), a person's edits of its result (BundleReview) and *)
(* the sessions both happen in (ReviewSessions).  A session sees a run as  *)
(* one result and an edit as one revision, and keeps what it is told; each *)
(* of the three is run by itself.                                          *)
(***************************************************************************)
EXTENDS InspectVideo, BundleReview, ReviewSessions

VARIABLE running  \* which of the three runs

reviewVars == <<runVars, reviewBundle, sessionVars, running>>

NoRun ==
    /\ mode = "tool_first_foundation" /\ lasting = FALSE
    /\ at = "none" /\ state = EmptyState
    /\ issues = <<>> /\ chosen = "none" /\ decisions = <<>> /\ trace = <<>>
    /\ actions = 0 /\ judged = TRUE
    /\ bundle = Missing /\ disk = Missing

NoReview == reviewBundle = NewBundle(CHOOSE grouping \in Groupings : TRUE, {})

InspectAndReviewInit ==
    \/ running = "inspection" /\ InspectInit /\ NoReview /\ SessionsInit
    \/ running = "review" /\ ReviewInit /\ NoRun /\ SessionsInit
    \/ running = "sessions" /\ SessionsInit /\ NoRun /\ NoReview

InspectAndReviewNext ==
    \/ running = "inspection" /\ InspectNext /\ UNCHANGED <<reviewBundle, sessionVars, running>>
    \/ running = "review" /\ ReviewNext /\ UNCHANGED <<runVars, sessionVars, running>>
    \/ running = "sessions" /\ SessionsNext /\ UNCHANGED <<runVars, reviewBundle, running>>

\* A run is one thread that goes on; nobody has to review or to click.
InspectAndReviewSpec ==
    /\ InspectAndReviewInit
    /\ [][InspectAndReviewNext]_reviewVars
    /\ WF_runVars(InspectNext)
=============================================================================
