--------------------------- MODULE ReviewSessions ---------------------------
(***************************************************************************)
(* ReviewSessions: the user interface of the retired pipeline (old/ui).    *)
(* Every interaction of a session runs the page's script from the top; an  *)
(* analysis blocks its script, waits for one of a few slots, and may be    *)
(* interrupted.  A thread removes temporary directories that are an hour   *)
(* old, whoever uses them.                                                 *)
(*                                                                         *)
(* Streamlit is external: it keeps the state of a session, runs one script *)
(* of a session at a time and ends it at its next call of the library when *)
(* the user does something else.  An analysis is InspectVideo, an edit is  *)
(* one of BundleReview; here both are a number of a revision.              *)
(***************************************************************************)
EXTENDS Integers, FiniteSets

CONSTANTS Sessions,
          Files,         \* what a user may choose to upload
          NameOf,        \* file -> its name
          SafeName,      \* name -> its letters, digits, dots, dashes and underscores
          Acceptable,    \* the files that are videos and not too long
          Slots,         \* settings.ui_analysis_concurrency_limit
          MaxDirs,       \* bound: temporary directories made
          MaxRevisions,  \* bound: analyses and edits

          Nothing        \* None

\* A saved video in its temporary directory, and the result of an analysis.
Videos == [dir : 1..MaxDirs, name : {SafeName[NameOf[f]] : f \in Files}, of : Files]
Results == [of : Files, revision : 1..MaxRevisions]

ASSUME SessionsAssumption ==
    /\ \A f \in Files : f \in DOMAIN NameOf /\ NameOf[f] \in DOMAIN SafeName
    /\ Acceptable \subseteq Files
    /\ Slots \in Nat \ {0} /\ MaxDirs \in Nat /\ MaxRevisions \in Nat
    /\ Nothing \notin Files \cup Videos \cup Results \cup 1..MaxDirs

VARIABLES session,    \* st.session_state of each session, and where its script is
          dirs,       \* temporary directories there are
          made,       \* directories made so far
          files,      \* directory -> review_bundle.json in it
          free,       \* value of the semaphore
          revisions   \* analyses and edits so far

sessionVars == <<session, dirs, made, files, free, revisions>>

NewSession == [file |-> Nothing, video |-> Nothing, bundle |-> Nothing, clips |-> Nothing,
               at |-> "idle"]

SessionsInit ==
    /\ session = [s \in Sessions |-> NewSession]
    /\ dirs = {} /\ made = 0
    /\ files = [d \in 1..MaxDirs |-> Nothing]
    /\ free = Slots
    /\ revisions = 0

-----------------------------------------------------------------------------
(***************************************************************************)
(* One run of the script, up to the button for the analysis.               *)
(***************************************************************************)
IsNewVideo(se) ==
    /\ se.file # Nothing
    /\ se.video \notin {[dir |-> d, name |-> NameOf[se.file], of |-> f] : d \in dirs, f \in Files}

\* Mutant: the result is not among the keys that are reset.
ClearedKeepingBundle(se) == [NewSession EXCEPT !.file = se.file, !.bundle = se.bundle]

\* reset_state: what it leaves of a session, and the directories it removes.
Cleared(se) == [NewSession EXCEPT !.file = se.file]

DirsOf(se) == ({se.clips} \cup (IF se.video = Nothing THEN {} ELSE {se.video.dir})) \ {Nothing}

Replace(gone, new) ==
    /\ dirs' = (dirs \ gone) \cup new
    /\ files' = [d \in DOMAIN files |-> IF d \in gone THEN Nothing ELSE files[d]]

\* No file, or the video is the session's: render_upload_step leaves the session.
RunScript(s) ==
    /\ session[s].at = "rerun"
    /\ ~IsNewVideo(session[s])
    /\ session' = [session EXCEPT ![s].at = "idle"]
    /\ UNCHANGED <<dirs, made, files, free, revisions>>

\* save_uploaded_file into a directory of its own.
Saved(se, dir) == [Cleared(se) EXCEPT !.video =
                      [dir |-> dir, name |-> SafeName[NameOf[se.file]], of |-> se.file]]

\* A new video resets the session and is saved; one that is no video or is too
\* long resets it again, which removes what was saved.
TakeVideo(s) ==
    LET se == session[s]
    IN  /\ se.at = "rerun"
        /\ IsNewVideo(se)
        /\ made < MaxDirs
        /\ IF se.file \in Acceptable
           THEN /\ session' = [session EXCEPT ![s] = Saved(se, made + 1)]
                /\ Replace(DirsOf(se), {made + 1})
           ELSE /\ session' = [session EXCEPT ![s] = Cleared(se)]
                /\ Replace(DirsOf(se), {})
        /\ made' = made + 1
        /\ UNCHANGED <<free, revisions>>

-----------------------------------------------------------------------------
(***************************************************************************)
(* What a user does; it reruns the script of the session.                  *)
(***************************************************************************)
AtRest(s) == session[s].at = "idle"

ChooseFile(s, f) ==
    /\ AtRest(s)
    /\ f # session[s].file
    /\ session' = [session EXCEPT ![s].file = f, ![s].at = "rerun"]
    /\ UNCHANGED <<dirs, made, files, free, revisions>>

\* Any widget that only reruns the script.
Touch(s) ==
    /\ AtRest(s)
    /\ session' = [session EXCEPT ![s].at = "rerun"]
    /\ UNCHANGED <<dirs, made, files, free, revisions>>

ResetClick(s) ==
    /\ AtRest(s)
    /\ session' = [session EXCEPT ![s] = [Cleared(@) EXCEPT !.at = "rerun"]]
    /\ Replace(DirsOf(session[s]), {})
    /\ UNCHANGED <<made, free, revisions>>

\* The tab is closed; its directories stay behind.
CloseTab(s) ==
    /\ AtRest(s)
    /\ session' = [session EXCEPT ![s] = NewSession]
    /\ UNCHANGED <<dirs, made, files, free, revisions>>

\* The click runs the script from its top: a video that counts as new resets the
\* session and is saved, and run_analysis goes on with it up to the semaphore.
\* (Without a result the button is enabled; where the file is no longer
\* acceptable the script ends before it, as TakeVideo after Touch.)
AnalyzeClick(s) ==
    LET se == session[s]
        new == IsNewVideo(se)
        clips == made + (IF new THEN 2 ELSE 1)
    IN  /\ AtRest(s)
        /\ se.file # Nothing /\ se.video # Nothing /\ se.bundle = Nothing
        /\ new => se.file \in Acceptable
        /\ clips <= MaxDirs
        /\ made' = clips
        /\ session' = [session EXCEPT ![s] = [(IF new THEN Saved(se, made + 1) ELSE se)
                                              EXCEPT !.clips = clips, !.at = "waiting"]]
        /\ IF new THEN Replace(DirsOf(se), {made + 1, clips}) ELSE Replace({}, {clips})
        /\ UNCHANGED <<free, revisions>>

AcquireSlot(s) ==
    /\ session[s].at = "waiting"
    /\ free > 0
    /\ free' = free - 1
    /\ session' = [session EXCEPT ![s].at = "analysing"]
    /\ UNCHANGED <<dirs, made, files, revisions>>

\* Mutant: the slot is given back that was not got.
ServerBusyReleases(s) ==
    /\ session[s].at = "waiting"
    /\ free = 0
    /\ free' = free + 1
    /\ session' = [session EXCEPT ![s].at = "idle"]
    /\ UNCHANGED <<dirs, made, files, revisions>>

\* No slot for two minutes.
ServerBusy(s) ==
    /\ session[s].at = "waiting"
    /\ free = 0
    /\ session' = [session EXCEPT ![s].at = "idle"]
    /\ UNCHANGED <<dirs, made, files, free, revisions>>

\* The result is written and kept; the slot is released on the way to the rerun.
\* Writing makes the directory if it is gone.
Analysed(s) ==
    LET se == session[s]
        result == [of |-> se.video.of, revision |-> revisions + 1]
    IN  /\ se.at = "analysing"
        /\ revisions < MaxRevisions
        /\ revisions' = revisions + 1
        /\ session' = [session EXCEPT ![s].bundle = result, ![s].at = "rerun"]
        /\ dirs' = dirs \cup {se.clips}
        /\ files' = [files EXCEPT ![se.clips] = result]
        /\ free' = free + 1
        /\ UNCHANGED made

\* An error, or the user went on to something else.
AnalysisEnds(s) ==
    /\ session[s].at = "analysing"
    /\ free' = free + 1
    /\ \E at \in {"idle", "rerun"} : session' = [session EXCEPT ![s].at = at]
    /\ UNCHANGED <<dirs, made, files, revisions>>

\* The script has kept the video and shows the result; _persist_review_bundle.
Edit(s) ==
    LET se == session[s]
        edited == [se.bundle EXCEPT !.revision = revisions + 1]
    IN  /\ AtRest(s)
        /\ se.bundle # Nothing
        /\ ~IsNewVideo(se)
        /\ revisions < MaxRevisions
        /\ revisions' = revisions + 1
        /\ session' = [session EXCEPT ![s].bundle = edited, ![s].at = "rerun"]
        /\ dirs' = dirs \cup {se.clips}
        /\ files' = [files EXCEPT ![se.clips] = edited]
        /\ UNCHANGED <<made, free>>

-----------------------------------------------------------------------------
\* cleanup_stale_temp, by the thread or at the start of a script, once the
\* directory is an hour old, whoever uses it.  The directory of a session that
\* waits for a slot is two minutes old at most.
CleanUp(d) ==
    /\ \A s \in Sessions : session[s].at = "waiting" => session[s].clips # d
    /\ Replace({d}, {})
    /\ UNCHANGED <<session, made, free, revisions>>

SessionsNext ==
    \/ \E s \in Sessions :
         \/ RunScript(s) \/ TakeVideo(s)
         \/ Touch(s) \/ ResetClick(s) \/ CloseTab(s)
         \/ \E f \in Files \cup {Nothing} : ChooseFile(s, f)
         \/ AnalyzeClick(s) \/ AcquireSlot(s) \/ ServerBusy(s)
         \/ Analysed(s) \/ AnalysisEnds(s)
         \/ Edit(s)
    \/ \E d \in dirs : CleanUp(d)

SessionsSpec == SessionsInit /\ [][SessionsNext]_sessionVars

-----------------------------------------------------------------------------
(***************************************************************************)
(* Properties.                                                             *)
(***************************************************************************)
Analysing == {s \in Sessions : session[s].at = "analysing"}

\* Slots are neither lost nor given twice, whatever ends an analysis: results,
\* errors, interruptions and waits that were given up.
SlotsAreAccountedFor == free + Cardinality(Analysing) = Slots

\* A result belongs to the video the session has, never to one it had before,
\* and the file a reviewer saves is what the session shows, unless the cleaning
\* has taken the directory away.
ResultsAreOfTheVideo ==
    \A s \in Sessions :
        LET se == session[s]
        IN  se.bundle # Nothing =>
               /\ se.video # Nothing /\ se.video.of = se.bundle.of
               /\ se.clips \in dirs => files[se.clips] = se.bundle

\* The result stays until its user resets the session or chooses another file:
\* no run of the script is about to take the file of the result for a new one,
\* which resets the session and removes what was saved.
ResultsStay ==
    \A s \in Sessions :
        LET se == session[s]
        IN  se.at = "rerun" /\ se.bundle # Nothing /\ se.bundle.of = se.file =>
                ~IsNewVideo(se)
=============================================================================
