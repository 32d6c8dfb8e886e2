--------------------------- MODULE InferenceServer ---------------------------
(***************************************************************************)
(* InferenceServer: the FastAPI process around SAM3.  uvicorn runs one     *)
(* event loop; every handler is an `async def` without an await, so once a *)
(* handler runs, everything else waits until it returns: `inbox` is what   *)
(* has arrived and waits, `job` the handler that runs.  What a handler     *)
(* takes and must give back are the predictor lock, the SAM3 session and   *)
(* the temporary directory of frames.  Its clients are in SceneTracking.   *)
(***************************************************************************)
EXTENDS Integers, Sequences, FiniteSets

CONSTANTS FrameCount,        \* frames of an uploaded video
          Prompts,           \* text prompts of the seeds
          Requests,          \* what clients may send, before it has an id
          Propagations(_),   \* what SAM3 may answer over a directory of n frames
          MaxRequests,       \* bound: requests in a behaviour
          MaxCrashes,        \* bound: restarts of the process
          None

ASSUME ServerAssumption ==
    /\ FrameCount \in Nat \ {0} /\ MaxRequests \in Nat /\ MaxCrashes \in Nat
    /\ None \notin Nat /\ None \notin Prompts

\* A point of a track is valid when the client will accept its confidence.
LocalPoints(n) == [frame : 0..(n - 1), valid : BOOLEAN]

\* A set of tracks, each a non-empty set of points.
ASSUME PropagationsAssumption ==
    \A n \in 1..FrameCount :
        Propagations(n) \subseteq SUBSET ((SUBSET LocalPoints(n)) \ {{}})

\* uuid4 makes every upload's id fresh: the id of the request that made it.
RequestIds == 1..MaxRequests
Seeds == [frame : Int \cup {None}, prompt : Prompts]

\* One record for the bodies of all endpoints; a field an endpoint lacks is
\* None, FALSE or empty.  `named`: a file name with an accepted extension;
\* `image`: the path of an image on the host.
RequestRecord(ids) ==
    [id : ids, kind : {"upload", "track", "segment", "compute"},
     named : BOOLEAN, image : BOOLEAN, video : RequestIds \cup {None},
     start : Int \cup {None}, end : Int \cup {None}, frame : Int \cup {None},
     seeds : Seq(Seeds)]

IsRequest(r) == r \in RequestRecord({None}) /\ (r.kind = "track" => r.video # None)

ASSUME RequestsAssumption == \A r \in Requests : IsRequest(r)

\* What a track request may answer, and a running handler: its request, the step it
\* is at, how many seeds are prompted, whether a prompt has found an object, and the
\* answer once it is known.
Tracks == [prompts : SUBSET Prompts, points : SUBSET [frame : Int, valid : BOOLEAN]]

JobRecord ==
    [req : RequestRecord(RequestIds),
     at : {"save", "copy", "find", "frames", "session", "prompt", "unwind", "compute"},
     prompted : Nat, found : BOOLEAN, status : {"ok", "failed"}, tracks : SUBSET Tracks]

ASSUME NoneAssumption == None \notin JobRecord

VARIABLES inbox,     \* requests that have reached the process, in arrival order
          job,       \* the running handler, or None
          files,     \* upload_dir: the state of each upload's file
          lock,      \* Sam3InferenceClient._lock: the request holding it, or None
          sessions,  \* predictor._all_inference_states
          frameDirs, \* temporary frame directories on disk
          replies,   \* answers on their way to a client
          sent,      \* requests sent so far, the source of their ids
          crashes    \* restarts so far

held == <<lock, sessions, frameDirs>>
bounds == <<sent, crashes>>
serverVars == <<inbox, job, files, held, replies, bounds>>

ServerInit ==
    /\ inbox = <<>>
    /\ job = None
    /\ files = [i \in RequestIds |-> "absent"]
    /\ lock = None
    /\ sessions = {}
    /\ frameDirs = {}
    /\ replies = {}
    /\ sent = 0
    /\ crashes = 0

Answer(r, status, tracks) ==
    replies' = replies \cup {[id |-> r.id, status |-> status, tracks |-> tracks]}

\* A request reaches the process.
Arrive(r) ==
    /\ sent < MaxRequests
    /\ sent' = sent + 1
    /\ inbox' = Append(inbox, [r EXCEPT !.id = sent + 1])

At(step) == job # None /\ job.at = step
Goto(step) == job' = [job EXCEPT !.at = step]

\* The handler ends without holding anything, with this status.
Respond(status) == job' = None /\ Answer(job.req, status, {})

-----------------------------------------------------------------------------
(***************************************************************************)
(* The validators of the request models, before a handler runs.            *)
(***************************************************************************)
CheckFrameRange(r) ==
    /\ (r.start = None) <=> (r.end = None)
    /\ r.start # None =>
         /\ r.start >= 0 /\ r.start < r.end
         /\ \A i \in DOMAIN r.seeds :
              r.seeds[i].frame # None => r.seeds[i].frame \in r.start..(r.end - 1)

CheckImageSource(r) == r.image # (r.video # None /\ r.frame # None)

Accepted(r) ==
    CASE r.kind = "upload" -> r.named
      [] r.kind = "track" -> CheckFrameRange(r)
      [] r.kind = "segment" -> CheckImageSource(r)
      [] r.kind = "compute" -> TRUE

FirstStep(r) ==
    CASE r.kind = "upload" -> "save"
      [] r.kind = "compute" -> "compute"
      [] OTHER -> "find"

TakeRequest ==
    /\ job = None
    /\ inbox # <<>>
    /\ inbox' = Tail(inbox)
    /\ LET r == Head(inbox) IN
         IF Accepted(r)
         THEN /\ job' = [req |-> r, at |-> FirstStep(r), prompted |-> 0,
                         found |-> FALSE, status |-> "failed", tracks |-> {}]
              /\ UNCHANGED replies
         ELSE Answer(r, "invalid", {}) /\ UNCHANGED job
    /\ UNCHANGED <<files, held, bounds>>

-----------------------------------------------------------------------------
(***************************************************************************)
(* upload_video: open the file, copy the body, answer with the id.         *)
(***************************************************************************)
OpenUpload ==
    /\ At("save")
    /\ files' = [files EXCEPT ![job.req.id] = "partial"]
    /\ Goto("copy")
    /\ UNCHANGED <<inbox, held, replies, bounds>>

CopyUpload ==
    /\ At("copy")
    /\ files' = [files EXCEPT ![job.req.id] = "complete"]
    /\ Respond("ok")
    /\ UNCHANGED <<inbox, held, bounds>>

\* The disk is full or the body ends early: what was written stays there.
UploadFails ==
    /\ At("save") \/ At("copy")
    /\ Respond("failed")
    /\ UNCHANGED <<inbox, files, held, bounds>>

-----------------------------------------------------------------------------
(***************************************************************************)
(* track_video and segment_image up to the predictor lock.                 *)
(***************************************************************************)
HasRange(r) == r.kind = "track" /\ r.start # None

\* What the request makes the server decode, [first, last).
DecodedRange(r) ==
    IF r.kind = "segment" THEN IF r.image THEN <<0, 1>> ELSE <<r.frame, r.frame + 1>>
    ELSE IF HasRange(r) THEN <<r.start, r.end>>
    ELSE <<0, FrameCount>>

OfImage(r) == r.kind = "segment" /\ r.image

\* A track without a range is fed the video itself.
NeedsDirectory(r) == r.kind = "segment" \/ HasRange(r)

\* _find_video_path takes any file of that id, whole or not; an image is a
\* path of the host.  The temporary directory is made next.
FindVideo ==
    /\ At("find")
    /\ ~OfImage(job.req) => files[job.req.video] # "absent"
    /\ Goto("frames")
    /\ frameDirs' = IF NeedsDirectory(job.req) THEN frameDirs \cup {job.req.id} ELSE frameDirs
    /\ UNCHANGED <<inbox, files, lock, sessions, replies, bounds>>

VideoMissing ==
    /\ At("find")
    /\ ~OfImage(job.req) => files[job.req.video] = "absent"
    /\ Respond("missing")
    /\ UNCHANGED <<inbox, files, held, bounds>>

\* The frames are decoded into the directory, or only the size is read.
WriteFrames ==
    /\ At("frames")
    /\ ~OfImage(job.req) => DecodedRange(job.req)[1] >= 0 /\ DecodedRange(job.req)[2] <= FrameCount
    /\ Goto("session")
    /\ UNCHANGED <<inbox, files, held, replies, bounds>>

\* A decode or a write fails, or the video has fewer frames than the range:
\* the directory goes with its context manager.
FramesFail ==
    /\ At("frames")
    /\ frameDirs' = frameDirs \ {job.req.id}
    /\ Respond("failed")
    /\ UNCHANGED <<inbox, files, lock, sessions, bounds>>

(***************************************************************************)
(* _track_resource and _segment_resource: under the predictor lock.        *)
(***************************************************************************)
StartSession ==
    /\ At("session")
    /\ lock = None
    /\ lock' = job.req.id
    /\ sessions' = sessions \cup {job.req.id}
    /\ Goto("prompt")
    /\ UNCHANGED <<inbox, files, frameDirs, replies, bounds>>

\* Mutant: the lock is not released when the session cannot be started.
StartSessionFailsLocked ==
    /\ At("session")
    /\ lock = None
    /\ lock' = job.req.id
    /\ frameDirs' = frameDirs \ {job.req.id}
    /\ Respond("failed")
    /\ UNCHANGED <<inbox, files, sessions, bounds>>

\* init_state raises before the session is registered.
StartSessionFails ==
    /\ At("session")
    /\ lock = None
    /\ frameDirs' = frameDirs \ {job.req.id}
    /\ Respond("failed")
    /\ UNCHANGED <<inbox, files, lock, sessions, bounds>>

Length(r) == DecodedRange(r)[2] - DecodedRange(r)[1]

\* _localize_seed_frame_indexes and the default frame of _add_seed_prompt: a
\* range shifts the seeds of a track; the seeds of an image are not shifted.
LocalFrame(r, seed) ==
    IF seed.frame = None THEN 0
    ELSE IF HasRange(r) THEN seed.frame - r.start
    ELSE seed.frame

\* The predictor takes a prompt on a frame it has, or raises.
AddPrompt ==
    /\ At("prompt")
    /\ job.prompted < Len(job.req.seeds)
    /\ LocalFrame(job.req, job.req.seeds[job.prompted + 1]) \in 0..(Length(job.req) - 1)
    /\ \E objects \in BOOLEAN :
         job' = [job EXCEPT !.prompted = @ + 1, !.found = @ \/ objects]
    /\ UNCHANGED <<inbox, files, held, replies, bounds>>

PredictorFails ==
    /\ At("prompt")
    /\ job.prompted < Len(job.req.seeds) \/ job.found
    /\ job' = [job EXCEPT !.at = "unwind", !.status = "failed"]
    /\ UNCHANGED <<inbox, files, held, replies, bounds>>

AllPrompted == At("prompt") /\ job.prompted = Len(job.req.seeds)

\* Mutant: the early return is outside the try.
SkipPropagationReturns ==
    /\ AllPrompted /\ ~job.found
    /\ frameDirs' = frameDirs \ {job.req.id}
    /\ lock' = None
    /\ Respond("ok")
    /\ UNCHANGED <<inbox, files, sessions, bounds>>

\* No prompt produced an object, or the request was for an image.
SkipPropagation ==
    /\ AllPrompted
    /\ ~job.found \/ job.req.kind = "segment"
    /\ job' = [job EXCEPT !.at = "unwind", !.status = "ok"]
    /\ UNCHANGED <<inbox, files, held, replies, bounds>>

\* The points are counted from the first frame of the temporary directory.
FrameOffset(r) == IF HasRange(r) THEN r.start ELSE 0

\* _propagate_tracks: one track per object, its points back in video frames.
Propagate ==
    /\ AllPrompted /\ job.found /\ job.req.kind = "track"
    /\ \E found \in Propagations(Length(job.req)) :
         job' = [job EXCEPT
           !.at = "unwind", !.status = "ok",
           !.tracks = {[prompts |-> {job.req.seeds[i].prompt : i \in DOMAIN job.req.seeds},
                        points |-> {[frame |-> p.frame + FrameOffset(job.req),
                                     valid |-> p.valid] : p \in points}] :
                       points \in found}]
    /\ UNCHANGED <<inbox, files, held, replies, bounds>>

\* `finally`, the end of the lock and the end of the temporary directory.
Unwind ==
    /\ At("unwind")
    /\ sessions' = sessions \ {job.req.id}
    /\ lock' = None
    /\ frameDirs' = frameDirs \ {job.req.id}
    /\ job' = None
    /\ Answer(job.req, job.status, job.tracks)
    /\ UNCHANGED <<inbox, files, bounds>>

-----------------------------------------------------------------------------
\* embed_images and score keep no state between requests.
Compute ==
    /\ At("compute")
    /\ Respond("ok") \/ Respond("failed")
    /\ UNCHANGED <<inbox, files, held, bounds>>

\* The process dies and is started again (docker-compose: unless-stopped):
\* what was in memory is gone, what was on disk stays.
Crash ==
    /\ crashes < MaxCrashes
    /\ crashes' = crashes + 1
    /\ inbox' = <<>>
    /\ job' = None
    /\ lock' = None
    /\ sessions' = {}
    /\ replies' = {}
    /\ UNCHANGED <<files, frameDirs, sent>>

Handle ==
    \/ TakeRequest
    \/ OpenUpload \/ CopyUpload \/ UploadFails
    \/ FindVideo \/ VideoMissing \/ WriteFrames \/ FramesFail
    \/ StartSession \/ StartSessionFails
    \/ AddPrompt \/ PredictorFails \/ SkipPropagation \/ Propagate \/ Unwind
    \/ Compute

-----------------------------------------------------------------------------
(***************************************************************************)
(* The server alone, against any sequence of requests.                     *)
(***************************************************************************)
Request(r) == Arrive(r) /\ UNCHANGED <<job, files, held, replies, crashes>>

ServerNext == Handle \/ Crash \/ \E r \in Requests : Request(r)

\* A handler that runs has the event loop to itself, and the loop goes on.
ServerSpec == ServerInit /\ [][ServerNext]_serverVars /\ WF_serverVars(Handle)

-----------------------------------------------------------------------------
(***************************************************************************)
(* Properties.                                                             *)
(***************************************************************************)
\* Between requests the server holds nothing: whichever way a handler ended,
\* its SAM3 session is closed, the predictor lock is free, and no temporary
\* directory is left but those of handlers a crash has killed.
IdleHoldsNothing ==
    job = None => lock = None /\ sessions = {} /\ Cardinality(frameDirs) <= crashes

\* Every request that has arrived is handled: a handler that did not give back
\* the lock would stop the event loop at the next one that needs it.
RequestsAreHandled == inbox # <<>> ~> (inbox = <<>> /\ job = None)
=============================================================================
