------------------------- MODULE SceneTrackingProofs -------------------------
(***************************************************************************)
(* Proofs about object seed tracking and the server it asks.  For any      *)
(* requests in any order, any answer of SAM3 and any number of restarts,   *)
(* the server holds nothing between requests; for any number of notebooks, *)
(* scenes and seeds, and whatever times out, crashes or comes late, a      *)
(* scene only has tracks of its own, and an asset is the work of whole     *)
(* calls.                                                                  *)
(***************************************************************************)
EXTENDS SceneTracking, TLAPS, FiniteSetTheorems

-----------------------------------------------------------------------------
(***************************************************************************)
(* The inference server.                                                   *)
(***************************************************************************)
ServerTypeOK ==
    /\ inbox \in Seq(RequestRecord(RequestIds))
    /\ job \in JobRecord \cup {None}
    /\ sent \in 0..MaxRequests /\ crashes \in Nat

(***************************************************************************)
(* The inductive invariant.  What is held is told by the step the handler  *)
(* is at: lock and session from the start of the session to the end of the *)
(* with statement, a directory since the video was found.  A handler that  *)
(* does not have a directory leaves none, so what is on disk beside the    *)
(* running handler's is what a crash has left.                             *)
(***************************************************************************)
UnderLock == job # None /\ job.at \in {"prompt", "unwind"}
WithDirectory == job # None /\ job.at \in {"frames", "session", "prompt", "unwind"}

HeldByStep ==
    /\ lock = IF UnderLock THEN job.req.id ELSE None
    /\ sessions = IF UnderLock THEN {job.req.id} ELSE {}

\* The directories that nobody will remove.
Left == IF WithDirectory THEN frameDirs \ {job.req.id} ELSE frameDirs

LeftByCrashes == IsFiniteSet(frameDirs) /\ Cardinality(Left) <= crashes

\* A handler runs on an accepted request, and on a track request beyond the decoder
\* only when the video has the frames.
JobChecked ==
    job # None =>
        /\ Accepted(job.req)
        /\ job.at \in {"session", "prompt"} /\ job.req.kind = "track" =>
              DecodedRange(job.req)[1] >= 0 /\ DecodedRange(job.req)[2] <= FrameCount

ServerInv == ServerTypeOK /\ HeldByStep /\ LeftByCrashes /\ JobChecked

LEMMA InitServerInv == ASSUME ServerInit PROVE ServerInv
<1>1. IsFiniteSet({}) /\ Cardinality({}) = 0
  BY FS_EmptySet
<1> QED
  BY <1>1, ServerAssumption
     DEF ServerInit, ServerInv, ServerTypeOK, HeldByStep, LeftByCrashes, Left, UnderLock,
         WithDirectory, JobChecked

-----------------------------------------------------------------------------
\* A handler goes to another step, or has prompted, or has its answer.
LEMMA JobMoves ==
    ASSUME NEW j \in JobRecord, NEW at \in {"save", "copy", "find", "frames", "session",
                                            "prompt", "unwind", "compute"}
    PROVE  /\ [j EXCEPT !.at = at] \in JobRecord
           /\ [j EXCEPT !.at = at].at = at /\ [j EXCEPT !.at = at].req = j.req
  BY DEF JobRecord

\* A directory more or less.
LEMMA Directories ==
    ASSUME NEW D, IsFiniteSet(D), NEW i
    PROVE  /\ IsFiniteSet(D \cup {i}) /\ IsFiniteSet(D \ {i})
           /\ Cardinality(D) \in Nat /\ Cardinality(D \ {i}) \in Nat
           /\ Cardinality(D \ {i}) <= Cardinality(D)
           /\ Cardinality(D) <= Cardinality(D \ {i}) + 1
<1>1. /\ IsFiniteSet(D \cup {i}) /\ IsFiniteSet(D \ {i})
      /\ Cardinality(D \ {i}) = IF i \in D THEN Cardinality(D) - 1 ELSE Cardinality(D)
  BY FS_AddElement, FS_RemoveElement
<1>2. Cardinality(D) \in Nat /\ Cardinality(D \ {i}) \in Nat
  BY <1>1, FS_CardinalityType
<1> QED
  BY <1>1, <1>2

\* The frames of a track are those of the directory, in frames of the video.
LEMMA Propagated ==
    ASSUME ServerInv, Propagate
    PROVE  /\ job \in JobRecord /\ Length(job.req) \in 1..FrameCount
           /\ FrameOffset(job.req) \in Int
           /\ \E tracks \in SUBSET Tracks :
                 job' = [job EXCEPT !.at = "unwind", !.status = "ok", !.tracks = tracks]
<1> DEFINE r == job.req
<1>1. /\ job \in JobRecord /\ r \in RequestRecord(RequestIds) /\ r.kind = "track"
      /\ job # None /\ job.at = "prompt"
  BY NoneAssumption DEF ServerInv, ServerTypeOK, Propagate, AllPrompted, At, JobRecord
<1>2. CheckFrameRange(r) /\ DecodedRange(r)[1] >= 0 /\ DecodedRange(r)[2] <= FrameCount
  BY <1>1 DEF ServerInv, JobChecked, Accepted
<1>3. /\ r.start \in Int \cup {None} /\ r.end \in Int \cup {None} /\ r.seeds \in Seq(Seeds)
      /\ FrameCount \in Nat /\ FrameCount > 0
  BY <1>1, ServerAssumption DEF RequestRecord
<1>4. ASSUME r.start = None
      PROVE  Length(r) \in 1..FrameCount /\ FrameOffset(r) \in Int
  <2>1. DecodedRange(r) = <<0, FrameCount>> /\ FrameOffset(r) = 0
    BY <1>1, <1>4 DEF DecodedRange, HasRange, FrameOffset
  <2> QED
    BY <1>3, <2>1 DEF Length
<1>5. ASSUME r.start # None
      PROVE  Length(r) \in 1..FrameCount /\ FrameOffset(r) \in Int
  <2>1. DecodedRange(r) = <<r.start, r.end>> /\ FrameOffset(r) = r.start
    BY <1>1, <1>5 DEF DecodedRange, HasRange, FrameOffset
  <2>2. r.start \in Int /\ r.end \in Int /\ r.start < r.end
    BY <1>2, <1>3, <1>5 DEF CheckFrameRange
  <2> QED
    BY <1>2, <1>3, <2>1, <2>2 DEF Length
<1>6. Length(r) \in 1..FrameCount /\ FrameOffset(r) \in Int
  BY <1>4, <1>5
<1> DEFINE prompts == {r.seeds[i].prompt : i \in DOMAIN r.seeds}
           inVideo(points) == {[frame |-> p.frame + FrameOffset(r), valid |-> p.valid] : p \in points}
<1>7. PICK found \in Propagations(Length(r)) :
        job' = [job EXCEPT !.at = "unwind", !.status = "ok",
                           !.tracks = {[prompts |-> prompts, points |-> inVideo(points)] :
                                          points \in found}]
  BY DEF Propagate
<1>8. \A points \in found : points \subseteq LocalPoints(Length(r))
  BY <1>6, <1>7, PropagationsAssumption
<1>9. ASSUME NEW points \in found
      PROVE  inVideo(points) \subseteq [frame : Int, valid : BOOLEAN]
  <2>1. \A p \in points : p.frame + FrameOffset(r) \in Int /\ p.valid \in BOOLEAN
    BY <1>6, <1>8 DEF LocalPoints
  <2> QED
    BY <2>1
<1>10. prompts \subseteq Prompts
  <2>1. \A i \in DOMAIN r.seeds : r.seeds[i] \in Seeds
    BY <1>3
  <2> QED
    BY <2>1 DEF Seeds
<1> HIDE DEF prompts, inVideo
<1>11. {[prompts |-> prompts, points |-> inVideo(points)] : points \in found} \in SUBSET Tracks
  BY <1>9, <1>10 DEF Tracks
<1> QED
  BY <1>1, <1>6, <1>7, <1>11

\* A step with nothing in hand that leaves nothing in hand.
LEMMA EmptyHanded ==
    ASSUME ServerInv, ServerTypeOK', JobChecked', ~UnderLock, ~UnderLock', ~WithDirectory, ~WithDirectory',
           UNCHANGED <<held, crashes>>
    PROVE  ServerInv'
  BY DEF ServerInv, HeldByStep, LeftByCrashes, Left, held

\* A handler that goes on keeps its request, and the answer it has so far.
LEMMA JobGoesOn ==
    ASSUME ServerInv,
           \/ OpenUpload \/ FindVideo \/ WriteFrames \/ StartSession
           \/ AddPrompt \/ PredictorFails \/ SkipPropagation
    PROVE  /\ job \in JobRecord /\ job # None /\ job' \in JobRecord /\ job' # None
           /\ job'.req = job.req /\ job'.tracks = job.tracks
<1>1. job \in JobRecord
  BY DEF ServerInv, ServerTypeOK, OpenUpload, FindVideo, WriteFrames, StartSession, AddPrompt,
         PredictorFails, SkipPropagation, AllPrompted, At
<1>2. CASE OpenUpload \/ FindVideo \/ WriteFrames \/ StartSession
  <2>1. PICK at \in {"copy", "frames", "session", "prompt"} : job' = [job EXCEPT !.at = at]
    BY <1>2 DEF OpenUpload, FindVideo, WriteFrames, StartSession, Goto
  <2>2. job' \in JobRecord
    BY <1>1, <2>1 DEF JobRecord
  <2> QED
    BY <1>1, <2>1, <2>2, NoneAssumption DEF JobRecord
<1>3. CASE PredictorFails \/ SkipPropagation
  <2>1. PICK status \in {"ok", "failed"} : job' = [job EXCEPT !.at = "unwind", !.status = status]
    BY <1>3 DEF PredictorFails, SkipPropagation
  <2>2. job' \in JobRecord
    BY <1>1, <2>1 DEF JobRecord
  <2> QED
    BY <1>1, <2>1, <2>2, NoneAssumption DEF JobRecord
<1>4. CASE AddPrompt
  <2>1. PICK objects \in BOOLEAN :
          job' = [job EXCEPT !.prompted = job.prompted + 1, !.found = job.found \/ objects]
    BY <1>4 DEF AddPrompt
  <2> DEFINE found == job.found \/ objects
  <2>2. job' = [job EXCEPT !.prompted = job.prompted + 1, !.found = found]
    BY <2>1
  <2>3. found \in BOOLEAN /\ job.prompted + 1 \in Nat
    BY <1>1 DEF JobRecord
  <2> HIDE DEF found
  <2> QED
    BY <1>1, <2>2, <2>3, NoneAssumption DEF JobRecord
<1> QED
  BY <1>2, <1>3, <1>4

LEMMA HandleKeeps == ASSUME ServerInv, Handle PROVE ServerInv'
<1>1. /\ inbox \in Seq(RequestRecord(RequestIds)) /\ job \in JobRecord \cup {None}
      /\ sent \in 0..MaxRequests /\ crashes \in Nat
      /\ IsFiniteSet(frameDirs) /\ None \notin JobRecord
  BY NoneAssumption DEF ServerInv, ServerTypeOK, LeftByCrashes
<1>2. CASE TakeRequest
  <2>1. job = None /\ inbox # <<>> /\ inbox' = Tail(inbox) /\ UNCHANGED <<held, bounds>>
    BY <1>2 DEF TakeRequest
  <2>2. Head(inbox) \in RequestRecord(RequestIds) /\ inbox' \in Seq(RequestRecord(RequestIds))
    BY <1>1, <2>1
  <2>3. job' \in JobRecord \cup {None} /\ (job' # None => job'.at \in {"save", "compute", "find"})
    <3> DEFINE r == Head(inbox)
               begun == [req |-> r, at |-> FirstStep(r), prompted |-> 0,
                         found |-> FALSE, status |-> "failed", tracks |-> {}]
    <3>1. FirstStep(r) \in {"save", "compute", "find"}
      BY DEF FirstStep
    <3>2. begun \in JobRecord /\ begun.at = FirstStep(r)
      BY <2>2, <3>1 DEF JobRecord
    <3>3. job' \in {begun, None}
      BY <1>2, <2>1 DEF TakeRequest
    <3> HIDE DEF begun, r
    <3> QED
      BY <3>1, <3>2, <3>3
  <2>4. ServerTypeOK'
    BY <1>1, <2>1, <2>2, <2>3 DEF ServerTypeOK, bounds
  <2>5. JobChecked'
    BY <1>2, <2>1, <2>3 DEF TakeRequest, JobChecked
  <2> QED
    BY <2>1, <2>3, <2>4, <2>5, EmptyHanded DEF UnderLock, WithDirectory, held, bounds
\* A handler without a directory or a lock goes on, or responds.
<1>3. CASE OpenUpload \/ CopyUpload \/ UploadFails \/ VideoMissing \/ Compute
  <2>1. /\ job \in JobRecord /\ job # None /\ job.at \in {"save", "copy", "find", "compute"}
        /\ UNCHANGED <<inbox, held, bounds>>
        /\ job' = [job EXCEPT !.at = "copy"] \/ job' = None
    BY <1>1, <1>3 DEF OpenUpload, CopyUpload, UploadFails, VideoMissing, Compute, At, Goto, Respond
  <2>2. /\ job' \in JobRecord \cup {None}
        /\ job' # None => job'.at = "copy" /\ job'.req = job.req
    <3>1. [job EXCEPT !.at = "copy"] \in JobRecord /\ [job EXCEPT !.at = "copy"].at = "copy"
          /\ [job EXCEPT !.at = "copy"].req = job.req
      BY <2>1, JobMoves
    <3> QED
      BY <2>1, <3>1
  <2>3. ServerTypeOK'
    BY <1>1, <2>1, <2>2 DEF ServerTypeOK, bounds
  <2>4. JobChecked'
    BY <2>1, <2>2 DEF ServerInv, JobChecked
  <2> QED
    BY <2>1, <2>2, <2>3, <2>4, EmptyHanded DEF UnderLock, WithDirectory, held, bounds
<1>4. CASE FindVideo
  <2>1. /\ job \in JobRecord /\ job.at = "find" /\ job' = [job EXCEPT !.at = "frames"]
        /\ frameDirs' \in {frameDirs, frameDirs \cup {job.req.id}}
        /\ UNCHANGED <<inbox, lock, sessions, bounds>>
    BY <1>1, <1>4 DEF FindVideo, At, Goto
  <2>2. job' \in JobRecord /\ job' # None /\ job'.at = "frames" /\ job'.req = job.req
    BY <1>1, <2>1, JobMoves
  <2>3. Left' \subseteq frameDirs /\ Left = frameDirs
    BY <2>1, <2>2 DEF Left, WithDirectory
  <2>4. IsFiniteSet(frameDirs') /\ Cardinality(Left') <= Cardinality(frameDirs)
        /\ Cardinality(frameDirs) \in Nat /\ Cardinality(Left') \in Nat
    BY <1>1, <2>1, <2>3, Directories, FS_Subset, FS_CardinalityType
  <2>5. LeftByCrashes'
    BY <1>1, <2>1, <2>3, <2>4 DEF ServerInv, LeftByCrashes, bounds
  <2>6. HeldByStep'
    BY <2>1, <2>2 DEF ServerInv, HeldByStep, UnderLock
  <2>7. JobChecked'
    BY <1>1, <2>1, <2>2 DEF ServerInv, JobChecked
  <2> QED
    BY <1>1, <2>1, <2>2, <2>5, <2>6, <2>7 DEF ServerInv, ServerTypeOK, bounds
<1>5. CASE WriteFrames \/ AddPrompt \/ PredictorFails \/ SkipPropagation \/ Propagate \/ StartSession
  <2>1. /\ job \in JobRecord /\ job # None
        /\ UNCHANGED <<inbox, frameDirs, bounds>>
    BY <1>1, <1>5
       DEF WriteFrames, AddPrompt, PredictorFails, SkipPropagation, Propagate, AllPrompted,
           StartSession, At, held
  <2>2. ASSUME job' \in JobRecord, job'.req = job.req,
               job.at \in {"frames", "session", "prompt", "unwind"},
               job'.at \in {"frames", "session", "prompt", "unwind"}, HeldByStep', JobChecked'
        PROVE  ServerInv'
    <3>1. Left' = Left
      BY <1>1, <2>1, <2>2 DEF Left, WithDirectory
    <3> QED
      BY <1>1, <2>1, <2>2, <3>1 DEF ServerInv, ServerTypeOK, LeftByCrashes, bounds
  <2>3. CASE WriteFrames
    <3>1. job.at = "frames" /\ job' = [job EXCEPT !.at = "session"] /\ UNCHANGED held
      BY <2>3 DEF WriteFrames, At, Goto
    <3>2. job' \in JobRecord /\ job'.req = job.req /\ job'.at = "session"
      BY <2>1, <3>1, JobMoves
    <3>3. HeldByStep'
      BY <1>1, <2>1, <3>1, <3>2 DEF ServerInv, HeldByStep, UnderLock, held
    <3>4. JobChecked'
      <4>1. job.req.kind = "track" =>
               DecodedRange(job.req)[1] >= 0 /\ DecodedRange(job.req)[2] <= FrameCount
        BY <2>3 DEF WriteFrames, OfImage
      <4> QED
        BY <2>1, <3>1, <3>2, <4>1 DEF ServerInv, JobChecked
    <3> QED
      BY <2>2, <3>1, <3>2, <3>3, <3>4
  <2>4. CASE StartSession
    <3>1. /\ job.at = "session" /\ job' = [job EXCEPT !.at = "prompt"]
          /\ lock' = job.req.id /\ sessions' = sessions \cup {job.req.id}
      BY <2>4 DEF StartSession, At, Goto
    <3>2. job' \in JobRecord /\ job'.req = job.req /\ job'.at = "prompt"
      BY <2>1, <3>1, JobMoves
    <3>3. HeldByStep'
      BY <1>1, <2>1, <3>1, <3>2 DEF ServerInv, HeldByStep, UnderLock
    <3>4. JobChecked'
      BY <2>1, <3>1, <3>2 DEF ServerInv, JobChecked
    <3> QED
      BY <2>2, <3>1, <3>2, <3>3, <3>4
  <2>5. CASE AddPrompt
    <3>1. /\ job.at = "prompt" /\ UNCHANGED held
      BY <2>5 DEF AddPrompt, At
    <3>2. job' \in JobRecord /\ job'.req = job.req /\ job'.at = "prompt"
      <4>1. \E objects \in BOOLEAN :
              job' = [job EXCEPT !.prompted = job.prompted + 1, !.found = job.found \/ objects]
        BY <2>5 DEF AddPrompt
      <4> QED
        BY <2>1, <2>5, <3>1, <4>1, JobGoesOn DEF JobRecord
    <3>3. HeldByStep'
      BY <1>1, <2>1, <3>1, <3>2 DEF ServerInv, HeldByStep, UnderLock, held
    <3>4. JobChecked'
      BY <2>1, <3>1, <3>2 DEF ServerInv, JobChecked
    <3> QED
      BY <2>2, <3>1, <3>2, <3>3, <3>4
  <2>6. CASE PredictorFails \/ SkipPropagation
    <3>1. /\ job.at = "prompt" /\ UNCHANGED held
          /\ \E status \in {"ok", "failed"} :
                job' = [job EXCEPT !.at = "unwind", !.status = status]
      BY <2>6 DEF PredictorFails, SkipPropagation, AllPrompted, At
    <3>2. job' \in JobRecord /\ job'.req = job.req /\ job'.at = "unwind"
      BY <2>1, <3>1 DEF JobRecord
    <3>3. HeldByStep'
      BY <1>1, <2>1, <3>1, <3>2 DEF ServerInv, HeldByStep, UnderLock, held
    <3>4. JobChecked'
      BY <2>1, <3>1, <3>2 DEF ServerInv, JobChecked
    <3> QED
      BY <2>2, <3>1, <3>2, <3>3, <3>4
  <2>7. CASE Propagate
    <3>1. job.at = "prompt" /\ UNCHANGED held
      BY <2>7 DEF Propagate, AllPrompted, At
    <3>2. job' \in JobRecord /\ job'.req = job.req /\ job'.at = "unwind"
      <4>1. PICK tracks \in SUBSET Tracks :
              job' = [job EXCEPT !.at = "unwind", !.status = "ok", !.tracks = tracks]
        BY <2>7, Propagated
      <4> QED
        BY <2>1, <4>1 DEF JobRecord
    <3>3. HeldByStep'
      BY <1>1, <2>1, <3>1, <3>2 DEF ServerInv, HeldByStep, UnderLock, held
    <3>4. JobChecked'
      BY <2>1, <3>1, <3>2 DEF ServerInv, JobChecked
    <3> QED
      BY <2>2, <3>1, <3>2, <3>3, <3>4
  <2> QED
    BY <1>5, <2>3, <2>4, <2>5, <2>6, <2>7
<1>6. CASE FramesFail \/ StartSessionFails \/ Unwind
  <2>1. /\ job \in JobRecord /\ job # None /\ job.at \in {"frames", "session", "unwind"}
        /\ job' = None /\ frameDirs' = frameDirs \ {job.req.id}
        /\ UNCHANGED <<inbox, bounds>>
    BY <1>1, <1>6 DEF FramesFail, StartSessionFails, Unwind, At, Respond
  <2>2. HeldByStep'
    BY <1>6, <2>1
       DEF FramesFail, StartSessionFails, Unwind, At, ServerInv, HeldByStep, UnderLock
  <2>3. Left' = Left
    BY <2>1 DEF Left, WithDirectory
  <2>4. LeftByCrashes'
    BY <1>1, <2>1, <2>3, Directories DEF ServerInv, LeftByCrashes, bounds
  <2> QED
    BY <1>1, <2>1, <2>2, <2>4 DEF ServerInv, ServerTypeOK, JobChecked, bounds
<1> QED
  BY <1>2, <1>3, <1>4, <1>5, <1>6 DEF Handle

LEMMA CrashKeeps == ASSUME ServerInv, Crash PROVE ServerInv'
<1>1. crashes \in Nat /\ IsFiniteSet(frameDirs) /\ Cardinality(Left) <= crashes
  BY DEF ServerInv, ServerTypeOK, LeftByCrashes
<1>2. /\ job' = None /\ inbox' = <<>> /\ lock' = None /\ sessions' = {}
      /\ crashes' = crashes + 1 /\ UNCHANGED <<frameDirs, sent>>
  BY DEF Crash
<1>3. Left' = frameDirs
  BY <1>2 DEF Left, WithDirectory
<1>4. Cardinality(frameDirs) <= Cardinality(Left) + 1
      /\ Cardinality(frameDirs) \in Nat /\ Cardinality(Left) \in Nat
  <2>1. CASE WithDirectory
    BY <1>1, <2>1, Directories DEF Left
  <2>2. CASE ~WithDirectory
    BY <1>1, <2>2, FS_CardinalityType DEF Left
  <2> QED
    BY <2>1, <2>2
<1>5. LeftByCrashes'
  BY <1>1, <1>2, <1>3, <1>4 DEF LeftByCrashes
<1> QED
  BY <1>1, <1>2, <1>5 DEF ServerInv, ServerTypeOK, HeldByStep, UnderLock, JobChecked

\* A request of a client, which has no id yet, arrives.
LEMMA ArriveKeeps ==
    ASSUME ServerInv, NEW r \in RequestRecord({None}), Arrive(r),
           UNCHANGED <<job, held, crashes>>
    PROVE  ServerInv'
<1>1. sent + 1 \in RequestIds /\ sent' = sent + 1 /\ sent' \in 0..MaxRequests
  BY ServerAssumption DEF Arrive, ServerInv, ServerTypeOK, RequestIds
<1>2. [r EXCEPT !.id = sent + 1] \in RequestRecord(RequestIds)
  BY <1>1 DEF RequestRecord
<1>3. ServerTypeOK'
  <2>1. inbox' = Append(inbox, [r EXCEPT !.id = sent + 1]) /\ inbox \in Seq(RequestRecord(RequestIds))
    BY DEF Arrive, ServerInv, ServerTypeOK
  <2>2. inbox' \in Seq(RequestRecord(RequestIds))
    BY <1>2, <2>1
  <2> QED
    BY <1>1, <2>2 DEF ServerInv, ServerTypeOK
<1>4. JobChecked'
  BY DEF ServerInv, JobChecked
<1> QED
  BY <1>3, <1>4 DEF ServerInv, HeldByStep, LeftByCrashes, Left, UnderLock, WithDirectory, held

LEMMA ServerHoldsNothing == ServerInv => IdleHoldsNothing
  BY DEF ServerInv, HeldByStep, LeftByCrashes, Left, UnderLock, WithDirectory, IdleHoldsNothing

\* Between requests the server holds nothing: whichever way a handler ended, its SAM3
\* session is closed, the predictor lock is free, and no temporary directory is left
\* but those of handlers a crash has killed (inference/sam3.py: track_video,
\* segment_image and what they call).
THEOREM IdleServerHoldsNothing == ServerSpec => []IdleHoldsNothing
<1>1. ServerInv /\ [ServerNext]_serverVars => ServerInv'
  <2> SUFFICES ASSUME ServerInv, [ServerNext]_serverVars PROVE ServerInv'
    OBVIOUS
  <2>1. ASSUME NEW r \in Requests, Request(r) PROVE ServerInv'
    BY <2>1, ArriveKeeps, RequestsAssumption DEF Request, IsRequest
  <2>2. CASE UNCHANGED serverVars
    BY <2>2 DEF serverVars, bounds, held, ServerInv, ServerTypeOK, HeldByStep, LeftByCrashes,
                Left, UnderLock, WithDirectory, JobChecked
  <2> QED
    BY <2>1, <2>2, HandleKeeps, CrashKeeps DEF ServerNext
<1> QED
  BY InitServerInv, ServerHoldsNothing, <1>1, PTL DEF ServerSpec

-----------------------------------------------------------------------------
(***************************************************************************)
(* The wire and the clients.                                               *)
(***************************************************************************)
(***************************************************************************)
(* The wire.  A request is pending until it is answered or dropped; an     *)
(* answer tells what its request asked for.                                *)
(***************************************************************************)
Pending == {inbox[i] : i \in DOMAIN inbox} \cup (IF job = None THEN {} ELSE {job.req})

\* The prompts of a track are those of the request; its frames lie in the range.
Tells(r, tracks) ==
    \A t \in tracks :
        /\ t.prompts = {r.seeds[i].prompt : i \in DOMAIN r.seeds}
        /\ t.points # {}
        /\ HasRange(r) => \A p \in t.points : p.frame \in r.start..(r.end - 1)

ReplyRecord ==
    [id : RequestIds, status : {"ok", "failed", "invalid", "missing"}, tracks : SUBSET Tracks]

WireInv ==
    /\ ServerInv
    /\ job # None => Tells(job.req, job.tracks)
    /\ \A r \in Pending : r.id <= sent
    /\ \A a \in replies : a \in ReplyRecord /\ a.id <= sent

\* What the server has done of the requests there were.
OnlyAnswered ==
    /\ Pending' \subseteq Pending
    /\ \A a \in replies' \ replies : \E r \in Pending : a.id = r.id /\ Tells(r, a.tracks)

LEMMA PropagatedTells ==
    ASSUME ServerInv, Propagate
    PROVE  Tells(job.req, job'.tracks)
<1> DEFINE r == job.req
           prompts == {r.seeds[i].prompt : i \in DOMAIN r.seeds}
           inVideo(points) == {[frame |-> p.frame + FrameOffset(r), valid |-> p.valid] : p \in points}
<1>1. PICK found \in Propagations(Length(r)) :
        job' = [job EXCEPT !.at = "unwind", !.status = "ok",
                           !.tracks = {[prompts |-> prompts, points |-> inVideo(points)] :
                                          points \in found}]
  BY DEF Propagate
<1>2. job \in JobRecord /\ Length(r) \in 1..FrameCount /\ r \in RequestRecord(RequestIds)
      /\ Accepted(r) /\ r.kind = "track"
  BY Propagated, NoneAssumption DEF JobRecord, ServerInv, JobChecked, Propagate, AllPrompted, At
<1>3. \A points \in found : points # {} /\ points \subseteq LocalPoints(Length(r))
  BY <1>1, <1>2, PropagationsAssumption
<1> DEFINE tracks == {[prompts |-> prompts, points |-> inVideo(points)] : points \in found}
<1> HIDE DEF prompts, inVideo
<1>4. job'.tracks = tracks
  BY <1>1, <1>2 DEF JobRecord
<1>5. ASSUME NEW points \in found
      PROVE  /\ inVideo(points) # {}
             /\ HasRange(r) => \A p \in inVideo(points) : p.frame \in r.start..(r.end - 1)
  <2>1. inVideo(points) # {}
    BY <1>3 DEF inVideo
  <2>2. ASSUME HasRange(r), NEW q \in points
        PROVE  q.frame + FrameOffset(r) \in r.start..(r.end - 1)
    <3>1. r.start \in Int /\ r.end \in Int
      BY <1>2, <2>2 DEF RequestRecord, Accepted, CheckFrameRange, HasRange
    <3>2. Length(r) = r.end - r.start /\ FrameOffset(r) = r.start
      BY <1>2, <2>2 DEF Length, DecodedRange, FrameOffset
    <3>3. q.frame \in 0..(Length(r) - 1)
      BY <1>3 DEF LocalPoints
    <3> QED
      BY <1>2, <3>1, <3>2, <3>3
  <2> QED
    BY <2>1, <2>2 DEF inVideo
<1>6. ASSUME NEW t \in tracks
      PROVE  /\ t.prompts = prompts /\ t.points # {}
             /\ HasRange(r) => \A p \in t.points : p.frame \in r.start..(r.end - 1)
  <2>1. PICK points \in found : t = [prompts |-> prompts, points |-> inVideo(points)]
    OBVIOUS
  <2> QED
    BY <1>5, <2>1
<1> QED
  BY <1>4, <1>6 DEF Tells, prompts

\* An answer that the server gives to the request it works on.
LEMMA AnswersJob ==
    ASSUME WireInv, job # None, NEW status \in {"ok", "failed", "invalid", "missing"},
           NEW tracks \in {{}, job.tracks}, Answer(job.req, status, tracks)
    PROVE  /\ \A a \in replies' : a \in ReplyRecord /\ a.id <= sent
           /\ \A a \in replies' \ replies : a.id = job.req.id /\ Tells(job.req, a.tracks)
<1>1. job \in JobRecord /\ job.req \in Pending /\ job.req.id \in RequestIds
  BY DEF WireInv, ServerInv, ServerTypeOK, Pending, JobRecord, RequestRecord
<1>2. tracks \in SUBSET Tracks /\ Tells(job.req, tracks)
  BY <1>1 DEF WireInv, JobRecord, Tells
<1> DEFINE a == [id |-> job.req.id, status |-> status, tracks |-> tracks]
<1>3. a \in ReplyRecord /\ a.id = job.req.id /\ a.tracks = tracks
  BY <1>1, <1>2 DEF ReplyRecord
<1>4. replies' = replies \cup {a}
  BY DEF Answer
<1> HIDE DEF a
<1> QED
  BY <1>1, <1>2, <1>3, <1>4 DEF WireInv

LEMMA HandleWire == ASSUME WireInv, Handle PROVE WireInv' /\ OnlyAnswered
<1>1. ServerInv' /\ sent' = sent
  BY HandleKeeps
     DEF WireInv, Handle, TakeRequest, OpenUpload, CopyUpload, UploadFails, FindVideo, VideoMissing,
         WriteFrames, FramesFail, StartSession, StartSessionFails, AddPrompt, PredictorFails,
         SkipPropagation, Propagate, Unwind, Compute, bounds
<1>2. /\ inbox \in Seq(RequestRecord(RequestIds)) /\ job \in JobRecord \cup {None}
      /\ None \notin JobRecord
  BY NoneAssumption DEF WireInv, ServerInv, ServerTypeOK
<1>3. CASE TakeRequest
  <2> DEFINE r == Head(inbox)
             begun == [req |-> r, at |-> FirstStep(r), prompted |-> 0,
                       found |-> FALSE, status |-> "failed", tracks |-> {}]
  <2>1. job = None /\ inbox # <<>> /\ inbox' = Tail(inbox)
    BY <1>3 DEF TakeRequest
  <2>2. /\ r = inbox[1] /\ 1 \in DOMAIN inbox /\ r \in RequestRecord(RequestIds)
        /\ \A i \in DOMAIN inbox' : i + 1 \in DOMAIN inbox /\ inbox'[i] = inbox[i + 1]
    BY <1>2, <2>1
  <2>3. r \in Pending /\ r.id \in RequestIds /\ r.id <= sent
    BY <2>2 DEF Pending, WireInv, RequestRecord
  <2>4. \/ job' = begun /\ UNCHANGED replies
        \/ job' = None /\ Answer(r, "invalid", {})
    BY <1>3, <2>1 DEF TakeRequest
  <2>5. begun.req = r /\ begun.tracks = {}
    OBVIOUS
  <2> HIDE DEF r, begun
  <2>6. Pending' \subseteq Pending
    BY <2>2, <2>3, <2>4, <2>5 DEF Pending
  <2>7. job' # None => Tells(job'.req, job'.tracks)
    BY <2>4, <2>5 DEF Tells
  <2>8. /\ \A a \in replies' : a \in ReplyRecord /\ a.id <= sent
        /\ \A a \in replies' \ replies : a.id = r.id /\ Tells(r, a.tracks)
    BY <2>3, <2>4 DEF WireInv, Answer, ReplyRecord, Tells
  <2> QED
    BY <1>1, <2>3, <2>6, <2>7, <2>8 DEF WireInv, OnlyAnswered
\* The handler goes on with its request and has no answer yet.
<1>4. ASSUME job # None, job' # None, job'.req = job.req, Tells(job'.req, job'.tracks),
             UNCHANGED <<inbox, replies>>
      PROVE  WireInv' /\ OnlyAnswered
  <2>1. Pending' = Pending
    BY <1>4 DEF Pending
  <2> QED
    BY <1>1, <1>4, <2>1 DEF WireInv, OnlyAnswered
<1>5. CASE \/ OpenUpload \/ FindVideo \/ WriteFrames \/ StartSession
           \/ AddPrompt \/ PredictorFails \/ SkipPropagation
  <2>1. job # None /\ job' # None /\ job'.req = job.req /\ job'.tracks = job.tracks
    BY <1>5, JobGoesOn DEF WireInv
  <2>2. UNCHANGED <<inbox, replies>>
    BY <1>5 DEF OpenUpload, FindVideo, WriteFrames, StartSession,
                AddPrompt, PredictorFails, SkipPropagation
  <2> QED
    BY <1>4, <2>1, <2>2 DEF WireInv
<1>6. CASE Propagate
  <2>1. job # None /\ UNCHANGED <<inbox, replies>>
    BY <1>6 DEF Propagate, AllPrompted, At
  <2>2. job' # None /\ job'.req = job.req
    <3>1. PICK tracks \in SUBSET Tracks :
            job' = [job EXCEPT !.at = "unwind", !.status = "ok", !.tracks = tracks]
      BY <1>6, Propagated DEF WireInv
    <3>2. job \in JobRecord
      BY <1>2, <2>1
    <3> QED
      BY <1>2, <3>1, <3>2 DEF JobRecord
  <2> QED
    BY <1>4, <1>6, <2>1, <2>2, PropagatedTells DEF WireInv
\* The handler answers.
<1>7. CASE CopyUpload \/ UploadFails \/ VideoMissing \/ FramesFail \/ StartSessionFails
           \/ Unwind \/ Compute
  <2>1. job # None /\ job' = None /\ UNCHANGED inbox
    BY <1>7 DEF CopyUpload, UploadFails, VideoMissing, FramesFail, StartSessionFails, Unwind,
                Compute, At, Respond
  <2>2. \E status \in {"ok", "failed", "invalid", "missing"} : \E tracks \in {{}, job.tracks} :
          Answer(job.req, status, tracks)
    <3>1. CASE Unwind
      <4>1. job.status \in {"ok", "failed"}
        BY <1>2, <2>1 DEF JobRecord
      <4> QED
        BY <3>1, <4>1 DEF Unwind
    <3>2. CASE CopyUpload \/ UploadFails \/ VideoMissing \/ FramesFail \/ StartSessionFails \/ Compute
      <4>1. \E status \in {"ok", "failed", "missing"} : Answer(job.req, status, {})
        BY <3>2 DEF CopyUpload, UploadFails, VideoMissing, FramesFail, StartSessionFails, Compute, Respond
      <4> QED
        BY <4>1
    <3> QED
      BY <1>7, <3>1, <3>2
  <2>3. /\ \A a \in replies' : a \in ReplyRecord /\ a.id <= sent
        /\ \A a \in replies' \ replies : a.id = job.req.id /\ Tells(job.req, a.tracks)
    BY <2>1, <2>2, AnswersJob
  <2>4. Pending' \subseteq Pending /\ job.req \in Pending
    BY <2>1 DEF Pending
  <2> QED
    BY <1>1, <2>1, <2>3, <2>4 DEF WireInv, OnlyAnswered
<1> QED
  BY <1>3, <1>5, <1>6, <1>7 DEF Handle

-----------------------------------------------------------------------------
(***************************************************************************)
(* What a step of anybody may do to the wire of a client that waits.       *)
(***************************************************************************)
WireStep ==
    /\ sent' \in {sent, sent + 1}
    /\ \A r \in Pending' : r \in Pending \/ r.id = sent + 1
    /\ \A a \in replies' : a \in replies \/ \E r \in Pending : a.id = r.id /\ Tells(r, a.tracks)

LEMMA CrashWire == ASSUME WireInv, Crash PROVE WireInv' /\ WireStep
<1>1. ServerInv'
  BY CrashKeeps DEF WireInv
<1>2. inbox' = <<>> /\ job' = None /\ replies' = {} /\ sent' = sent /\ sent \in Nat
  BY DEF Crash, WireInv, ServerInv, ServerTypeOK
<1>3. Pending' = {}
  BY <1>2 DEF Pending
<1> QED
  BY <1>1, <1>2, <1>3 DEF WireInv, WireStep

LEMMA SendWire ==
    ASSUME WireInv, NEW c, NEW r \in RequestRecord({None}), Send(c, r)
    PROVE  /\ WireInv' /\ WireStep
           /\ \A q \in Pending' : q \in Pending \/ q = [r EXCEPT !.id = sent + 1]
           /\ sent + 1 \in RequestIds /\ replies' = replies
<1> DEFINE q == [r EXCEPT !.id = sent + 1]
<1>1. /\ inbox' = Append(inbox, q) /\ UNCHANGED <<job, replies>> /\ sent' = sent + 1
      /\ sent + 1 \in RequestIds /\ sent \in Nat /\ inbox \in Seq(RequestRecord(RequestIds))
  BY ServerAssumption DEF Send, Arrive, WireInv, ServerInv, ServerTypeOK, RequestIds
<1>2. ServerInv'
  BY ArriveKeeps DEF Send, WireInv
<1>3. q \in RequestRecord(RequestIds) /\ q.id = sent + 1
  BY <1>1 DEF RequestRecord
<1> HIDE DEF q
<1>4. \A i \in DOMAIN inbox' : (i \in DOMAIN inbox /\ inbox'[i] = inbox[i]) \/ inbox'[i] = q
  BY <1>1, <1>3
<1>5. \A p \in Pending' : p \in Pending \/ p = q
  BY <1>1, <1>4 DEF Pending
<1>6. RequestIds \subseteq Nat
  BY DEF RequestIds
<1>7. \A p \in Pending : p.id <= sent /\ p.id \in Nat
  <2>1. \A i \in DOMAIN inbox : inbox[i] \in RequestRecord(RequestIds)
    BY <1>1
  <2>2. \A p \in Pending : p.id \in RequestIds
    BY <2>1 DEF Pending, WireInv, ServerInv, ServerTypeOK, JobRecord, RequestRecord
  <2> QED
    BY <1>6, <2>2 DEF WireInv
<1>8. \A p \in Pending' : p.id <= sent + 1
  BY <1>1, <1>3, <1>5, <1>7
<1>9. \A a \in replies : a \in ReplyRecord /\ a.id <= sent + 1
  <2>1. \A a \in replies : a \in ReplyRecord /\ a.id <= sent /\ a.id \in Nat
    BY <1>6 DEF WireInv, ReplyRecord
  <2> QED
    BY <1>1, <2>1
<1>10. WireInv'
  BY <1>1, <1>2, <1>8, <1>9 DEF WireInv
<1>11. WireStep
  BY <1>1, <1>3, <1>5 DEF WireStep
<1> QED
  BY <1>1, <1>5, <1>10, <1>11 DEF q

\* Requests and answers go, nothing comes.
LEMMA LessWire ==
    ASSUME WireInv, ServerInv', Pending' \subseteq Pending, replies' \subseteq replies,
           UNCHANGED <<job, sent>>
    PROVE  WireInv' /\ WireStep
<1>1. sent \in Nat
  BY DEF WireInv, ServerInv, ServerTypeOK
<1> QED
  BY <1>1 DEF WireInv, WireStep

LEMMA DiscardWire == ASSUME WireInv, Discard PROVE WireInv' /\ WireStep
<1>1. /\ inbox \in Seq(RequestRecord(RequestIds)) /\ inbox # <<>> /\ inbox' = Tail(inbox)
      /\ UNCHANGED <<job, held, replies, bounds>>
  BY DEF WireInv, ServerInv, ServerTypeOK, Discard
<1>2. /\ inbox' \in Seq(RequestRecord(RequestIds))
      /\ \A i \in DOMAIN inbox' : i + 1 \in DOMAIN inbox /\ inbox'[i] = inbox[i + 1]
  BY <1>1
<1>3. ServerInv'
  BY <1>1, <1>2 DEF WireInv, ServerInv, ServerTypeOK, HeldByStep, LeftByCrashes, Left, UnderLock,
                    WithDirectory, JobChecked, held, bounds
<1>4. Pending' \subseteq Pending
  BY <1>1, <1>2 DEF Pending
<1> QED
  BY <1>1, <1>3, <1>4, LessWire DEF bounds

LEMMA SameWire ==
    ASSUME WireInv, UNCHANGED serverVars
    PROVE  WireInv' /\ WireStep
<1>1. UNCHANGED <<inbox, job, held, replies, bounds>>
  BY DEF serverVars
<1>2. ServerInv' /\ Pending' = Pending
  BY <1>1 DEF WireInv, ServerInv, ServerTypeOK, HeldByStep, LeftByCrashes, Left, UnderLock,
              WithDirectory, JobChecked, held, bounds, Pending
<1> QED
  BY <1>1, <1>2, LessWire DEF bounds

LEMMA TakeWire ==
    ASSUME WireInv, NEW c, NEW a, TakeAnswer(c, a)
    PROVE  WireInv' /\ WireStep
<1>1. UNCHANGED <<inbox, job, held, bounds>> /\ replies' \subseteq replies
  BY DEF TakeAnswer
<1>2. ServerInv' /\ Pending' = Pending
  BY <1>1 DEF WireInv, ServerInv, ServerTypeOK, HeldByStep, LeftByCrashes, Left, UnderLock,
              WithDirectory, JobChecked, held, bounds, Pending
<1> QED
  BY <1>1, <1>2, LessWire DEF bounds

-----------------------------------------------------------------------------
(***************************************************************************)
(* The inductive invariant of the clients.  A client that waits for a seed *)
(* gets the answer to that seed and to no other: the only requests that    *)
(* bear the id it waits for are the one it sent.  A scene a call has built *)
(* is of the call exactly when it is selected and analysed.                *)
(***************************************************************************)
SceneTrack == [seed : Prompts, prompts : SUBSET Prompts, frames : SUBSET Int]
SceneRecord == [run : Nat, tracks : SUBSET SceneTrack]
CallRecord ==
    [chosen : SUBSET DOMAIN Scenes, built : Seq(SceneRecord), seed : Nat \ {0},
     tracks : SUBSET SceneTrack]

TrackingTypeOK ==
    /\ pc \in [Clients -> {"ready", "uploading", "scenes", "tracking"}]
    /\ waiting \in [Clients -> RequestIds \cup {None}]
    /\ video \in [Clients -> RequestIds \cup {None}]
    /\ asset \in [Clients -> [DOMAIN Scenes -> SceneRecord]]
    /\ published \in [Clients -> [run : Nat, chosen : SUBSET DOMAIN Scenes]]
    /\ call \in [Clients -> CallRecord \cup {None}]

\* TracksBelongToTheirScene, of one scene.
Belongs(k, tracks) ==
    \A t \in tracks :
        /\ t.seed \in {Scenes[k].seeds[i] : i \in DOMAIN Scenes[k].seeds}
        /\ t.prompts = {t.seed}
        /\ t.frames # {}
        /\ t.frames \subseteq Scenes[k].start..(Scenes[k].end - 1)

InCall(c) == pc[c] \in {"scenes", "tracking"}
OfTheCall(c, k) == k \in call[c].chosen /\ Scenes[k].analysed

Calling(c) ==
    /\ waiting[c] # None => waiting[c] <= sent
    /\ InCall(c) => call[c] \in CallRecord /\ video[c] # None

SceneSeed(c) == Scenes[Current(c)].seeds[call[c].seed]

AsksForSeed(c, r) ==
    LET scene == Scenes[Current(c)] IN
        /\ HasRange(r) /\ r.start = scene.start /\ r.end = scene.end
        /\ {r.seeds[i].prompt : i \in DOMAIN r.seeds} = {SceneSeed(c)}

AnswersSeed(c, tracks) ==
    LET scene == Scenes[Current(c)] IN
        \A t \in tracks :
            /\ t.prompts = {SceneSeed(c)}
            /\ \A p \in t.points : p.frame \in scene.start..(scene.end - 1)

Asked(c) ==
    pc[c] = "tracking" =>
        /\ waiting[c] # None
        /\ Current(c) <= Len(Scenes) /\ Selected(c)
        /\ call[c].seed <= Len(Scenes[Current(c)].seeds)
        /\ \A r \in Pending : r.id = waiting[c] => AsksForSeed(c, r)
        /\ \A a \in replies : a.id = waiting[c] => AnswersSeed(c, a.tracks)

Built(c) ==
    InCall(c) =>
        /\ Len(call[c].built) <= Len(Scenes)
        /\ \A k \in 1..Len(call[c].built) :
             /\ Belongs(k, call[c].built[k].tracks)
             /\ call[c].built[k].run <= published[c].run + 1
             /\ call[c].built[k].run = published[c].run + 1 <=> OfTheCall(c, k)
        /\ call[c].tracks # {} => Current(c) <= Len(Scenes) /\ Selected(c)
        /\ Belongs(Current(c), call[c].tracks)

Shown(c) ==
    /\ \A k \in DOMAIN Scenes :
         Belongs(k, asset[c][k].tracks) /\ asset[c][k].run <= published[c].run
    /\ published[c].run > 0 =>
         \A k \in DOMAIN Scenes : asset[c][k].run = published[c].run
            <=> k \in published[c].chosen /\ Scenes[k].analysed

ClientInv(c) == Calling(c) /\ Asked(c) /\ Built(c) /\ Shown(c)
TrackingInv == WireInv /\ TrackingTypeOK /\ \A c \in Clients : ClientInv(c)

LEMMA ScenesAre ==
    /\ DOMAIN Scenes = 1..Len(Scenes) /\ Len(Scenes) \in Nat
    /\ \A k \in DOMAIN Scenes :
         /\ Scenes[k].start \in Nat /\ Scenes[k].end \in Int /\ Scenes[k].start < Scenes[k].end
         /\ Scenes[k].seeds \in Seq(Prompts) /\ Scenes[k].analysed \in BOOLEAN
<1> DEFINE R == [start : Nat, end : 1..FrameCount, analysed : BOOLEAN, seeds : Seq(Prompts)]
<1>1. Scenes \in Seq(R) /\ \A k \in DOMAIN Scenes : Scenes[k].start < Scenes[k].end
  BY ScenesAssumption
<1>2. \A x \in R : /\ x.start \in Nat /\ x.end \in Int
                   /\ x.seeds \in Seq(Prompts) /\ x.analysed \in BOOLEAN
  OBVIOUS
<1> HIDE DEF R
<1> QED
  BY <1>1, <1>2

LEMMA InitTracking == ASSUME Init PROVE TrackingInv
<1>1. WireInv
  <2>1. ServerInv
    BY InitServerInv DEF Init
  <2>2. inbox = <<>> /\ job = None /\ replies = {}
    BY DEF Init, ServerInit
  <2>3. Pending = {}
    BY <2>2 DEF Pending
  <2> QED
    BY <2>1, <2>2, <2>3 DEF WireInv
<1>2. TrackingTypeOK
  BY DEF Init, TrackingTypeOK, SceneRecord
<1>3. ASSUME NEW c \in Clients PROVE ClientInv(c)
  BY <1>3 DEF Init, ClientInv, Calling, Asked, Built, Shown, InCall, Belongs
<1> QED
  BY <1>1, <1>2, <1>3 DEF TrackingInv

-----------------------------------------------------------------------------
(***************************************************************************)
(* Steps of others, and the steps of a client that end its call.           *)
(***************************************************************************)
\* The requests and answers a waiting client d may meet after a step on the wire.
LEMMA StillAsked ==
    ASSUME TrackingInv, WireStep, NEW d \in Clients, pc[d] = "tracking",
           call'[d] = call[d], waiting'[d] = waiting[d]
    PROVE  /\ \A r \in Pending' : r.id = waiting'[d] => AsksForSeed(d, r)'
           /\ \A a \in replies' : a.id = waiting'[d] => AnswersSeed(d, a.tracks)'
<1>1. waiting[d] \in RequestIds /\ waiting[d] <= sent /\ sent \in Nat
  BY DEF TrackingInv, TrackingTypeOK, ClientInv, Asked, Calling, WireInv, ServerInv, ServerTypeOK
<1>2. RequestIds \subseteq Nat
  BY DEF RequestIds
<1>3. ASSUME NEW r \in Pending', r.id = waiting[d] PROVE AsksForSeed(d, r)
  BY <1>1, <1>2, <1>3 DEF TrackingInv, ClientInv, Asked, WireStep
<1>4. ASSUME NEW a \in replies', a.id = waiting[d] PROVE AnswersSeed(d, a.tracks)
  <2>1. CASE a \in replies
    BY <1>4, <2>1 DEF TrackingInv, ClientInv, Asked
  <2>2. ASSUME NEW r \in Pending, a.id = r.id, Tells(r, a.tracks) PROVE AnswersSeed(d, a.tracks)
    <3>1. AsksForSeed(d, r)
      BY <1>4, <2>2 DEF TrackingInv, ClientInv, Asked
    <3> QED
      BY <2>2, <3>1 DEF AsksForSeed, AnswersSeed, Tells
  <2> QED
    BY <1>4, <2>1, <2>2 DEF WireStep
<1>5. /\ \A r : AsksForSeed(d, r) => AsksForSeed(d, r)'
      /\ \A a : AnswersSeed(d, a.tracks) => AnswersSeed(d, a.tracks)'
  BY DEF AsksForSeed, AnswersSeed, SceneSeed, Current
<1> QED
  BY <1>3, <1>4, <1>5

LEMMA Undisturbed ==
    ASSUME TrackingInv, WireStep, NEW d \in Clients,
           pc'[d] = pc[d], call'[d] = call[d], waiting'[d] = waiting[d], video'[d] = video[d],
           asset'[d] = asset[d], published'[d] = published[d]
    PROVE  ClientInv(d)'
<1>1. ClientInv(d) /\ sent \in Nat /\ sent' \in {sent, sent + 1} /\ (waiting[d] # None => waiting[d] \in Nat)
  BY DEF TrackingInv, TrackingTypeOK, WireInv, WireStep, ServerInv, ServerTypeOK, RequestIds
<1>2. Calling(d)'
  <2>1. waiting[d] # None => waiting[d] <= sent'
    BY <1>1 DEF ClientInv, Calling
  <2> QED
    BY <1>1, <2>1 DEF ClientInv, Calling, InCall
<1>3. Built(d)' /\ Shown(d)'
  BY <1>1 DEF ClientInv, Built, Shown, InCall, OfTheCall, Current, Selected
<1>4. Asked(d)'
  <2>1. CASE pc[d] = "tracking"
    BY <1>1, <2>1, StillAsked DEF ClientInv, Asked, Current, Selected
  <2>2. CASE pc[d] # "tracking"
    BY <2>2 DEF Asked
  <2> QED
    BY <2>1, <2>2
<1> QED
  BY <1>2, <1>3, <1>4 DEF ClientInv

\* A client that is not in a call any more, and has the asset it had.
LEMMA OutOfCall ==
    ASSUME TrackingInv, NEW c \in Clients, pc'[c] \in {"ready", "uploading"},
           waiting'[c] = None \/ waiting'[c] <= sent',
           asset'[c] = asset[c], published'[c] = published[c]
    PROVE  ClientInv(c)'
<1>1. Shown(c)
  BY DEF TrackingInv, ClientInv
<1> QED
  BY <1>1 DEF ClientInv, Calling, Asked, Built, Shown, InCall

\* Nobody's locals but those of c change.
Alone(c) ==
    \A d \in Clients \ {c} :
        /\ pc'[d] = pc[d] /\ call'[d] = call[d] /\ waiting'[d] = waiting[d]
        /\ video'[d] = video[d] /\ asset'[d] = asset[d] /\ published'[d] = published[d]

LEMMA OwnStep ==
    ASSUME TrackingInv, NEW c \in Clients, WireInv', WireStep, TrackingTypeOK', Alone(c),
           ClientInv(c)'
    PROVE  TrackingInv'
<1>1. ASSUME NEW d \in Clients PROVE ClientInv(d)'
  BY Undisturbed DEF Alone
<1> QED
  BY <1>1 DEF TrackingInv

-----------------------------------------------------------------------------
(***************************************************************************)
(* The steps of a client.                                                  *)
(***************************************************************************)
LEMMA UploadKeeps == ASSUME TrackingInv, NEW c \in Clients, Upload(c) PROVE TrackingInv'
<1>1. Body("upload") \in RequestRecord({None})
  BY DEF Body, RequestRecord
<1>2. WireInv' /\ WireStep /\ sent + 1 \in RequestIds
  BY <1>1, SendWire DEF Upload, TrackingInv
<1>3. /\ pc' = [pc EXCEPT ![c] = "uploading"] /\ waiting' = [waiting EXCEPT ![c] = sent + 1]
      /\ sent' = sent + 1 /\ UNCHANGED <<call, video, asset, published>>
  BY DEF Upload, Send, Arrive
<1>4. TrackingTypeOK'
  BY <1>2, <1>3 DEF TrackingInv, TrackingTypeOK
<1>5. ClientInv(c)'
  <2>1. sent \in Nat /\ pc'[c] = "uploading" /\ waiting'[c] <= sent'
    BY <1>3 DEF TrackingInv, TrackingTypeOK, WireInv, ServerInv, ServerTypeOK
  <2> QED
    BY <1>3, <2>1, OutOfCall
<1>6. Alone(c)
  BY <1>3 DEF Alone, TrackingInv, TrackingTypeOK
<1> QED
  BY <1>2, <1>4, <1>5, <1>6, OwnStep

LEMMA UploadedKeeps == ASSUME TrackingInv, NEW c \in Clients, Uploaded(c) PROVE TrackingInv'
<1>1. PICK a \in replies : TakeAnswer(c, a) /\ video' = [video EXCEPT ![c] = a.id]
  BY DEF Uploaded
<1>2. WireInv' /\ WireStep
  BY <1>1, TakeWire DEF TrackingInv
<1>3. /\ pc' = [pc EXCEPT ![c] = "ready"] /\ waiting' = [waiting EXCEPT ![c] = None]
      /\ UNCHANGED <<call, asset, published>>
  BY <1>1 DEF Uploaded, TakeAnswer
<1>4. a.id \in RequestIds
  BY DEF TrackingInv, WireInv, ReplyRecord
<1>5. TrackingTypeOK'
  BY <1>1, <1>3, <1>4 DEF TrackingInv, TrackingTypeOK
<1>6. ClientInv(c)'
  <2>1. pc'[c] = "ready" /\ waiting'[c] = None
    BY <1>3 DEF TrackingInv, TrackingTypeOK
  <2> QED
    BY <1>3, <2>1, OutOfCall
<1>7. Alone(c)
  BY <1>1, <1>3 DEF Alone, TrackingInv, TrackingTypeOK
<1> QED
  BY <1>2, <1>5, <1>6, <1>7, OwnStep

LEMMA StartTrackingKeeps ==
    ASSUME TrackingInv, NEW c \in Clients, NEW chosen \in SUBSET DOMAIN Scenes,
           StartTracking(c, chosen)
    PROVE  TrackingInv'
<1> DEFINE begun == [chosen |-> chosen, built |-> <<>>, seed |-> 1, tracks |-> {}]
<1>1. WireInv' /\ WireStep
  BY SameWire DEF StartTracking, TrackingInv
<1>2. /\ call' = [call EXCEPT ![c] = begun] /\ pc' = [pc EXCEPT ![c] = "scenes"]
      /\ UNCHANGED <<sent, waiting, video, asset, published>> /\ video[c] # None
  BY DEF StartTracking, serverVars, bounds
<1>3. begun \in CallRecord /\ begun.built = <<>> /\ begun.tracks = {}
  BY DEF CallRecord
<1> HIDE DEF begun
<1>4. TrackingTypeOK'
  BY <1>2, <1>3 DEF TrackingInv, TrackingTypeOK
<1>5. Calling(c)' /\ Asked(c)' /\ Built(c)' /\ Shown(c)'
  <2>1. pc'[c] = "scenes" /\ call'[c] = begun
    BY <1>2 DEF TrackingInv, TrackingTypeOK
  <2>2. Calling(c)' /\ Asked(c)' /\ Shown(c)'
    BY <1>2, <1>3, <2>1 DEF TrackingInv, ClientInv, Calling, Asked, Shown
  <2>3. Built(c)'
    BY <1>3, <2>1, ScenesAre DEF Built, Belongs
  <2> QED
    BY <2>2, <2>3
<1>6. Alone(c)
  BY <1>2 DEF Alone, TrackingInv, TrackingTypeOK
<1> QED
  BY <1>1, <1>4, <1>5, <1>6, OwnStep DEF ClientInv

\* An answer that is not a success, or none in time.
LEMMA RaiseKeeps ==
    ASSUME TrackingInv, NEW c \in Clients, Refused(c) \/ Timeout(c)
    PROVE  TrackingInv'
<1>1. WireInv' /\ WireStep
  BY SameWire, TakeWire DEF Refused, Timeout, TrackingInv
<1>2. /\ call' = [call EXCEPT ![c] = None] /\ pc' = [pc EXCEPT ![c] = "ready"]
      /\ waiting' = [waiting EXCEPT ![c] = None] /\ UNCHANGED <<video, asset, published>>
  BY DEF Refused, Timeout, Raise, TakeAnswer
<1>3. TrackingTypeOK'
  BY <1>2 DEF TrackingInv, TrackingTypeOK
<1>4. ClientInv(c)'
  <2>1. pc'[c] = "ready" /\ waiting'[c] = None
    BY <1>2 DEF TrackingInv, TrackingTypeOK
  <2> QED
    BY <1>2, <2>1, OutOfCall
<1>5. Alone(c)
  BY <1>2 DEF Alone, TrackingInv, TrackingTypeOK
<1> QED
  BY <1>1, <1>3, <1>4, <1>5, OwnStep

LEMMA CallFacts ==
    ASSUME TrackingInv, NEW c \in Clients, InCall(c)
    PROVE  /\ call[c] \in CallRecord /\ call[c].built \in Seq(SceneRecord)
           /\ Len(call[c].built) \in Nat /\ call[c].tracks \subseteq SceneTrack
           /\ call[c].seed \in Nat \ {0} /\ Current(c) = Len(call[c].built) + 1
           /\ Current(c) <= Len(Scenes) => Current(c) \in DOMAIN Scenes
           /\ published[c].run \in Nat /\ asset[c] \in [DOMAIN Scenes -> SceneRecord]
<1>1. call[c] \in CallRecord
  BY DEF TrackingInv, ClientInv, Calling
<1>2. call[c].built \in Seq(SceneRecord) /\ call[c].seed \in Nat \ {0} /\ call[c].tracks \subseteq SceneTrack
  BY <1>1 DEF CallRecord
<1>3. Len(call[c].built) \in Nat /\ Current(c) = Len(call[c].built) + 1
  BY <1>2 DEF Current
<1>4. published[c].run \in Nat /\ asset[c] \in [DOMAIN Scenes -> SceneRecord]
  BY DEF TrackingInv, TrackingTypeOK
<1> QED
  BY <1>1, <1>2, <1>3, <1>4, ScenesAre

\* The body of a request for seeds in the frames first..(last - 1).
SeedBody(v, first, last, seeds) ==
    [Body("track") EXCEPT !.video = v, !.start = first, !.end = last, !.seeds = seeds]

LEMMA SeedBodyFields ==
    ASSUME NEW v \in RequestIds \cup {None}, NEW first \in Int, NEW last \in Int,
           NEW seeds \in Seq(Seeds)
    PROVE  /\ SeedBody(v, first, last, seeds) \in RequestRecord({None})
           /\ SeedBody(v, first, last, seeds).kind = "track"
           /\ SeedBody(v, first, last, seeds).start = first
           /\ SeedBody(v, first, last, seeds).end = last
           /\ SeedBody(v, first, last, seeds).seeds = seeds
<1> DEFINE r == SeedBody(v, first, last, seeds)
           body == [id |-> None, kind |-> "track", named |-> TRUE, video |-> None, start |-> None,
                    end |-> None, frame |-> None, image |-> FALSE, seeds |-> <<>>]
<1>1. r = [body EXCEPT !.video = v, !.start = first, !.end = last, !.seeds = seeds]
  BY Zenon DEF SeedBody, Body
<1>2. body \in RequestRecord({None}) /\ body.kind = "track"
  BY DEF RequestRecord
<1> HIDE DEF body, r
<1>3. /\ r \in RequestRecord({None})
      /\ r.kind = "track" /\ r.start = first /\ r.end = last /\ r.seeds = seeds
  BY <1>1, <1>2 DEF RequestRecord
<1> QED
  BY <1>3 DEF r

LEMMA AskSeedKeeps == ASSUME TrackingInv, NEW c \in Clients, AskSeed(c) PROVE TrackingInv'
<1> DEFINE scene == Scenes[Current(c)]
           seeds == <<[frame |-> SeedFrame(scene), prompt |-> SceneSeed(c)]>>
           r == [Body("track") EXCEPT !.video = video[c], !.start = scene.start,
                                      !.end = scene.end, !.seeds = seeds]
<1>1. /\ pc[c] = "scenes" /\ InCall(c) /\ Current(c) <= Len(Scenes) /\ Selected(c)
      /\ call[c].seed <= Len(scene.seeds) /\ Send(c, r)
      /\ pc' = [pc EXCEPT ![c] = "tracking"] /\ UNCHANGED <<call, video, asset, published>>
  BY DEF AskSeed, ScenesLeft, InCall, SceneSeed
<1>2. /\ scene.start \in Nat /\ scene.end \in Int /\ scene.seeds \in Seq(Prompts)
      /\ call[c].seed \in 1..Len(scene.seeds) /\ SceneSeed(c) \in Prompts
  <2>1. Current(c) \in DOMAIN Scenes /\ call[c].seed \in Nat \ {0}
    BY <1>1, CallFacts
  <2> QED
    BY <1>1, <2>1, ScenesAre DEF SceneSeed
<1>4. SeedFrame(scene) \in Int
  BY <1>2 DEF SeedFrame
<1>5. seeds \in Seq(Seeds)
  BY <1>2, <1>4 DEF Seeds
<1>6. video[c] \in RequestIds \cup {None}
  BY DEF TrackingInv, TrackingTypeOK
<1>7. {seeds[i].prompt : i \in DOMAIN seeds} = {SceneSeed(c)}
  OBVIOUS
<1> HIDE DEF scene, seeds
<1>8. /\ r \in RequestRecord({None}) /\ r.kind = "track"
      /\ r.start = scene.start /\ r.end = scene.end /\ r.seeds = seeds
  <2>1. scene.start \in Int /\ scene.end \in Int
    BY <1>2
  <2>2. r = SeedBody(video[c], scene.start, scene.end, seeds)
    BY Zenon DEF SeedBody
  <2> HIDE DEF r
  <2> DEFINE v == video[c]
             first == scene.start
             last == scene.end
             b == SeedBody(v, first, last, seeds)
  <2>3. v \in RequestIds \cup {None} /\ first \in Int /\ last \in Int
    BY <1>6, <2>1
  <2> HIDE DEF v, first, last
  <2>4. b \in RequestRecord({None})
    BY <1>5, <2>3, SeedBodyFields
  <2>5. b.kind = "track" /\ b.start = first /\ b.end = last /\ b.seeds = seeds
    BY <1>5, <2>3, SeedBodyFields
  <2> HIDE DEF b
  <2> QED
    BY <2>2, <2>4, <2>5 DEF b, v, first, last
<1> HIDE DEF r
<1>9. /\ WireInv' /\ WireStep /\ sent + 1 \in RequestIds /\ replies' = replies
      /\ \A q \in Pending' : q \in Pending \/ q = [r EXCEPT !.id = sent + 1]
  BY <1>1, <1>8, SendWire DEF TrackingInv
<1>10. waiting' = [waiting EXCEPT ![c] = sent + 1] /\ sent' = sent + 1
  BY <1>1 DEF Send, Arrive
<1>11. TrackingTypeOK'
  BY <1>1, <1>9, <1>10 DEF TrackingInv, TrackingTypeOK
<1>12. pc'[c] = "tracking" /\ waiting'[c] = sent + 1 /\ sent \in Nat
  BY <1>1, <1>10 DEF TrackingInv, TrackingTypeOK, WireInv, ServerInv, ServerTypeOK
<1>13. Calling(c)' /\ Built(c)' /\ Shown(c)'
  BY <1>1, <1>10, <1>12
     DEF TrackingInv, ClientInv, Calling, Built, Shown, InCall, OfTheCall, Current, Selected
<1>14. Asked(c)'
  <2>1. sent + 1 # None
    BY <1>12, ServerAssumption
  <2>2. ASSUME NEW q \in Pending', q.id = sent + 1 PROVE AsksForSeed(c, q)
    <3>1. q \notin Pending
      BY <1>12, <2>2 DEF TrackingInv, WireInv
    <3>2. q = [r EXCEPT !.id = sent + 1]
      BY <1>9, <3>1
    <3>3. q.kind = "track" /\ q.start = scene.start /\ q.end = scene.end /\ q.seeds = seeds
      BY <1>8, <3>2 DEF RequestRecord
    <3>4. scene.start # None
      BY <1>2, ServerAssumption
    <3> QED
      BY <1>7, <3>3, <3>4 DEF AsksForSeed, HasRange, scene
  <2>3. ASSUME NEW a \in replies' PROVE a.id # sent + 1
    BY <1>9, <1>12, <2>3 DEF TrackingInv, WireInv
  <2>4. \A q : AsksForSeed(c, q) => AsksForSeed(c, q)'
    BY <1>1 DEF AsksForSeed, SceneSeed, Current
  <2>5. Current(c)' <= Len(Scenes) /\ Selected(c)' /\ call'[c].seed <= Len(Scenes[Current(c)'].seeds)
    BY <1>1 DEF Current, Selected, scene
  <2> QED
    BY <1>12, <2>1, <2>2, <2>3, <2>4, <2>5 DEF Asked
<1>15. Alone(c)
  BY <1>1, <1>10 DEF Alone, TrackingInv, TrackingTypeOK
<1> QED
  BY <1>9, <1>11, <1>13, <1>14, <1>15, OwnStep DEF ClientInv

LEMMA TrackedKeeps == ASSUME TrackingInv, NEW c \in Clients, Tracked(c) PROVE TrackingInv'
<1>1. PICK a \in replies :
        /\ TakeAnswer(c, a)
        /\ call' = [call EXCEPT
              ![c].tracks = @ \cup SceneTracksOf(a.tracks, Scenes[Current(c)].seeds[call[c].seed]),
              ![c].seed = @ + 1]
  BY DEF Tracked
<1> DEFINE scene == Scenes[Current(c)]
           new == SceneTracksOf(a.tracks, SceneSeed(c))
           next == [call[c] EXCEPT !.tracks = call[c].tracks \cup new, !.seed = call[c].seed + 1]
<1>2. /\ pc[c] = "tracking" /\ pc' = [pc EXCEPT ![c] = "scenes"]
      /\ waiting' = [waiting EXCEPT ![c] = None] /\ UNCHANGED <<video, asset, published, sent>>
  BY <1>1 DEF Tracked, TakeAnswer, bounds
<1>3. InCall(c) /\ call[c] \in CallRecord
  BY <1>2, CallFacts DEF InCall
<1>4. call' = [call EXCEPT ![c] = next]
  BY <1>1 DEF SceneSeed
<1>5. WireInv' /\ WireStep
  BY <1>1, TakeWire DEF TrackingInv
<1>6. /\ Current(c) \in DOMAIN Scenes /\ Current(c) <= Len(Scenes) /\ Selected(c)
      /\ call[c].seed \in DOMAIN scene.seeds /\ scene.seeds \in Seq(Prompts)
  <2>1. Current(c) <= Len(Scenes) /\ Selected(c) /\ call[c].seed <= Len(scene.seeds)
    BY <1>2 DEF TrackingInv, ClientInv, Asked
  <2> QED
    BY <1>3, <2>1, CallFacts, ScenesAre
<1>7. AnswersSeed(c, a.tracks) /\ a.tracks \subseteq Tracks
  <2>1. a \in ReplyRecord
    BY DEF TrackingInv, WireInv
  <2> QED
    BY <1>1, <1>2, <2>1 DEF TrackingInv, ClientInv, Asked, TakeAnswer, HasAnswer, ReplyRecord
<1>8. new \subseteq SceneTrack /\ Belongs(Current(c), new)
  <2>1. SceneSeed(c) \in Prompts /\ SceneSeed(c) \in {scene.seeds[i] : i \in DOMAIN scene.seeds}
    BY <1>6 DEF SceneSeed
  <2>2. ASSUME NEW t \in new
        PROVE  /\ t \in SceneTrack /\ t.seed = SceneSeed(c) /\ t.prompts = {SceneSeed(c)}
               /\ t.frames # {} /\ t.frames \subseteq scene.start..(scene.end - 1)
    <3>1. PICK sam \in a.tracks :
            /\ t = [seed |-> SceneSeed(c), prompts |-> sam.prompts,
                    frames |-> {p.frame : p \in {q \in sam.points : q.valid}}]
            /\ t.frames # {}
      BY <2>2 DEF SceneTracksOf
    <3>2. /\ sam.prompts = {SceneSeed(c)}
          /\ \A p \in sam.points : p.frame \in scene.start..(scene.end - 1)
      BY <1>7 DEF AnswersSeed
    <3>3. \A p \in sam.points : p.frame \in Int
      BY <1>7 DEF Tracks
    <3> DEFINE frames == {p.frame : p \in {q \in sam.points : q.valid}}
    <3>4. frames \subseteq scene.start..(scene.end - 1) /\ frames \in SUBSET Int
      BY <3>2, <3>3
    <3> HIDE DEF frames, scene
    <3>5. t = [seed |-> SceneSeed(c), prompts |-> {SceneSeed(c)}, frames |-> frames]
      BY <3>1, <3>2 DEF frames
    <3>6. {SceneSeed(c)} \in SUBSET Prompts /\ SceneSeed(c) \in Prompts
      BY <2>1
    <3>7. t \in SceneTrack
      BY <2>1, <3>4, <3>5, <3>6 DEF SceneTrack
    <3>8. t.seed = SceneSeed(c) /\ t.prompts = {SceneSeed(c)} /\ t.frames = frames
      BY <3>5
    <3> QED
      BY <3>1, <3>4, <3>7, <3>8
  <2> HIDE DEF new
  <2> QED
    BY <2>1, <2>2 DEF Belongs
<1> HIDE DEF new
<1>9. /\ next \in CallRecord /\ next.built = call[c].built /\ next.chosen = call[c].chosen
      /\ next.tracks = call[c].tracks \cup new
  <2> DEFINE tracks == call[c].tracks \cup new
             seed == call[c].seed + 1
  <2>1. tracks \in SUBSET SceneTrack /\ seed \in Nat \ {0}
    BY <1>3, <1>8, CallFacts
  <2>2. next = [call[c] EXCEPT !.tracks = tracks, !.seed = seed]
    OBVIOUS
  <2> HIDE DEF tracks, seed, next
  <2>3. next \in CallRecord /\ next.built = call[c].built /\ next.chosen = call[c].chosen
        /\ next.tracks = tracks
    BY <1>3, <2>1, <2>2 DEF CallRecord
  <2> QED
    BY <2>3 DEF tracks
<1> HIDE DEF next
<1>10. TrackingTypeOK'
  BY <1>2, <1>4, <1>9 DEF TrackingInv, TrackingTypeOK
<1>11. pc'[c] = "scenes" /\ waiting'[c] = None /\ call'[c] = next
  BY <1>2, <1>4 DEF TrackingInv, TrackingTypeOK
<1>12. Calling(c)' /\ Asked(c)' /\ Shown(c)'
  BY <1>2, <1>3, <1>9, <1>11 DEF TrackingInv, ClientInv, Calling, Asked, Shown, InCall
<1>13. Built(c)'
  <2>1. Belongs(Current(c), call[c].tracks)
    BY <1>3 DEF TrackingInv, ClientInv, Built
  <2>2. Belongs(Current(c), next.tracks)
    BY <1>8, <1>9, <2>1 DEF Belongs
  <2>3. Current(c)' = Current(c) /\ Selected(c)'
    BY <1>6, <1>9, <1>11 DEF Current, Selected
  <2> QED
    BY <1>2, <1>3, <1>6, <1>9, <1>11, <2>2, <2>3 DEF TrackingInv, ClientInv, Built, OfTheCall
<1>14. Alone(c)
  BY <1>2, <1>4 DEF Alone, TrackingInv, TrackingTypeOK
<1> QED
  BY <1>5, <1>10, <1>12, <1>13, <1>14, OwnStep DEF ClientInv

\* One more scene of the asset that the call builds.
LEMMA SceneBuilt ==
    ASSUME TrackingInv, NEW c \in Clients, ScenesLeft(c),
           NEW scene \in SceneRecord, NEW next \in CallRecord,
           next.built = Append(call[c].built, scene), next.chosen = call[c].chosen,
           next.tracks = {}, Belongs(Current(c), scene.tracks),
           scene.run <= published[c].run + 1,
           scene.run = published[c].run + 1 <=> OfTheCall(c, Current(c)),
           call' = [call EXCEPT ![c] = next],
           UNCHANGED <<serverVars, pc, waiting, video, asset, published>>
    PROVE  TrackingInv'
<1>1. WireInv' /\ WireStep /\ sent' = sent
  BY SameWire DEF TrackingInv, serverVars, bounds
<1>2. TrackingTypeOK'
  BY DEF TrackingInv, TrackingTypeOK
<1>3. pc[c] = "scenes" /\ pc'[c] = pc[c] /\ call'[c] = next /\ InCall(c)
  BY DEF TrackingInv, TrackingTypeOK, ScenesLeft, InCall
<1>4. /\ call[c].built \in Seq(SceneRecord) /\ Len(call[c].built) \in Nat
      /\ Current(c) = Len(call[c].built) + 1 /\ Current(c) <= Len(Scenes)
  BY <1>3, CallFacts DEF ScenesLeft
<1>5. Calling(c)' /\ Asked(c)' /\ Shown(c)'
  BY <1>1, <1>3 DEF TrackingInv, ClientInv, Calling, Asked, Shown, InCall
<1>6. Built(c)'
  <2>1. /\ Len(next.built) = Current(c)
        /\ \A k \in 1..Len(call[c].built) : next.built[k] = call[c].built[k]
        /\ next.built[Current(c)] = scene
    BY <1>4
  <2>2. \A k \in 1..Current(c) : k = Current(c) \/ k \in 1..Len(call[c].built)
    BY <1>4
  <2>3. ASSUME NEW k \in 1..Current(c)
        PROVE  /\ Belongs(k, next.built[k].tracks)
               /\ next.built[k].run <= published[c].run + 1
               /\ next.built[k].run = published[c].run + 1 <=> OfTheCall(c, k)
    <3>1. CASE k = Current(c)
      BY <2>1, <3>1
    <3>2. CASE k \in 1..Len(call[c].built)
      BY <1>3, <2>1, <3>2 DEF TrackingInv, ClientInv, Built
    <3> QED
      BY <2>2, <3>1, <3>2
  <2>4. \A k : OfTheCall(c, k)' <=> OfTheCall(c, k)
    BY <1>3 DEF OfTheCall
  <2>5. Belongs(Current(c)', {})
    BY DEF Belongs
  <2> QED
    BY <1>3, <1>4, <2>1, <2>3, <2>4, <2>5 DEF Built
<1>7. Alone(c)
  BY DEF Alone, TrackingInv, TrackingTypeOK
<1> QED
  BY <1>1, <1>2, <1>5, <1>6, <1>7, OwnStep DEF ClientInv

LEMMA KeepSceneKeeps == ASSUME TrackingInv, NEW c \in Clients, KeepScene(c) PROVE TrackingInv'
<1> DEFINE scene == asset[c][Current(c)]
           built == Append(call[c].built, scene)
           next == [call[c] EXCEPT !.built = built]
<1>1. /\ ScenesLeft(c) /\ InCall(c) /\ ~Selected(c) /\ call' = [call EXCEPT ![c] = next]
      /\ UNCHANGED <<serverVars, pc, waiting, video, asset, published>>
  BY DEF KeepScene, ScenesLeft, InCall
<1>2. /\ call[c] \in CallRecord /\ call[c].built \in Seq(SceneRecord) /\ Current(c) \in DOMAIN Scenes
      /\ published[c].run \in Nat /\ scene \in SceneRecord
  BY <1>1, CallFacts DEF ScenesLeft
<1>3. Belongs(Current(c), scene.tracks) /\ scene.run <= published[c].run /\ scene.run \in Nat
  BY <1>2 DEF TrackingInv, ClientInv, Shown, SceneRecord
<1>4. ~OfTheCall(c, Current(c)) /\ call[c].tracks = {}
  BY <1>1 DEF OfTheCall, Selected, TrackingInv, ClientInv, Built
<1>5. built \in Seq(SceneRecord)
  BY <1>2
<1> HIDE DEF built, scene
<1>6. next \in CallRecord /\ next.built = built /\ next.chosen = call[c].chosen /\ next.tracks = {}
  BY <1>2, <1>4, <1>5 DEF CallRecord
<1> HIDE DEF next
<1>7. scene.run <= published[c].run + 1 /\ scene.run # published[c].run + 1
  BY <1>2, <1>3
<1>8. next.built = Append(call[c].built, scene)
  BY <1>6 DEF built
<1> QED
  BY <1>1, <1>2, <1>3, <1>4, <1>6, <1>7, <1>8, SceneBuilt

LEMMA EndSceneKeeps == ASSUME TrackingInv, NEW c \in Clients, EndScene(c) PROVE TrackingInv'
<1> DEFINE scene == Finished(c)
           built == Append(call[c].built, scene)
           next == [call[c] EXCEPT !.built = built, !.seed = 1, !.tracks = {}]
<1>1. /\ ScenesLeft(c) /\ InCall(c) /\ Selected(c) /\ call' = [call EXCEPT ![c] = next]
      /\ UNCHANGED <<serverVars, pc, waiting, video, asset, published>>
  BY DEF EndScene, ScenesLeft, InCall
<1>2. /\ call[c] \in CallRecord /\ call[c].built \in Seq(SceneRecord)
      /\ published[c].run \in Nat /\ call[c].tracks \subseteq SceneTrack
  BY <1>1, CallFacts
<1>3. /\ scene \in SceneRecord /\ scene.tracks = call[c].tracks
      /\ scene.run = published[c].run + 1 /\ scene.run <= published[c].run + 1
  BY <1>2 DEF Finished, SceneRecord
<1>4. Belongs(Current(c), scene.tracks)
  BY <1>1, <1>3 DEF TrackingInv, ClientInv, Built
<1>5. OfTheCall(c, Current(c))
  BY <1>1 DEF OfTheCall, Selected
<1> HIDE DEF scene
<1>6. built \in Seq(SceneRecord) /\ 1 \in Nat \ {0} /\ {} \in SUBSET SceneTrack
  BY <1>2, <1>3
<1> HIDE DEF built
<1>7. next \in CallRecord /\ next.built = built /\ next.chosen = call[c].chosen /\ next.tracks = {}
  BY <1>2, <1>6 DEF CallRecord
<1> HIDE DEF next
<1> QED
  BY <1>1, <1>3, <1>4, <1>5, <1>7, SceneBuilt DEF built

LEMMA ReturnAssetKeeps == ASSUME TrackingInv, NEW c \in Clients, ReturnAsset(c) PROVE TrackingInv'
<1> DEFINE built == call[c].built
           run == published[c].run + 1
           shown == [run |-> run, chosen |-> call[c].chosen]
<1>1. /\ pc[c] = "scenes" /\ InCall(c) /\ Len(built) = Len(Scenes)
      /\ asset' = [asset EXCEPT ![c] = built] /\ published' = [published EXCEPT ![c] = shown]
      /\ call' = [call EXCEPT ![c] = None] /\ pc' = [pc EXCEPT ![c] = "ready"]
      /\ UNCHANGED <<serverVars, waiting, video>>
  BY DEF ReturnAsset, InCall
<1>2. /\ call[c].chosen \in SUBSET DOMAIN Scenes /\ built \in Seq(SceneRecord) /\ run \in Nat
      /\ run > 0 /\ DOMAIN Scenes = 1..Len(built) /\ DOMAIN built = 1..Len(built)
  <2>1. call[c] \in CallRecord /\ built \in Seq(SceneRecord) /\ published[c].run \in Nat
    BY <1>1, CallFacts
  <2>2. call[c].chosen \in SUBSET DOMAIN Scenes
    BY <2>1 DEF CallRecord
  <2> QED
    BY <1>1, <2>1, <2>2, ScenesAre
<1>3. \A k \in DOMAIN Scenes :
        /\ Belongs(k, built[k].tracks) /\ built[k].run <= run
        /\ built[k].run = run <=> k \in call[c].chosen /\ Scenes[k].analysed
  BY <1>1, <1>2 DEF TrackingInv, ClientInv, Built, OfTheCall
<1>4. built \in [DOMAIN Scenes -> SceneRecord]
  BY <1>2
<1> HIDE DEF built, run
<1>5. shown \in [run : Nat, chosen : SUBSET DOMAIN Scenes]
      /\ shown.run = run /\ shown.chosen = call[c].chosen
  BY <1>2
<1> HIDE DEF shown
<1>6. WireInv' /\ WireStep /\ sent' = sent
  BY <1>1, SameWire DEF TrackingInv, serverVars, bounds
<1>7. TrackingTypeOK'
  BY <1>1, <1>4, <1>5 DEF TrackingInv, TrackingTypeOK
<1>8. /\ pc'[c] = "ready" /\ asset'[c] = built /\ published'[c] = shown
      /\ waiting'[c] = waiting[c]
  BY <1>1 DEF TrackingInv, TrackingTypeOK
<1>9. Calling(c)' /\ Asked(c)' /\ Built(c)'
  BY <1>6, <1>8 DEF TrackingInv, ClientInv, Calling, Asked, Built, InCall
<1>10. Shown(c)'
  BY <1>3, <1>5, <1>8 DEF Shown
<1>11. Alone(c)
  BY <1>1 DEF Alone, TrackingInv, TrackingTypeOK
<1> QED
  BY <1>6, <1>7, <1>9, <1>10, <1>11, OwnStep DEF ClientInv

-----------------------------------------------------------------------------
LEMMA NextTracking == ASSUME TrackingInv, [Next]_vars PROVE TrackingInv'
<1>1. ASSUME NEW c \in Clients, NEW chosen \in Selections, StartTracking(c, chosen)
      PROVE  TrackingInv'
  BY <1>1, SelectionsAssumption, StartTrackingKeeps
<1>2. ASSUME NEW c \in Clients, Upload(c) \/ ClientStep(c) PROVE TrackingInv'
  BY <1>2, UploadKeeps, UploadedKeeps, KeepSceneKeeps, AskSeedKeeps, TrackedKeeps, EndSceneKeeps,
     ReturnAssetKeeps, RaiseKeeps
     DEF ClientStep
\* A step of the server, of the connection, or of nobody.
<1>3. ASSUME WireInv', WireStep, UNCHANGED clientVars PROVE TrackingInv'
  <2>1. TrackingTypeOK'
    BY <1>3 DEF TrackingInv, TrackingTypeOK, clientVars
  <2>2. ASSUME NEW d \in Clients PROVE ClientInv(d)'
    BY <1>3, Undisturbed DEF clientVars
  <2> QED
    BY <1>3, <2>1, <2>2 DEF TrackingInv
<1>4. CASE Handle /\ UNCHANGED clientVars
  <2>1. WireInv' /\ OnlyAnswered /\ sent' = sent
    BY <1>4, HandleWire
       DEF TrackingInv, Handle, TakeRequest, OpenUpload, CopyUpload, UploadFails, FindVideo,
           VideoMissing, WriteFrames, FramesFail, StartSession, StartSessionFails, AddPrompt,
           PredictorFails, SkipPropagation, Propagate, Unwind, Compute, bounds
  <2>2. WireStep
    BY <2>1 DEF WireStep, OnlyAnswered
  <2> QED
    BY <1>3, <1>4, <2>1, <2>2
<1>5. CASE Crash /\ UNCHANGED clientVars
  BY <1>3, <1>5, CrashWire DEF TrackingInv
<1>6. CASE Discard
  BY <1>3, <1>6, DiscardWire DEF TrackingInv, Discard, clientVars
<1>7. CASE UNCHANGED vars
  BY <1>3, <1>7, SameWire DEF TrackingInv, vars
<1> QED
  BY <1>1, <1>2, <1>4, <1>5, <1>6, <1>7 DEF Next

\* Whatever times out, is retried or is answered late, a scene of an asset only has
\* tracks of its own seeds, and their frames lie in the scene (client.py: the seeds of
\* a scene are tracked one request at a time; sam3.py: the shift of frame indexes).
THEOREM TracksStayInTheirScene == Spec => []TracksBelongToTheirScene
<1>1. TrackingInv => TracksBelongToTheirScene
  BY DEF TrackingInv, ClientInv, Shown, Belongs, TracksBelongToTheirScene
<1> QED
  BY InitTracking, NextTracking, <1>1, PTL DEF Spec

\* An asset is the work of whole calls: exactly its selected and analysed scenes are of
\* the call that returned it, and a call that raised has left nothing in it.
THEOREM AssetsAreOfWholeCalls == Spec => []WholeCalls
<1>1. TrackingInv => WholeCalls
  <2> SUFFICES ASSUME TrackingInv, NEW c \in Clients, published[c].run > 0
               PROVE  /\ DOMAIN asset[c] = DOMAIN Scenes
                      /\ {k \in DOMAIN Scenes : asset[c][k].run >= published[c].run}
                           = {k \in published[c].chosen : Scenes[k].analysed}
    BY DEF WholeCalls
  <2>1. /\ published[c].chosen \subseteq DOMAIN Scenes /\ published[c].run \in Nat
        /\ asset[c] \in [DOMAIN Scenes -> SceneRecord]
    BY DEF TrackingInv, TrackingTypeOK
  <2>2. \A k \in DOMAIN Scenes : asset[c][k].run \in Nat
    BY <2>1 DEF SceneRecord
  <2>3. \A k \in DOMAIN Scenes :
          /\ asset[c][k].run <= published[c].run
          /\ asset[c][k].run = published[c].run <=> k \in published[c].chosen /\ Scenes[k].analysed
    BY DEF TrackingInv, ClientInv, Shown
  <2>4. \A k \in DOMAIN Scenes :
          asset[c][k].run >= published[c].run <=> asset[c][k].run = published[c].run
    BY <2>1, <2>2, <2>3
  <2> QED
    BY <2>1, <2>3, <2>4
<1> QED
  BY InitTracking, NextTracking, <1>1, PTL DEF Spec

\* The server holds nothing between requests when its clients give up and come again.
THEOREM ServerOfClientsHoldsNothing == Spec => []IdleHoldsNothing
<1>1. TrackingInv => IdleHoldsNothing
  BY ServerHoldsNothing DEF TrackingInv, WireInv
<1> QED
  BY InitTracking, NextTracking, <1>1, PTL DEF Spec
=============================================================================
