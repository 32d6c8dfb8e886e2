-------------------------- MODULE VideoPreparation --------------------------
(***************************************************************************)
(* VideoPreparation: preprocess_video.  ffmpeg encodes a raw video into    *)
(* <stem>.prepared.mp4, and that into <stem>.sam3.mp4, in the working      *)
(* directory; both are probed, and an asset that names them is returned.   *)
(* Any step may fail and leave whatever it wrote; the caller may try       *)
(* again, or prepare another video in the same directory, one call at a    *)
(* time; the process may crash, which loses its assets and keeps the disk. *)
(*                                                                         *)
(* A file that can be decoded is the raw video it shows, the number of its *)
(* frames and whether the encoder finished it.  Size, rate and the absence *)
(* of sound follow from the arguments of ffmpeg and are left out, and so   *)
(* are an ffmpeg that outlives a crash and the contents of the scenes      *)
(* (InitialScenes, SceneAnalysis).                                         *)
(***************************************************************************)
EXTENDS Naturals

CONSTANTS Raws,     \* raw videos
          Stems,    \* stems of their file names
          Stem,     \* raw video -> its stem
          Length,   \* raw video -> its frames at 30 frames a second
          MaxCalls, \* bound: calls of preprocess_video
          Absent, Unreadable

ASSUME RawsAssumption == Stem \in [Raws -> Stems] /\ Length \in [Raws -> Nat \ {0}]

Video(video, n, finished) == [raw |-> video, frames |-> n, finished |-> finished]
Videos == [raw : Raws, frames : Nat, finished : BOOLEAN]
ASSUME ContentsAssumption == Absent \notin Videos /\ Unreadable \notin Videos

VARIABLES prepared, \* stem -> content of <stem>.prepared.mp4
          sam3,     \* stem -> content of <stem>.sam3.mp4
          step,     \* what the call in progress does next
          raw,      \* raw_video_path of the last call (any before the first)
          frames,   \* probe.frame_count of the call
          faulty,   \* whether something outside the program has failed in the call
          assets,   \* the assets returned whose stems were not prepared again
          calls     \* calls begun

files == <<prepared, sam3>>
call == <<step, raw, frames, faulty>>
vars == <<files, call, assets, calls>>

Init ==
    /\ prepared = [s \in Stems |-> Absent]
    /\ sam3 = [s \in Stems |-> Absent]
    /\ step = "idle"
    /\ raw \in Raws
    /\ frames = 0
    /\ faulty = FALSE
    /\ assets = {}
    /\ calls = 0

-----------------------------------------------------------------------------
(***************************************************************************)
(* ffmpeg -y: a fault is any outcome but the whole video and exit code 0.  *)
(***************************************************************************)
\* Damaged input makes frames disappear without an exit code.
Encoded(video, n) ==
    {[file |-> Video(video, k, TRUE), code |-> 0, fault |-> k # n] : k \in 0..n}

\* The encoder stops before, while or after it writes the output.
Stopped(video, n, old) ==
    {[file |-> f, code |-> 1, fault |-> TRUE] :
       f \in {old, Unreadable} \cup {Video(video, k, FALSE) : k \in 0..n}}

\* Mutant: without -y ffmpeg refuses to replace a file.
FfmpegKeeping(video, n, old) ==
    IF old = Absent THEN Encoded(video, n) \cup Stopped(video, n, old)
    ELSE {[file |-> old, code |-> 1, fault |-> FALSE]}

Ffmpeg(video, n, old) == Encoded(video, n) \cup Stopped(video, n, old)

\* Mutant: the exit code is not looked at.
AfterFfmpegAnyway(out, following) == following

AfterFfmpeg(out, following) == IF out.code = 0 THEN following ELSE "raised"

-----------------------------------------------------------------------------
(***************************************************************************)
(* The steps of a call.                                                    *)
(***************************************************************************)
stem == Stem[raw]

Begin(video) ==
    /\ step = "idle"
    /\ calls < MaxCalls
    /\ calls' = calls + 1
    /\ step' = "normalize"
    /\ raw' = video
    /\ frames' = 0
    /\ faulty' = FALSE
    /\ assets' = {a \in assets : Stem[a.raw] # Stem[video]}
    /\ UNCHANGED files

\* Something outside the program fails, and the step raises.
Fault ==
    /\ step' = "raised"
    /\ faulty' = TRUE
    /\ UNCHANGED <<files, raw, frames, assets, calls>>

\* The raw video is not there, or there is no ffmpeg to run.
CannotStart == step \in {"normalize", "normalizeSam3"} /\ Fault

NormalizeVideo ==
    /\ step = "normalize"
    /\ \E out \in Ffmpeg(raw, Length[raw], prepared[stem]) :
          /\ prepared' = [prepared EXCEPT ![stem] = out.file]
          /\ step' = AfterFfmpeg(out, "probe")
          /\ faulty' = (faulty \/ out.fault)
    /\ UNCHANGED <<sam3, raw, frames, assets, calls>>

\* The file can be decoded and shows at least one frame.
Probes(file) == file \notin {Absent, Unreadable} /\ file.frames > 0

ProbePrepared ==
    /\ step = "probe"
    /\ IF Probes(prepared[stem])
       THEN step' = "normalizeSam3" /\ frames' = prepared[stem].frames
       ELSE step' = "raised" /\ UNCHANGED frames
    /\ UNCHANGED <<files, raw, faulty, assets, calls>>

NormalizeSam3 ==
    /\ step = "normalizeSam3"
    /\ \E out \in Ffmpeg(prepared[stem].raw, prepared[stem].frames, sam3[stem]) :
          /\ sam3' = [sam3 EXCEPT ![stem] = out.file]
          /\ step' = AfterFfmpeg(out, "probeSam3")
          /\ faulty' = (faulty \/ out.fault)
    /\ UNCHANGED <<prepared, raw, frames, assets, calls>>

\* The SAM3 video must have as many frames as the prepared one.
ProbeSam3 ==
    /\ step = "probeSam3"
    /\ step' = IF Probes(sam3[stem]) /\ sam3[stem].frames = frames THEN "scenes" ELSE "raised"
    /\ UNCHANGED <<files, raw, frames, faulty, assets, calls>>

\* Scenes are detected, then keyframes extracted; either may fail.
DescribeScenes ==
    /\ step \in {"scenes", "keyframes"}
    /\ step' = IF step = "scenes" THEN "keyframes" ELSE "analysis"
    /\ UNCHANGED <<files, raw, frames, faulty, assets, calls>>

DescribingFails == step \in {"scenes", "keyframes", "analysis"} /\ Fault

\* The scenes are analysed, unless that is not asked for, and the asset returned.
ReturnAsset ==
    /\ step = "analysis"
    /\ step' = "idle"
    /\ assets' = assets \cup {[raw |-> raw, frames |-> frames, faulty |-> faulty]}
    /\ UNCHANGED <<files, raw, frames, faulty, calls>>

Raise ==
    /\ step = "raised"
    /\ step' = "idle"
    /\ UNCHANGED <<files, raw, frames, faulty, assets, calls>>

Crash ==
    /\ step # "idle"
    /\ step' = "idle"
    /\ assets' = {}
    /\ UNCHANGED <<files, raw, frames, faulty, calls>>

Next ==
    \/ \E video \in Raws : Begin(video)
    \/ CannotStart
    \/ NormalizeVideo \/ ProbePrepared
    \/ NormalizeSam3 \/ ProbeSam3
    \/ DescribeScenes \/ DescribingFails
    \/ ReturnAsset
    \/ Raise \/ Crash

Spec == Init /\ [][Next]_vars

-----------------------------------------------------------------------------
(***************************************************************************)
(* Properties.                                                             *)
(***************************************************************************)
Steps == {"idle", "normalize", "probe", "normalizeSam3", "probeSam3",
          "scenes", "keyframes", "analysis", "raised"}
Contents == {Absent, Unreadable} \cup Videos

\* Each variable has its type; no asset is empty (VideoAsset.frame_count > 0).
TypeOK ==
    /\ prepared \in [Stems -> Contents] /\ sam3 \in [Stems -> Contents]
    /\ step \in Steps /\ raw \in Raws /\ frames \in Nat /\ faulty \in BOOLEAN
    /\ assets \subseteq [raw : Raws, frames : Nat \ {0}, faulty : BOOLEAN]
    /\ calls \in Nat

\* Until its stem is prepared again, both files of an asset were finished by the
\* encoder, show the asset's own raw video and have exactly its frames, whatever
\* calls failed or crashed before, between or after.
AssetsAligned ==
    \A a \in assets : /\ prepared[Stem[a.raw]] = Video(a.raw, a.frames, TRUE)
                      /\ sam3[Stem[a.raw]] = Video(a.raw, a.frames, TRUE)

\* What earlier calls left on the disk never makes a call fail: a call during
\* which nothing outside failed does not raise, and has every frame of the video.
FaultlessCallsReturn ==
    /\ step = "raised" => faulty
    /\ \A a \in assets : a.faulty \/ a.frames = Length[a.raw]
=============================================================================
