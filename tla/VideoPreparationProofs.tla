----------------------- MODULE VideoPreparationProofs -----------------------
(***************************************************************************)
(* The asset prepare_video returns is aligned with its files, for any raw  *)
(* videos, stems and lengths and any number of calls.                      *)
(***************************************************************************)
EXTENDS VideoPreparation, TLAPS

\* The outputs of an encoder that finished, for one raw video.
Finished(video) == [raw : {video}, frames : Nat, finished : {TRUE}]

\* What the steps of a call have established about its files.
Described == {"scenes", "keyframes", "analysis"}
Encoding == {"normalizeSam3", "probeSam3"} \cup Described

CallInv ==
    /\ step = "probe" =>
          /\ prepared[stem] \in Finished(raw)
          /\ faulty \/ prepared[stem].frames = Length[raw]
    /\ step \in Encoding =>
          /\ frames > 0
          /\ prepared[stem] = Video(raw, frames, TRUE)
          /\ faulty \/ frames = Length[raw]
    /\ step = "probeSam3" =>
          /\ sam3[stem] \in Finished(raw)
          /\ faulty \/ sam3[stem].frames = frames
    /\ step \in Described => sam3[stem] = Video(raw, frames, TRUE)

\* The asset of an earlier call never shares its files with the call in progress.
AssetsElsewhere == step # "idle" => \A a \in assets : Stem[a.raw] # stem

IInv == TypeOK /\ CallInv /\ AssetsElsewhere /\ AssetsAligned /\ FaultlessCallsReturn

\* What ffmpeg leaves: a finished video of its input when it exits with 0, and
\* otherwise a fault.
LEMMA FfmpegOutcomes ==
    ASSUME NEW video \in Raws, NEW n \in Nat, NEW old \in Contents,
           NEW out \in Ffmpeg(video, n, old)
    PROVE  /\ out.file \in Contents
           /\ out.fault \in BOOLEAN
           /\ out.code = 0 => /\ out.file \in Finished(video)
                              /\ out.fault \/ out.file.frames = n
           /\ out.code # 0 => out.fault
<1>1. CASE out \in Encoded(video, n)
  <2>1. PICK k \in 0..n :
            out = [file |-> Video(video, k, TRUE), code |-> 0, fault |-> k # n]
    BY <1>1 DEF Encoded
  <2>2. Video(video, k, TRUE) \in Contents /\ Video(video, k, TRUE) \in Finished(video)
    BY DEF Video, Videos, Contents, Finished
  <2>3. out.fault = (k # n) /\ Video(video, k, TRUE).frames = k
    BY <2>1, Zenon DEF Video
  <2>4. out.fault \in BOOLEAN
    BY <2>3
  <2> QED  BY <2>1, <2>2, <2>3, <2>4
<1>2. CASE out \in Stopped(video, n, old)
  <2>1. PICK f \in {old, Unreadable} \cup {Video(video, k, FALSE) : k \in 0..n} :
            out = [file |-> f, code |-> 1, fault |-> TRUE]
    BY <1>2 DEF Stopped
  <2>2. f \in Contents
    <3>1. \A k \in 0..n : Video(video, k, FALSE) \in Contents
      BY DEF Video, Videos, Contents
    <3> QED  BY <3>1 DEF Contents
  <2>3. out.file = f /\ out.code = 1 /\ out.fault = TRUE
    BY <2>1, Zenon
  <2>4. out.code # 0
    BY <2>3
  <2>5. out.fault /\ out.fault \in BOOLEAN
    BY <2>3, Zenon
  <2> QED  BY <2>2, <2>3, <2>4, <2>5
<1> QED  BY <1>1, <1>2 DEF Ffmpeg

LEMMA InitIInv == Init => IInv
<1> SUFFICES ASSUME Init
             PROVE  IInv
  OBVIOUS
<1>1. TypeOK
  BY DEF Init, TypeOK, Steps, Contents
<1>2. CallInv /\ AssetsElsewhere
  BY DEF Init, CallInv, AssetsElsewhere, Encoding, Described
<1>3. AssetsAligned /\ FaultlessCallsReturn
  BY DEF Init, AssetsAligned, FaultlessCallsReturn
<1> QED  BY <1>1, <1>2, <1>3 DEF IInv

\* A call that ends, with or without a fault, leaves the files alone.
LEMMA CallEnds ==
    ASSUME IInv, UNCHANGED <<files, raw, frames, calls>>, assets' \in {assets, {}},
           \/ step' = "idle" /\ UNCHANGED faulty
           \/ step' = "raised" /\ faulty' = TRUE /\ step # "idle"
    PROVE  IInv'
<1> USE DEF IInv, files
<1>1. TypeOK'
  BY DEF TypeOK, Steps
<1>2. CallInv'
  BY DEF CallInv, Encoding, Described
<1>3. AssetsElsewhere' /\ AssetsAligned' /\ FaultlessCallsReturn'
  BY DEF AssetsElsewhere, AssetsAligned, FaultlessCallsReturn, stem
<1> QED  BY <1>1, <1>2, <1>3

LEMMA BeginKeepsIInv ==
    ASSUME IInv, NEW video \in Raws, Begin(video)
    PROVE  IInv'
<1> USE DEF IInv, Begin, files
<1>1. TypeOK'
  <2>1. assets' \subseteq assets
    OBVIOUS
  <2>2. step' \in Steps /\ frames' \in Nat /\ calls' \in Nat
    BY DEF TypeOK, Steps
  <2>3. faulty' \in BOOLEAN
    BY Zenon
  <2> QED  BY <2>1, <2>2, <2>3 DEF TypeOK
<1>2. CallInv'
  BY DEF CallInv, Encoding, Described
<1>3. AssetsElsewhere'
  BY DEF AssetsElsewhere, stem
<1>4. AssetsAligned' /\ FaultlessCallsReturn'
  BY DEF AssetsAligned, FaultlessCallsReturn
<1> QED  BY <1>1, <1>2, <1>3, <1>4

LEMMA NormalizeVideoKeepsIInv ==
    ASSUME IInv, NormalizeVideo
    PROVE  IInv'
<1> USE RawsAssumption DEF IInv
<1>1. PICK out \in Ffmpeg(raw, Length[raw], prepared[stem]) :
          /\ prepared' = [prepared EXCEPT ![stem] = out.file]
          /\ step' = AfterFfmpeg(out, "probe")
          /\ faulty' = (faulty \/ out.fault)
  BY DEF NormalizeVideo
<1>2. step = "normalize" /\ UNCHANGED <<sam3, raw, frames, assets, calls>> /\ stem' = stem
  BY DEF NormalizeVideo, stem
<1>3. raw \in Raws /\ Length[raw] \in Nat /\ stem \in Stems /\ prepared[stem] \in Contents
  BY DEF TypeOK, stem
<1>4. /\ out.file \in Contents
      /\ out.fault \in BOOLEAN
      /\ out.code = 0 => /\ out.file \in Finished(raw)
                         /\ out.fault \/ out.file.frames = Length[raw]
      /\ out.code # 0 => out.fault
  BY <1>3, FfmpegOutcomes
<1>5. \/ step' = "probe" /\ out.code = 0
      \/ step' = "raised" /\ faulty'
  BY <1>1, <1>4 DEF AfterFfmpeg
<1>6. /\ prepared' \in [Stems -> Contents] /\ prepared'[stem] = out.file
      /\ \A s \in Stems \ {stem} : prepared'[s] = prepared[s]
  BY <1>1, <1>3, <1>4 DEF TypeOK
<1>7. TypeOK'
  <2>1. faulty' \in BOOLEAN /\ step' \in Steps
    BY <1>1, <1>5 DEF Steps
  <2> QED  BY <1>2, <1>6, <2>1 DEF TypeOK
<1>8. CallInv'
  <2>1. CASE step' = "probe" /\ out.code = 0
    <3>1. prepared'[stem'] \in Finished(raw')
      BY <1>2, <1>4, <1>6, <2>1
    <3>2. faulty' \/ prepared'[stem'].frames = Length[raw']
      BY <1>1, <1>2, <1>4, <1>6, <2>1
    <3> QED  BY <2>1, <3>1, <3>2 DEF CallInv, Encoding, Described
  <2>2. CASE step' = "raised"
    BY <2>2 DEF CallInv, Encoding, Described
  <2> QED  BY <1>5, <2>1, <2>2
<1>9. AssetsElsewhere' /\ AssetsAligned'
  <2>1. \A a \in assets : a.raw \in Raws /\ Stem[a.raw] \in Stems \ {stem}
    BY <1>2 DEF AssetsElsewhere, TypeOK
  <2> QED  BY <1>2, <1>6, <2>1 DEF AssetsElsewhere, AssetsAligned
<1>10. FaultlessCallsReturn'
  BY <1>2, <1>5 DEF FaultlessCallsReturn
<1> QED  BY <1>7, <1>8, <1>9, <1>10

LEMMA ProbePreparedKeepsIInv ==
    ASSUME IInv, ProbePrepared
    PROVE  IInv'
<1> USE RawsAssumption, ContentsAssumption DEF IInv, files
<1> DEFINE file == prepared[stem]
<1>1. /\ step = "probe" /\ UNCHANGED <<prepared, sam3, raw, faulty, assets, calls>>
      /\ stem' = stem
  BY DEF ProbePrepared, stem
<1>2. file \in Finished(raw) /\ (faulty \/ file.frames = Length[raw])
  BY <1>1 DEF CallInv
<1>3. raw \in Raws /\ Length[raw] \in Nat \ {0}
  BY DEF TypeOK
<1>4. file \notin {Absent, Unreadable} /\ file.frames \in Nat
  BY <1>2, <1>3 DEF Videos, Finished
<1>5. CASE Probes(file)
  <2>1. step' = "normalizeSam3" /\ frames' = file.frames /\ frames' \in Nat \ {0}
    BY <1>4, <1>5 DEF ProbePrepared, Probes
  <2>2. TypeOK'
    BY <1>1, <2>1 DEF TypeOK, Steps
  <2>3. file = Video(raw, frames', TRUE)
    BY <1>2, <2>1 DEF Video, Finished
  <2>4. CallInv'
    <3>1. frames' > 0
      BY <2>1
    <3>2. prepared'[stem'] = Video(raw', frames', TRUE)
      BY <1>1, <2>3
    <3>3. faulty' \/ frames' = Length[raw']
      BY <1>1, <1>2, <2>1
    <3> QED  BY <2>1, <3>1, <3>2, <3>3 DEF CallInv, Encoding, Described
  <2>5. AssetsElsewhere' /\ AssetsAligned' /\ FaultlessCallsReturn'
    BY <1>1, <2>1 DEF AssetsElsewhere, AssetsAligned, FaultlessCallsReturn
  <2> QED  BY <2>2, <2>4, <2>5
<1>6. CASE ~Probes(file)
  <2>1. step' = "raised" /\ frames' = frames
    BY <1>6 DEF ProbePrepared
  <2>2. faulty
    BY <1>2, <1>3, <1>4, <1>6 DEF Probes
  <2>3. TypeOK'
    BY <1>1, <2>1 DEF TypeOK, Steps
  <2>4. CallInv'
    BY <2>1 DEF CallInv, Encoding, Described
  <2>5. AssetsElsewhere' /\ AssetsAligned' /\ FaultlessCallsReturn'
    BY <1>1, <2>1, <2>2 DEF AssetsElsewhere, AssetsAligned, FaultlessCallsReturn
  <2> QED  BY <2>3, <2>4, <2>5
<1> QED  BY <1>5, <1>6

LEMMA NormalizeSam3KeepsIInv ==
    ASSUME IInv, NormalizeSam3
    PROVE  IInv'
<1> USE RawsAssumption DEF IInv
<1>1. PICK out \in Ffmpeg(prepared[stem].raw, prepared[stem].frames, sam3[stem]) :
          /\ sam3' = [sam3 EXCEPT ![stem] = out.file]
          /\ step' = AfterFfmpeg(out, "probeSam3")
          /\ faulty' = (faulty \/ out.fault)
  BY DEF NormalizeSam3
<1>2. /\ step = "normalizeSam3" /\ UNCHANGED <<prepared, raw, frames, assets, calls>>
      /\ stem' = stem
  BY DEF NormalizeSam3, stem
<1>3. raw \in Raws /\ frames \in Nat /\ stem \in Stems /\ sam3[stem] \in Contents
  BY DEF TypeOK, stem
<1>4. /\ prepared[stem] = Video(raw, frames, TRUE) /\ frames > 0
      /\ faulty \/ frames = Length[raw]
  BY <1>2 DEF CallInv, Encoding
<1>5. prepared[stem].raw = raw /\ prepared[stem].frames = frames
  BY <1>4 DEF Video
<1>6. /\ out.file \in Contents
      /\ out.fault \in BOOLEAN
      /\ out.code = 0 => /\ out.file \in Finished(raw)
                         /\ out.fault \/ out.file.frames = frames
      /\ out.code # 0 => out.fault
  BY <1>3, <1>5, FfmpegOutcomes
<1>7. \/ step' = "probeSam3" /\ out.code = 0
      \/ step' = "raised" /\ faulty'
  BY <1>1, <1>6 DEF AfterFfmpeg
<1>8. /\ sam3' \in [Stems -> Contents] /\ sam3'[stem] = out.file
      /\ \A s \in Stems \ {stem} : sam3'[s] = sam3[s]
  BY <1>1, <1>3, <1>6 DEF TypeOK
<1>9. TypeOK'
  <2>1. faulty' \in BOOLEAN /\ step' \in Steps
    BY <1>1, <1>7 DEF Steps
  <2> QED  BY <1>2, <1>8, <2>1 DEF TypeOK
<1>10. CallInv'
  <2>1. CASE step' = "probeSam3" /\ out.code = 0
    <3>1. sam3'[stem'] \in Finished(raw')
      BY <1>2, <1>6, <1>8, <2>1
    <3>2. faulty' \/ sam3'[stem'].frames = frames'
      BY <1>1, <1>2, <1>6, <1>8, <2>1
    <3>3. faulty' \/ frames' = Length[raw']
      BY <1>1, <1>2, <1>4
    <3> QED  BY <1>2, <1>4, <2>1, <3>1, <3>2, <3>3 DEF CallInv, Encoding, Described
  <2>2. CASE step' = "raised"
    BY <2>2 DEF CallInv, Encoding, Described
  <2> QED  BY <1>7, <2>1, <2>2
<1>11. AssetsElsewhere' /\ AssetsAligned'
  <2>1. \A a \in assets : a.raw \in Raws /\ Stem[a.raw] \in Stems \ {stem}
    BY <1>2 DEF AssetsElsewhere, TypeOK
  <2> QED  BY <1>2, <1>8, <2>1 DEF AssetsElsewhere, AssetsAligned
<1>12. FaultlessCallsReturn'
  BY <1>2, <1>7 DEF FaultlessCallsReturn
<1> QED  BY <1>9, <1>10, <1>11, <1>12

LEMMA ProbeSam3KeepsIInv ==
    ASSUME IInv, ProbeSam3
    PROVE  IInv'
<1> USE RawsAssumption, ContentsAssumption DEF IInv, files
<1> DEFINE file == sam3[stem]
<1>1. /\ step = "probeSam3" /\ UNCHANGED <<prepared, sam3, raw, frames, faulty, assets, calls>>
      /\ stem' = stem
      /\ step' = IF Probes(file) /\ file.frames = frames THEN "scenes" ELSE "raised"
  BY DEF ProbeSam3, stem
<1>2. /\ file \in Finished(raw) /\ (faulty \/ file.frames = frames)
      /\ prepared[stem] = Video(raw, frames, TRUE) /\ frames > 0
      /\ faulty \/ frames = Length[raw]
  BY <1>1 DEF CallInv, Encoding
<1>3. file \notin {Absent, Unreadable}
  BY <1>2 DEF TypeOK, Videos, Finished
<1>4. TypeOK'
  BY <1>1 DEF TypeOK, Steps
<1>5. CASE Probes(file) /\ file.frames = frames
  <2>1. file = Video(raw, frames, TRUE)
    BY <1>2, <1>5 DEF Video, Finished
  <2>2. CallInv'
    BY <1>1, <1>2, <1>5, <2>1 DEF CallInv, Encoding, Described
  <2>3. AssetsElsewhere' /\ AssetsAligned' /\ FaultlessCallsReturn'
    BY <1>1, <1>5 DEF AssetsElsewhere, AssetsAligned, FaultlessCallsReturn
  <2> QED  BY <1>4, <2>2, <2>3
<1>6. CASE ~(Probes(file) /\ file.frames = frames)
  <2>1. step' = "raised"
    BY <1>1, <1>6
  <2>2. faulty
    BY <1>2, <1>3, <1>6 DEF Probes
  <2>3. CallInv'
    BY <2>1 DEF CallInv, Encoding, Described
  <2>4. AssetsElsewhere' /\ AssetsAligned' /\ FaultlessCallsReturn'
    BY <1>1, <2>1, <2>2 DEF AssetsElsewhere, AssetsAligned, FaultlessCallsReturn
  <2> QED  BY <1>4, <2>3, <2>4
<1> QED  BY <1>5, <1>6

LEMMA DescribeScenesKeepsIInv ==
    ASSUME IInv, DescribeScenes
    PROVE  IInv'
<1> USE DEF IInv, DescribeScenes, files
<1>1. TypeOK'
  BY DEF TypeOK, Steps
<1>2. CallInv'
  BY DEF CallInv, Encoding, Described, stem
<1>3. AssetsElsewhere' /\ AssetsAligned' /\ FaultlessCallsReturn'
  BY DEF AssetsElsewhere, AssetsAligned, FaultlessCallsReturn, stem
<1> QED  BY <1>1, <1>2, <1>3

LEMMA ReturnAssetKeepsIInv ==
    ASSUME IInv, ReturnAsset
    PROVE  IInv'
<1> USE DEF IInv, ReturnAsset, files
<1>1. /\ prepared[stem] = Video(raw, frames, TRUE) /\ sam3[stem] = Video(raw, frames, TRUE)
      /\ faulty \/ frames = Length[raw]
      /\ raw \in Raws /\ frames \in Nat \ {0}
  <2>1. step \in Described /\ step \in Encoding
    BY DEF Encoding, Described
  <2>2. raw \in Raws /\ frames \in Nat
    BY DEF TypeOK
  <2>3. /\ prepared[stem] = Video(raw, frames, TRUE) /\ sam3[stem] = Video(raw, frames, TRUE)
        /\ faulty \/ frames = Length[raw]
        /\ frames > 0
    BY <2>1, Zenon DEF CallInv
  <2>4. frames \in Nat \ {0}
    BY <2>2, <2>3
  <2> QED  BY <2>2, <2>3, <2>4
<1> DEFINE asset == [raw |-> raw, frames |-> frames, faulty |-> faulty]
<1>6. asset.raw = raw /\ asset.frames = frames /\ asset.faulty = faulty /\ assets' = assets \cup {asset}
  BY Zenon
<1>2. TypeOK'
  <2>1. faulty \in BOOLEAN /\ step' \in Steps
    BY DEF TypeOK, Steps
  <2>2. asset \in [raw : Raws, frames : Nat \ {0}, faulty : BOOLEAN]
    BY <1>1, <2>1, Zenon
  <2> QED  BY <1>6, <2>1, <2>2 DEF TypeOK
<1>3. CallInv' /\ AssetsElsewhere'
  BY DEF CallInv, AssetsElsewhere, Encoding, Described
<1>4. AssetsAligned'
  <2> SUFFICES ASSUME NEW a \in assets'
               PROVE  /\ prepared[Stem[a.raw]] = Video(a.raw, a.frames, TRUE)
                      /\ sam3[Stem[a.raw]] = Video(a.raw, a.frames, TRUE)
    BY DEF AssetsAligned
  <2>1. CASE a \in assets
    BY <2>1 DEF AssetsAligned
  <2>2. CASE a = asset
    BY <1>1, <1>6, <2>2 DEF stem
  <2> QED  BY <1>6, <2>1, <2>2
<1>5. FaultlessCallsReturn'
  BY <1>1, <1>6 DEF FaultlessCallsReturn
<1> QED  BY <1>2, <1>3, <1>4, <1>5

LEMMA NextKeepsIInv == IInv /\ [Next]_vars => IInv'
<1> SUFFICES ASSUME IInv, [Next]_vars
             PROVE  IInv'
  OBVIOUS
<1>1. ASSUME NEW video \in Raws, Begin(video) PROVE IInv'
  BY <1>1, BeginKeepsIInv
<1>2. CASE NormalizeVideo
  BY <1>2, NormalizeVideoKeepsIInv
<1>3. CASE ProbePrepared
  BY <1>3, ProbePreparedKeepsIInv
<1>4. CASE NormalizeSam3
  BY <1>4, NormalizeSam3KeepsIInv
<1>5. CASE ProbeSam3
  BY <1>5, ProbeSam3KeepsIInv
<1>6. CASE DescribeScenes
  BY <1>6, DescribeScenesKeepsIInv
<1>7. CASE ReturnAsset
  BY <1>7, ReturnAssetKeepsIInv
<1>8. CASE CannotStart \/ DescribingFails
  <2>1. step # "idle" /\ Fault
    BY <1>8 DEF CannotStart, DescribingFails
  <2> QED  BY <2>1, CallEnds DEF Fault
<1>9. CASE Raise \/ Crash
  BY <1>9, CallEnds DEF Raise, Crash
<1>10. CASE UNCHANGED vars
  BY <1>10 DEF vars, files, call, IInv, TypeOK, CallInv, AssetsElsewhere, AssetsAligned,
               FaultlessCallsReturn, stem
<1> QED
  BY <1>1, <1>2, <1>3, <1>4, <1>5, <1>6, <1>7, <1>8, <1>9, <1>10 DEF Next

\* Every asset prepare_video has returned is described rightly by its files until
\* its stem is prepared again, whatever failed before, between or after.
THEOREM AssetsAlwaysAligned == Spec => []AssetsAligned
<1>1. IInv => AssetsAligned
  BY DEF IInv
<1> QED  BY InitIInv, NextKeepsIInv, <1>1, PTL DEF Spec

\* Rests of earlier calls never make a call fail, or lose frames.
THEOREM FaultlessCallsAlwaysReturn == Spec => []FaultlessCallsReturn
<1>1. IInv => FaultlessCallsReturn
  BY DEF IInv
<1> QED  BY InitIInv, NextKeepsIInv, <1>1, PTL DEF Spec
=============================================================================
