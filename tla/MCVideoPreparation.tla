------------------------- MODULE MCVideoPreparation -------------------------
(***************************************************************************)
(* TLC instance of VideoPreparation: two raw videos of one stem, such as   *)
(* clip.mov and clip.mp4, and one of another.                              *)
(***************************************************************************)
EXTENDS VideoPreparation, TLC

CONSTANTS mov, mp4, other, clip, scene

RawVideos == {mov, mp4, other}
StemOf == (mov :> clip) @@ (mp4 :> clip) @@ (other :> scene)
LengthOf == (mov :> 2) @@ (mp4 :> 1) @@ (other :> 1)
=============================================================================
