------------------------ MODULE MCInspectAndReview ------------------------
(***************************************************************************)
(* TLC instances of InspectAndReview.                                      *)
(***************************************************************************)
EXTENDS InspectAndReview, TLC

-----------------------------------------------------------------------------
(***************************************************************************)
(* BundleReview: three events of two sources and an ambience bed, which    *)
(* shares a group with events or has one of its own.                       *)
(***************************************************************************)
CONSTANTS e1, e2, e3, b1, s1, s2

Owner == e1 :> s1 @@ e2 :> s1 @@ e3 :> s2

GroupOf(events, ambience) == [events |-> events, beds |-> ambience]

TwoGroups == {<<1>> :> GroupOf({e1, e2}, {b1}) @@ <<2>> :> GroupOf({e3}, {}),
              <<1>> :> GroupOf({e1, e2, e3}, {}) @@ <<2>> :> GroupOf({}, {b1})}

-----------------------------------------------------------------------------
(***************************************************************************)
(* ReviewSessions: a video, one whose name has a space, and a file of the  *)
(* first one's name that is no video.                                      *)
(***************************************************************************)
CONSTANTS clip, spaced, broken

Names == clip :> "clip.mp4" @@ spaced :> "my clip.mp4" @@ broken :> "clip.mp4"
Letters == "clip.mp4" :> "clip.mp4" @@ "my clip.mp4" :> "myclip.mp4"
=============================================================================
