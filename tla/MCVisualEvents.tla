--------------------------- MODULE MCVisualEvents ---------------------------
(***************************************************************************)
(* TLC instances of VisualEvents: two tracks over six frames, and every    *)
(* track of up to six points.  On a diagonal of 20 the six places give     *)
(* every type of motion and every direction, and areas 2 and 3 just differ *)
(* enough.  The stages have a scene of four frames, where objects meet and *)
(* part, and one of a single frame.                                        *)
(***************************************************************************)
EXTENDS VisualEvents

SixFrames == 0..5

\* Apart, touching without and with enough confidence.
Shares == {10, 22, 40}

Mask(x, y, area, confidence) == [x |-> x, y |-> y, area |-> area, confidence |-> confidence]

SixMasks == {Mask(0, 0, 2, 90), Mask(1, 0, 2, 90), Mask(6, 0, 3, 20),
             Mask(0, 6, 2, 90), Mask(6, 5, 3, 90), Mask(0, 1, 3, 20)}

-----------------------------------------------------------------------------
Long == 0..3
Short == {4}
TwoScenes == {Long, Short}

Shape(present, placed) == [points |-> present, samples |-> placed]

\* Without a mask, still, moving away at the end or in the middle, seen late.
ShapesOfScene ==
    (Long  :> {Shape(0..3, [f \in {} |-> 1]),
               Shape(0..3, [f \in 0..3 |-> 1]),
               Shape(0..3, [f \in 0..3 |-> IF f < 2 THEN 1 ELSE 2]),
               Shape(1..3, [f \in 2..3 |-> 2])}) @@
    (Short :> {Shape({4}, [f \in {4} |-> 1])})
=============================================================================
