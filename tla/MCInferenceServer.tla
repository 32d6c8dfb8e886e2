-------------------------- MODULE MCInferenceServer --------------------------
(***************************************************************************)
(* TLC instance of InferenceServer: a video of three frames, one prompt.   *)
(***************************************************************************)
EXTENDS InferenceServer, TLC

Point(f, valid) == [frame |-> f, valid |-> valid]

\* Nothing propagated; one object lost on the last frames; two objects.
Found(n) ==
    {{}, {{Point(0, TRUE)}}, {{Point(n - 1, TRUE)}, {Point(0, FALSE), Point(n - 1, TRUE)}}}

Plain(kind) ==
    [id |-> None, kind |-> kind, named |-> FALSE, video |-> None, start |-> None,
     end |-> None, frame |-> None, image |-> FALSE, seeds |-> <<>>]

SeedLists == {<<>>} \cup [1..1 -> [frame : {None, 2}, prompt : Prompts]]
             \cup {<<[frame |-> None, prompt |-> p], [frame |-> None, prompt |-> p]>> : p \in Prompts}

\* Accepted and rejected requests of every endpoint.
AnyRequest ==
    {[Plain("upload") EXCEPT !.named = b] : b \in BOOLEAN}
    \cup {Plain("compute")}
    \cup {[Plain("track") EXCEPT !.video = 1, !.start = r[1], !.end = r[2], !.seeds = s] :
            r \in {<<None, None>>, <<1, 3>>, <<2, 5>>, <<2, 2>>, <<1, None>>}, s \in SeedLists}
    \cup {[Plain("segment") EXCEPT !.video = v, !.frame = f, !.image = i, !.seeds = s] :
            v \in {1, None}, f \in {-1, 2, None}, i \in BOOLEAN, s \in SeedLists}
=============================================================================
