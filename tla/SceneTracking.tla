---------------------------- MODULE SceneTracking ----------------------------
(***************************************************************************)
(* SceneTracking: notebooks that upload a video and track the object seeds *)
(* of its scenes through the inference server.  A call tracks one seed per *)
(* request, scene by scene, and builds a new asset; the asset it was given *)
(* is untouched, so an error anywhere leaves the caller with the old one.  *)
(* A request may time out while the server still works on it: the client   *)
(* is gone, the handler is not, and a later call queues up behind it.      *)
(***************************************************************************)
EXTENDS InferenceServer

CONSTANTS Clients,     \* notebooks
          Scenes,      \* the scenes of the prepared video
          Selections,  \* the sets of scenes a caller may select
          MaxRuns      \* bound: tracking calls per client

ASSUME ScenesAssumption ==
    /\ Scenes \in Seq([start : Nat, end : 1..FrameCount, analysed : BOOLEAN, seeds : Seq(Prompts)])
    /\ \A k \in DOMAIN Scenes : Scenes[k].start < Scenes[k].end

ASSUME SelectionsAssumption == Selections \subseteq SUBSET DOMAIN Scenes

ASSUME RunsAssumption == MaxRuns \in Nat

VARIABLES pc,        \* what each client is doing
          call,      \* the locals of its running tracking call
          waiting,   \* the id of the request it waits for
          video,     \* the video_id it has been given
          asset,     \* its VideoAsset: per scene the tracks and the call they come from
          published  \* the last tracking call that returned an asset

clientVars == <<pc, call, waiting, video, asset, published>>
vars == <<serverVars, clientVars>>

Init ==
    /\ ServerInit
    /\ pc = [c \in Clients |-> "ready"]
    /\ call = [c \in Clients |-> None]
    /\ waiting = [c \in Clients |-> None]
    /\ video = [c \in Clients |-> None]
    /\ asset = [c \in Clients |-> [k \in DOMAIN Scenes |-> [run |-> 0, tracks |-> {}]]]
    /\ published = [c \in Clients |-> [run |-> 0, chosen |-> {}]]

-----------------------------------------------------------------------------
(***************************************************************************)
(* Requests and their answers.                                             *)
(***************************************************************************)
Send(c, r) ==
    /\ Arrive(r)
    /\ waiting' = [waiting EXCEPT ![c] = sent + 1]
    /\ UNCHANGED <<job, files, held, replies, crashes>>

\* Mutant: an answer is matched with the client, not with the request.
HasAnswerOfAny(c, a) == waiting[c] # None /\ a \in replies /\ a.id <= waiting[c]

\* HTTP answers a request on the connection it came by.
HasAnswer(c, a) == a \in replies /\ a.id = waiting[c]

TakeAnswer(c, a) ==
    /\ HasAnswer(c, a)
    /\ replies' = replies \ {a}
    /\ waiting' = [waiting EXCEPT ![c] = None]
    /\ UNCHANGED <<inbox, job, files, held, bounds>>

Body(kind) ==
    [id |-> None, kind |-> kind, named |-> TRUE, video |-> None, start |-> None,
     end |-> None, frame |-> None, image |-> FALSE, seeds |-> <<>>]

-----------------------------------------------------------------------------
(***************************************************************************)
(* VideoClient.upload.                                                     *)
(***************************************************************************)
\* The seeds a call with this selection tracks.
SeedCount(chosen) ==
    LET n[k \in 0..Len(Scenes)] ==
          IF k = 0 THEN 0
          ELSE n[k - 1] + IF k \in chosen /\ Scenes[k].analysed THEN Len(Scenes[k].seeds) ELSE 0
    IN  n[Len(Scenes)]

\* Bound: a call begins only while the requests left are enough for it.
RequestsLeft(n) ==
    sent + n + SeedCount(DOMAIN Scenes) * Cardinality({c \in Clients : call[c] # None})
        <= MaxRequests

Upload(c) ==
    /\ pc[c] = "ready"
    /\ RequestsLeft(1)
    /\ Send(c, Body("upload"))
    /\ pc' = [pc EXCEPT ![c] = "uploading"]
    /\ UNCHANGED <<call, video, asset, published>>

Uploaded(c) ==
    /\ pc[c] = "uploading"
    /\ \E a \in replies :
         /\ a.status = "ok"
         /\ TakeAnswer(c, a)
         /\ video' = [video EXCEPT ![c] = a.id]
    /\ pc' = [pc EXCEPT ![c] = "ready"]
    /\ UNCHANGED <<call, asset, published>>

-----------------------------------------------------------------------------
(***************************************************************************)
(* track_initial_scenes_object_seeds.  An index outside the scenes raises  *)
(* before anything is sent, so only selections of scenes are started.      *)
(***************************************************************************)
StartTracking(c, chosen) ==
    /\ pc[c] = "ready"
    /\ video[c] # None
    /\ published[c].run < MaxRuns
    /\ RequestsLeft(SeedCount(chosen))
    /\ call' = [call EXCEPT ![c] = [chosen |-> chosen, built |-> <<>>, seed |-> 1, tracks |-> {}]]
    /\ pc' = [pc EXCEPT ![c] = "scenes"]
    /\ UNCHANGED <<serverVars, waiting, video, asset, published>>

Current(c) == Len(call[c].built) + 1
ScenesLeft(c) == pc[c] = "scenes" /\ Current(c) <= Len(Scenes)
Selected(c) == Current(c) \in call[c].chosen /\ Scenes[Current(c)].analysed

KeepScene(c) ==
    /\ ScenesLeft(c)
    /\ ~Selected(c)
    /\ call' = [call EXCEPT ![c].built = Append(@, asset[c][Current(c)])]
    /\ UNCHANGED <<serverVars, pc, waiting, video, asset, published>>

SeedFrame(scene) == (scene.start + scene.end - 1) \div 2

AskSeed(c) ==
    /\ ScenesLeft(c)
    /\ Selected(c)
    /\ LET scene == Scenes[Current(c)] IN
         /\ call[c].seed <= Len(scene.seeds)
         /\ Send(c, [Body("track") EXCEPT
                       !.video = video[c], !.start = scene.start, !.end = scene.end,
                       !.seeds = <<[frame |-> SeedFrame(scene),
                                    prompt |-> scene.seeds[call[c].seed]]>>])
    /\ pc' = [pc EXCEPT ![c] = "tracking"]
    /\ UNCHANGED <<call, video, asset, published>>

\* Points with a confidence outside [0, 1] are dropped, and a track with them.
SceneTracksOf(tracks, seed) ==
    {t \in {[seed |-> seed, prompts |-> sam.prompts,
             frames |-> {p.frame : p \in {q \in sam.points : q.valid}}] : sam \in tracks} :
       t.frames # {}}

Tracked(c) ==
    /\ pc[c] = "tracking"
    /\ \E a \in replies :
         /\ a.status = "ok"
         /\ TakeAnswer(c, a)
         /\ call' = [call EXCEPT
              ![c].tracks = @ \cup SceneTracksOf(a.tracks, Scenes[Current(c)].seeds[call[c].seed]),
              ![c].seed = @ + 1]
    /\ pc' = [pc EXCEPT ![c] = "scenes"]
    /\ UNCHANGED <<video, asset, published>>

Finished(c) == [run |-> published[c].run + 1, tracks |-> call[c].tracks]

\* Mutant: the tracks are stored in the scene the caller handed in.
EndSceneInPlace(c) ==
    /\ ScenesLeft(c) /\ Selected(c)
    /\ call[c].seed > Len(Scenes[Current(c)].seeds)
    /\ call' = [call EXCEPT ![c].built = Append(@, Finished(c)), ![c].seed = 1, ![c].tracks = {}]
    /\ asset' = [asset EXCEPT ![c][Current(c)] = Finished(c)]
    /\ UNCHANGED <<serverVars, pc, waiting, video, published>>

EndScene(c) ==
    /\ ScenesLeft(c)
    /\ Selected(c)
    /\ call[c].seed > Len(Scenes[Current(c)].seeds)
    /\ call' = [call EXCEPT ![c].built = Append(@, Finished(c)), ![c].seed = 1, ![c].tracks = {}]
    /\ UNCHANGED <<serverVars, pc, waiting, video, asset, published>>

\* The notebook rebinds its asset to the one the call returns.
ReturnAsset(c) ==
    /\ pc[c] = "scenes"
    /\ Len(call[c].built) = Len(Scenes)
    /\ asset' = [asset EXCEPT ![c] = call[c].built]
    /\ published' = [published EXCEPT ![c] = [run |-> @.run + 1, chosen |-> call[c].chosen]]
    /\ call' = [call EXCEPT ![c] = None]
    /\ pc' = [pc EXCEPT ![c] = "ready"]
    /\ UNCHANGED <<serverVars, waiting, video>>

-----------------------------------------------------------------------------
(***************************************************************************)
(* ClientError: a status that is not a success, or no answer in time.      *)
(***************************************************************************)
Raise(c) ==
    /\ call' = [call EXCEPT ![c] = None]
    /\ pc' = [pc EXCEPT ![c] = "ready"]
    /\ UNCHANGED <<video, asset, published>>

Refused(c) ==
    /\ \E a \in replies : a.status # "ok" /\ TakeAnswer(c, a)
    /\ Raise(c)

\* Mutant: the time limit ends when the server begins to work.
TimeoutBeforeWork(c) ==
    /\ \E i \in DOMAIN inbox : inbox[i].id = waiting[c]
    /\ waiting' = [waiting EXCEPT ![c] = None]
    /\ Raise(c)
    /\ UNCHANGED serverVars

\* The limit passes, or the connection is lost; what the server has of the
\* request stays there.
Timeout(c) ==
    /\ waiting[c] # None
    /\ waiting' = [waiting EXCEPT ![c] = None]
    /\ Raise(c)
    /\ UNCHANGED serverVars

\* The server may notice that the client of a queued request has gone.
Discard ==
    /\ inbox # <<>>
    /\ \A c \in Clients : waiting[c] # Head(inbox).id
    /\ inbox' = Tail(inbox)
    /\ UNCHANGED <<job, files, held, replies, bounds, clientVars>>

ClientStep(c) ==
    \/ Uploaded(c)
    \/ KeepScene(c) \/ AskSeed(c) \/ Tracked(c) \/ EndScene(c) \/ ReturnAsset(c)
    \/ Refused(c) \/ Timeout(c)

Next ==
    \/ \E c \in Clients :
         \/ Upload(c)
         \/ \E chosen \in Selections : StartTracking(c, chosen)
         \/ ClientStep(c)
    \/ (Handle \/ Crash) /\ UNCHANGED clientVars
    \/ Discard

\* The clients go on, and a time limit that has passed is noticed; nothing is
\* assumed of the server, which may hang.
Spec == Init /\ [][Next]_vars /\ \A c \in Clients : WF_vars(ClientStep(c))

-----------------------------------------------------------------------------
(***************************************************************************)
(* Properties.                                                             *)
(***************************************************************************)
\* Whatever times out, is retried or is answered late, a scene of an asset only
\* has tracks of its own seeds, and their frames lie in the scene: the server
\* tracks in a directory that starts at 0 and both sides shift frame indexes.
TracksBelongToTheirScene ==
    \A c \in Clients : \A k \in DOMAIN Scenes : \A t \in asset[c][k].tracks :
        /\ t.seed \in {Scenes[k].seeds[i] : i \in DOMAIN Scenes[k].seeds}
        /\ t.prompts = {t.seed}
        /\ t.frames # {}
        /\ t.frames \subseteq Scenes[k].start..(Scenes[k].end - 1)

\* All or nothing: exactly the selected and analysed scenes of an asset come
\* from the call that returned it, no scene is missing, and a call that raised
\* has left nothing in it.
WholeCalls ==
    \A c \in Clients : published[c].run > 0 =>
        /\ DOMAIN asset[c] = DOMAIN Scenes
        /\ {k \in DOMAIN Scenes : asset[c][k].run >= published[c].run}
             = {k \in published[c].chosen : Scenes[k].analysed}

\* A call returns or raises although the server may never answer.
CallsReturn == \A c \in Clients : pc[c] # "ready" ~> pc[c] = "ready"
=============================================================================
