---------------------------- MODULE LiveTrackList ----------------------------
(***************************************************************************)
(* The LIVE_TRACK_LIST trigger of one transcode rendition stream           *)
(* (src/handlers/misttriggers/live_tracklist.go) and the workaround that   *)
(* fires it in Mist's place (src/handlers/trigger_workaround.go).          *)
(*                                                                         *)
(* Calls of the unauthenticated endpoint /api/mist/trigger (api/http.go:48)*)
(* come from Mist, from the workaround goroutine and from anyone else;     *)
(* net/http serves each in a goroutine of its own, the handlers h. A call  *)
(* is three steps: the checks (Receive), one PushStart per video track     *)
(* (Push), then the sort and upload of the master playlist (Upload).       *)
(*                                                                         *)
(* Mist (outside the repository) is the environment: it gains tracks,     *)
(* ends the push, and fires the trigger once per change, or not at all.   *)
(***************************************************************************)
EXTENDS Naturals, Sequences, FiniteSets

CONSTANTS
  Handlers,    \* concurrent calls of the trigger endpoint
  Tracks,      \* the tracks Mist may produce for the rendition stream
  CacheStates, \* DefaultStreamCache.Transcoding entry: "none", "ok", "badDir"
  Faults,      \* whether HTTP and storage calls may fail
  MaxPolls     \* iterations of the workaround's loop (20 in the code)

\* MistTrack fields the handler reads (live_tracklist.go:25-39).
Track == [type : {"video", "audio"}, bps : Nat, w : Nat, h : Nat, idx : Nat]

ASSUME LiveConstAssumption ==
  /\ Tracks \subseteq Track
  /\ CacheStates \subseteq {"none", "ok", "badDir"}
  /\ Faults \in BOOLEAN
  /\ MaxPolls \in Nat

VARIABLES
  cache,     \* the stream's cache entry, written when the transcode began
  mist,      \* tracks Mist has for the rendition stream
  ended,     \* Mist finished pushing (it then sends the "null" track list)
  pending,   \* Mist owes a LIVE_TRACK_LIST call for the last change
  source,    \* the SOURCE_PREFIX input stream still exists in Mist
  pushed,    \* push targets PushStart accepted (and AddDestination kept)
  uploaded,  \* a master playlist object exists in storage
  playlist,  \* the entries of the last master playlist saved
  up,        \* the catalyst-api process is running
  hdl,       \* per handler: pc, the video tracks left to push, the list
  wk         \* the workaround goroutine: pc, loop counter, tracks to post

vars == <<cache, mist, ended, pending, source, pushed, uploaded, playlist, up, hdl, wk>>

-----------------------------------------------------------------------------
\* dirPath: "<stream>_<w>x<h>/stream.m3u8" (live_tracklist.go:154).
Path(t) == <<t.w, t.h>>

\* destination: dirPath joined to UploadDir with ?video=<idx>&audio=maxbps
\* (live_tracklist.go:155-172).
Dest(t) == <<t.w, t.h, t.idx>>

\* A playlist line: BANDWIDTH=ByteRate*8, RESOLUTION, and the dirPath
\* (createPlaylist, live_tracklist.go:63-71).
Entry(t) == [bw |-> t.bps * 8, w |-> t.w, h |-> t.h, path |-> Path(t)]

\* ByBitrate.Less (live_tracklist.go:50-57) on playlist entries.
Less(a, b) == IF a.bw = b.bw THEN a.w * a.h < b.w * b.h ELSE a.bw < b.bw

\* sort.Sort(sort.Reverse(ByBitrate(trackList))) (live_tracklist.go:197):
\* the list in some order where no entry is Less than a later one; the
\* order of equal entries is whatever the unstable sort leaves.
SortedDesc(S) ==
  {q \in [1..Cardinality(S) -> S] :
     /\ \A e \in S : \E i \in DOMAIN q : q[i] = e
     /\ \A i, j \in DOMAIN q : i < j => ~Less(q[i], q[j])}

\* The tracks the workaround builds from Mist's metadata: Bps is not
\* copied, so ByteRate keeps its zero value (trigger_workaround.go:48-61).
WorkaroundTracks(ts) == {[t EXCEPT !.bps = 0] : t \in ts}

\* Payloads: two lines (stream name, track JSON or "null"), or one.
Payload(n, name, js, null, ts) ==
  [lines |-> n, name |-> name, json |-> js, null |-> null, tracks |-> ts]

\* Mutant: the stream name and the JSON without the newline between them.
WorkaroundPayloadNoNewline(ts) == Payload(1, "transcode", TRUE, FALSE, ts)

\* The workaround's POST body: "<renditionsStream>\n" then the track JSON
\* (trigger_workaround.go:62-67).
WorkaroundPayload(ts) == Payload(2, "transcode", TRUE, FALSE, ts)

\* Calls from other clients of the endpoint: one line, a stream that is not
\* a transcode stream, or track JSON that does not decode.
StrayPayloads ==
  {Payload(1, "transcode", TRUE, FALSE, {}),
   Payload(2, "other", TRUE, FALSE, {}),
   Payload(2, "transcode", FALSE, FALSE, {})}

Idle == [pc |-> "idle", todo |-> {}, list |-> {}]

-----------------------------------------------------------------------------
(* The environment: Mist.                                                  *)

MistAddTrack ==
  /\ ~ended
  /\ \E t \in Tracks \ mist : mist' = mist \cup {t}
  /\ pending' = TRUE
  /\ UNCHANGED <<cache, ended, source, pushed, uploaded, playlist, up, hdl, wk>>

MistEnd ==
  /\ ~ended
  /\ ended' = TRUE
  /\ pending' = TRUE
  /\ UNCHANGED <<cache, mist, source, pushed, uploaded, playlist, up, hdl, wk>>

-----------------------------------------------------------------------------
(* TriggerLiveTrackList (live_tracklist.go:99-204).                        *)

\* The checks up to the push loop, for payload p; afterwards the handler
\* pushes the payload's video tracks (live_tracklist.go:150-152).
Handle(h, p) ==
  \/ /\ p.lines = 1                      \* lines[1] panics; net/http recovers
     /\ UNCHANGED <<source, up, hdl>>
  \/ /\ p.lines = 2
     /\ \/ /\ p.name # "transcode" \/ cache = "none"   \* 400, 500
           /\ UNCHANGED <<source, up, hdl>>
        \/ /\ p.name = "transcode" /\ cache # "none" /\ p.null
           /\ source' \in IF Faults THEN {source, FALSE} ELSE {FALSE}
           /\ UNCHANGED <<up, hdl>>
        \/ /\ p.name = "transcode" /\ cache # "none" /\ ~p.null
           /\ \/ /\ ~p.json                                  \* 500
                 /\ UNCHANGED <<source, up, hdl>>
              \/ /\ p.json /\ cache = "badDir"          \* log.Fatal
                 /\ up' = FALSE
                 /\ UNCHANGED <<source, hdl>>
              \/ /\ p.json /\ cache = "ok"
                 /\ LET v == {t \in p.tracks : t.type = "video"} IN
                      hdl' = [hdl EXCEPT ![h] =
                               [pc |-> IF v = {} THEN "upload" ELSE "push",
                                todo |-> v, list |-> {}]]
                 /\ UNCHANGED <<source, up>>

\* A call arrives at idle handler h: Mist's pending trigger, the
\* workaround's POST, or another client's.
Receive(h) ==
  /\ up
  /\ hdl[h].pc = "idle"
  /\ \/ /\ pending
        /\ pending' = FALSE
        /\ Handle(h, Payload(2, "transcode", TRUE, ended, mist))
        /\ UNCHANGED wk
     \/ /\ wk.pc = "post"
        /\ wk' = [wk EXCEPT !.pc = "done"]
        /\ Handle(h, WorkaroundPayload(wk.tracks))
        /\ UNCHANGED pending
     \/ /\ \E p \in StrayPayloads : Handle(h, p)
        /\ UNCHANGED <<pending, wk>>
  /\ UNCHANGED <<cache, mist, ended, pushed, uploaded, playlist>>

\* Mutant: the track joins the playlist whether or not PushStart succeeded.
PushStartIgnoringError(h, t) ==
  /\ pushed' \in {pushed \cup {Dest(t)}} \cup (IF Faults THEN {pushed} ELSE {})
  /\ hdl' = [hdl EXCEPT ![h].list = @ \cup {Entry(t)}, ![h].todo = @ \ {t},
                        ![h].pc = IF hdl[h].todo = {t} THEN "upload" ELSE "push"]

\* PushStart of track t's rendition: on success the destination is cached
\* (AddDestination) and the track, with its dirPath, joins the list; an
\* error is only logged (live_tracklist.go:174-193).
PushStart(h, t) ==
  /\ \/ /\ pushed' = pushed \cup {Dest(t)}
        /\ hdl' = [hdl EXCEPT ![h].list = @ \cup {Entry(t)}, ![h].todo = @ \ {t},
                              ![h].pc = IF hdl[h].todo = {t} THEN "upload" ELSE "push"]
     \/ /\ Faults
        /\ UNCHANGED pushed
        /\ hdl' = [hdl EXCEPT ![h].todo = @ \ {t},
                              ![h].pc = IF hdl[h].todo = {t} THEN "upload" ELSE "push"]

\* One iteration of the loop over the tracks, in map order (any).
Push(h) ==
  /\ up
  /\ hdl[h].pc = "push"
  /\ \E t \in hdl[h].todo : PushStart(h, t)
  /\ UNCHANGED <<cache, mist, ended, pending, source, uploaded, playlist, up, wk>>

\* uploadPlaylist (live_tracklist.go:74-88) of the playlist m: a ParseOSURL
\* error leaves storageDriver nil and the call panics; a SaveData error is
\* logged; else the master playlist object is replaced.
uploadPlaylist(m) ==
  \/ /\ playlist' = m
     /\ uploaded' = TRUE
  \/ /\ Faults
     /\ UNCHANGED <<playlist, uploaded>>

\* The end of the call: sort, createPlaylist, uploadPlaylist
\* (live_tracklist.go:196-201).
Upload(h) ==
  /\ up
  /\ hdl[h].pc = "upload"
  /\ \E m \in SortedDesc(hdl[h].list) : uploadPlaylist(m)
  /\ hdl' = [hdl EXCEPT ![h] = Idle]
  /\ UNCHANGED <<cache, mist, ended, pending, source, pushed, up, wk>>

-----------------------------------------------------------------------------
(* invokeTriggerWorkaround (trigger_workaround.go:13-92).                  *)

\* One iteration: GET json_<stream>.js from Mist. An HTTP error or a status
\* other than 200 ends the goroutine; without metadata it sleeps and loops
\* (at most MaxPolls times); with metadata it builds the trigger payload.
Poll ==
  /\ up
  /\ wk.pc = "poll"
  /\ \/ /\ Faults
        /\ wk' = [wk EXCEPT !.pc = "done"]
     \/ /\ mist = {}
        /\ wk' = [wk EXCEPT !.i = @ + 1,
                            !.pc = IF wk.i + 1 < MaxPolls THEN "poll" ELSE "done"]
     \/ /\ mist # {}
        /\ wk' = [wk EXCEPT !.pc = "post", !.tracks = WorkaroundTracks(mist)]
  /\ UNCHANGED <<cache, mist, ended, pending, source, pushed, uploaded, playlist, up, hdl>>

\* client.Do of the trigger POST fails: the goroutine returns.
WorkaroundPostFails ==
  /\ up
  /\ Faults
  /\ wk.pc = "post"
  /\ wk' = [wk EXCEPT !.pc = "done"]
  /\ UNCHANGED <<cache, mist, ended, pending, source, pushed, uploaded, playlist, up, hdl>>

\* The workaround's POST served by some handler.
ServeWorkaround == \E h \in Handlers : Receive(h) /\ wk.pc = "post"

-----------------------------------------------------------------------------
Init ==
  /\ cache \in CacheStates
  /\ mist = {}
  /\ ended = FALSE
  /\ pending = FALSE
  /\ source = TRUE
  /\ pushed = {}
  /\ uploaded = FALSE
  /\ playlist = <<>>
  /\ up = TRUE
  /\ hdl = [h \in Handlers |-> Idle]
  /\ wk = [pc |-> IF MaxPolls > 0 THEN "poll" ELSE "done", i |-> 0, tracks |-> {}]

Next ==
  \/ MistAddTrack \/ MistEnd
  \/ \E h \in Handlers : Receive(h) \/ Push(h) \/ Upload(h)
  \/ Poll \/ WorkaroundPostFails

\* Each request goroutine and the workaround goroutine run on; Mist and the
\* other clients may stay silent. A pending POST is served: net/http starts
\* a goroutine per connection, the bound on Handlers is the model's.
Fairness ==
  /\ \A h \in Handlers : WF_vars(Push(h)) /\ WF_vars(Upload(h))
  /\ WF_vars(Poll)
  /\ SF_vars(ServeWorkaround)

Spec == Init /\ [][Next]_vars /\ Fairness

-----------------------------------------------------------------------------
(* Properties.                                                             *)

TypeOK ==
  /\ cache \in CacheStates
  /\ mist \subseteq Tracks
  /\ {ended, pending, source, uploaded, up} \subseteq BOOLEAN
  /\ pushed \subseteq {Dest(t) : t \in Tracks}
  /\ playlist \in Seq({Entry(t) : t \in Tracks \cup WorkaroundTracks(Tracks)})
  /\ \A h \in Handlers : hdl[h].pc \in {"idle", "push", "upload"}
  /\ wk.pc \in {"poll", "post", "done"} /\ wk.i \in 0..MaxPolls

\* Every rendition the stored master playlist advertises is being pushed to
\* its dirPath: the playlist only lists tracks whose PushStart succeeded
\* (live_tracklist.go:174-181), whatever concurrent calls, failures and
\* the workaround's second call do.
PlaylistOnlyPushed ==
  uploaded =>
    \A i \in DOMAIN playlist :
      \E d \in pushed : <<d[1], d[2]>> = playlist[i].path

\* Once Mist has a video track while the workaround still polls, a master
\* playlist listing a rendition is eventually stored: the workaround posts
\* the track list and the handler pushes and uploads it
\* (trigger_workaround.go:40-89, live_tracklist.go:99-201).
MetadataYieldsPlaylist ==
  (wk.pc = "poll" /\ \E t \in mist : t.type = "video")
    ~> (uploaded /\ playlist # <<>>)

-----------------------------------------------------------------------------
(* What comments of the code say and the code does not do (checked as     *)
(* expected violations).                                                   *)

\* The master playlist lists "each track (transcoded rendition)" pushed to
\* storage (live_tracklist.go:147): once no call is in flight, every
\* rendition being pushed is in the stored playlist.
FinalPlaylistComplete ==
  ((\A h \in Handlers : hdl[h].pc = "idle") /\ uploaded) =>
    \A d \in pushed : \E i \in DOMAIN playlist : playlist[i].path = <<d[1], d[2]>>

=============================================================================
