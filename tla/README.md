# TLA+ models of catalyst-api

This directory holds TLA+ models of the repository under `src/`, the TLC
configurations that check them, and TLAPS proofs about them. Three parts
are modelled:

* the load balancers (the store-backed one and the in-memory push one);
* the `LIVE_TRACK_LIST` trigger and the goroutine that fires it in Mist's
  place;
* file decryption.

## The system

The repository has two balancers with the same interface. Each one picks
the cluster node a viewer is sent to (`GetBestNode`) and the node that
ingests a stream (`MistUtilLoadSource`).

* **The store-backed balancer** is `src/unnamed/part_002`, package
  `catabalancer`.
  * Each node publishes its metrics and its stream lists as rows of a
    `node_stats` table.
  * Every request first runs `RefreshNodes`. That is a blocking query
    with no lock held. It builds a snapshot: for each node, a fresh row.
  * The request then reads the registry under the read lock, scores the
    nodes (`createScoredNodes`) and selects one (`SelectNode`).
  * `UpdateMembers` replaces the registry under the write lock. It keeps
    only members tagged `node=media`.
* **The in-memory "push" balancer** is
  `src/balancer/catabalancer/catalyst_balancer.go`.
  * Nodes send a serf `NodeUpdateEvent`.
  * `ReceiveUserEvent` (`src/handlers/events.go:105-116`) calls
    `UpdateNodes` once. It then calls `UpdateStreams` once per stream:
    every playback stream first, then every ingest stream.
  * Each of these calls takes the balancer's mutex on its own. Handlers of
    concurrent events, and `UpdateMembers`, therefore interleave between
    the calls.
* **The selection engine** is `SelectNode`, `selectTopNodes`,
  `truncateReturned` and `GetLoadScore`. Both files implement it the same
  way:
  * Tier 1 is local, not-overloaded nodes that have the stream.
  * Tier 2 is local, not-overloaded nodes.
  * Tier 3 is the top `numNodes` by a weighted score.
  * A shuffle and a random pick among the result.

* **The `LIVE_TRACK_LIST` trigger** is
  `src/handlers/misttriggers/live_tracklist.go`.
  * Mist calls `/api/mist/trigger` (`src/api/http.go:48`, no auth) with
    two lines: the rendition stream's name and its track list as JSON, or
    `null` once the push has ended.
  * The handler checks the name and the stream's cache entry. On `null`
    it deletes the source stream. Otherwise it calls `PushStart` once per
    video track, sorts the tracks that were pushed by bitrate, and uploads
    a master playlist built from them.
  * net/http runs each call in a goroutine of its own, so calls overlap.
* **The trigger workaround** is `src/handlers/trigger_workaround.go`.
  * A goroutine polls Mist for the stream's metadata, up to 20 times.
  * Once Mist has tracks, it builds the track JSON itself and POSTs it to
    the trigger endpoint, "as if Mist did".
* **File decryption** is `src/crypto/decrypt.go`. `DecryptFile` decrypts
  an AES-CBC file whose key is RSA-encrypted. `pkcs7Unpad` removes the
  padding.

## Modules

| Module | Models | Notes |
|---|---|---|
| `SelectionOps` | `catalyst_balancer.go:200-272` (the same code as `part_002:239-311`) | Operators only. The shuffle, Go's unstable `sort.Slice` and `rand.Intn` become the set of nodes that may be returned. `geoScores` is not in the sources, so a GeoScore is any value in 0..2. |
| `SelectionCheck` | one `SelectNode` call | Init picks any candidate set, GeoScores, load scores and stream holders; `Pick`/`PickFails` is one call. |
| `CataBalancer` | `part_002` | State: `Nodes` (registry), `rows` (the `node_stats` table), `now` (clock), `req` (each concurrent request's pc, arguments, snapshot, refresh time, the scored nodes it copied out, result). |
| `PushBalancer` | `catalyst_balancer.go`, `events.go:105-116` | State: the maps `Nodes` (name → dtsc tag), `NodeMetrics`, `Streams`, `IngestStreams` as functions, `now`, the event handlers `hdl`, and the history variables `media`, `out` used by the properties. |
| `LiveTrackList` | `live_tracklist.go`, `trigger_workaround.go` | State: the cache entry, Mist's tracks (`mist`, `ended`, `pending`), the pushes that started (`pushed`), the stored playlist (`uploaded`, `playlist`), whether the process runs (`up`), each call `hdl[h]` (pc, tracks left to push, list built), and the workaround `wk` (pc, loop counter, tracks). |
| `FileDecrypt` | `decrypt.go` | One `DecryptFile` call on a file drawn from good, corrupt, ragged and bad-key files. |
| `MCCataBalancer`, `MCPushBalancer`, `MCLiveTrackList` | — | Small instances for TLC. |
| `SelectionOpsLemmas`, `SelectionProofs`, `CataBalancerProofs`, `PushBalancerProofs`, `LiveTrackListProofs`, `FileDecryptProofs` | — | TLAPS proofs. |

### CataBalancer actions

A request is split at the points where it releases the processor (the
store query) or where the code branches on an error:

* `GetBestNodeStart` and `MistUtilLoadSourceStart` begin a call.
* `RefreshNodes` and `RefreshNodesFail` model `part_002:313-370`:
  * an error aborts the call;
  * otherwise the fresh rows go into the snapshot, last scanned row wins
    (350-352), with streams stamped with the refresh time (354-362).
* `GetBestNodeParseFail`, `GetBestNodeScore` and `GetBestNodeSelect`
  model 151-191, split where `createScoredNodes` releases the read lock:
  * coordinates are parsed after the refresh (`GetBestNodeParseFail`);
  * `GetBestNodeScore` is `createScoredNodes` (193-222) under the read
    lock: it re-checks staleness at that instant (202) and copies out
    each candidate's name, load score and whether it holds the stream;
  * `GetBestNodeSelect` runs `SelectNode` on those copies after the
    unlock (176-190), so `UpdateMembers` and the clock may move between
    the two steps; with no candidate, the balancer picks itself.
* `MistUtilLoadSourceLookup` models 381-400.
* `UpdateMembers` models 131-149. Serf lists each member once with its
  tags, and only members tagged `node=media` are kept.
* `PublishNodeStats` (the node's own writer) and `Tick` stand for what is
  outside the package, and are modelled from the spec.

### PushBalancer actions

* `UpdateMembers` models 92-126. The dtsc tag may be missing when
  `MissingDtsc` is TRUE, and the `node` tag is any value of `MemberTags`.
* `ReceiveNodeUpdate` models `UpdateNodes` (285-295): metrics are stored
  only for a registered node.
* `UpdateStreams` models one `UpdateStreams` call (299-321). It ignores an
  unknown node, prunes both stream maps of the node (`removeOldStreams`)
  and records the stream stamped `now`.
* `GetBestNodeParseFail` and `GetBestNodeSelect` model 128-160.
* `MistUtilLoadSource` models 274-283.

### LiveTrackList actions

A call is three steps, split where other goroutines can run in between:

* `Receive(h)` is a call arriving at an idle handler, from one of three
  sources:
  * Mist's pending trigger;
  * the workaround's POST;
  * a stray caller: one line, a name that is not a transcode stream, or
    JSON that does not decode. The route has no auth, so any client can
    call it.

  `Handle` is the checks of lines 100-152, in code order:
  * a one-line payload panics at `lines[1]` (net/http recovers);
  * a wrong name or no cache entry gets a 400 or a 500;
  * `null` calls `DeleteStream`, which may fail;
  * bad JSON gets a 500;
  * a bad `UploadDir` hits `log.Fatal`, which stops the process
    (`up` becomes FALSE);
  * otherwise the call goes on to push its video tracks.
* `Push(h)` is one loop iteration (174-193). `PushStart` succeeds: the
  destination is cached and the track joins the list. Or, with faults,
  it fails and is only logged.
* `Upload(h)` is the sort, `createPlaylist` and `uploadPlaylist`:
  * `SortedDesc` is any order `sort.Sort` (not stable) may leave;
  * a `ParseOSURL` error panics on the nil driver, and a `SaveData` error
    is logged; in both cases nothing is stored.
* `Poll` and `WorkaroundPostFails` are the workaround's loop. Its tracks
  are built without `Bps` (`WorkaroundTracks`).
* `MistAddTrack` and `MistEnd` are Mist, outside the repository. Mist owes
  one trigger call after each change (`pending`).

The data is abstracted:
* a track is a record of type, bitrate, width, height and index;
* a dirPath is `<<w, h>>` and a push destination `<<w, h, idx>>`;
* a playlist is the sequence of entries (bandwidth, resolution, path).

## Runs

Fairness is assumed only in `livetracklist_live`:
* weak fairness of `Push(h)`, `Upload(h)` and `Poll`: a request goroutine
  and the workaround goroutine keep running once started;
* strong fairness of `ServeWorkaround`: net/http serves each connection in
  a goroutine of its own, so the workaround's POST never waits for a free
  handler. Only the model's bound on `Handlers` makes it intermittently
  enabled;
* Mist's actions and stray callers are left unfair: Mist may never fire
  the trigger, which is why the workaround exists.

Every other run checks safety only.

| Run | Checks | Result |
|---|---|---|
| `catabalancer` (`MCCataBalancer.cfg`) | `LoadSourceSound` | pass, about 2.0M distinct states |
| `selection` (`SelectionCheck.cfg`) | `TierPreference` | pass, about 450k states |
| `push` (`MCPushBalancer.cfg`) | `NoLingeringEntries` | pass, about 326k distinct states |
| `refresh_latest` | `RefreshKeepsLatest` | violated |
| `ingest_stale` | `IngestStaleByPublishTime` | violated |
| `push_media_only` | `PushOnlyMediaSelected` | violated |
| `push_has_stream` | `PushHasStreamByPlaybackID` | violated |
| `livetracklist` (`MCLiveTrackList.cfg`) | `PlaylistOnlyPushed` | pass, about 74k distinct states |
| `livetracklist_live` (`MCLiveTrackList_Live.cfg`) | `MetadataYieldsPlaylist` | pass, about 29k states |
| `final_playlist` | `FinalPlaylistComplete` | violated |
| `decrypt` (`FileDecrypt.cfg`) | `RoundTrip` | pass, 884 states |
| `unpad_invalid` | `UnpadRejectsBadPadding` | violated |

### What the passing runs check

* **`LoadSourceSound`**:
  * `MistUtilLoadSource` answers `dtsc://n` only for a registered `n` that
    published the stream as an ingest stream in a row fresh at refresh
    time;
  * it answers "not found, not stale" only when no registered node's
    snapshot lists the stream.

  This holds however long the query took, whatever `UpdateMembers` did
  meanwhile, and whichever row of a node the scan kept.
* **`TierPreference`**: the node `SelectNode` picks honours the three
  tiers.
* **`NoLingeringEntries`**: the push balancer never holds metrics or
  streams of a node outside the registry, although a handler's
  `UpdateNodes` and each of its `UpdateStreams` take the lock separately
  and the node may leave the registry between them. A late write of a
  handler whose node left and rejoined in between is stamped at write
  time and looks like a fresh one; neither the code nor the spec tells
  them apart, so the property does not either.

* **`PlaylistOnlyPushed`**: the stored master playlist never lists a
  rendition whose `PushStart` failed. This holds with two concurrent
  calls, Mist's calls, the workaround and stray callers, and with failures
  of `PushStart`, `DeleteStream`, storage and HTTP.
* **`MetadataYieldsPlaylist`**: once Mist has a video track while the
  workaround is still polling, a non-empty master playlist is eventually
  stored. This holds even if Mist never fires the trigger itself.
* **`RoundTrip`**: a file encrypted with the right key decrypts to its
  message, whenever the output can be written.

### Bounds

* **`catabalancer`**: two nodes (symmetric), one request, one playback ID,
  two metric values, three event shapes, a clock to 2, `MetricTimeout` 2,
  `IngestStreamTimeout` 1, at most two rows.
  * The timeouts make a row go stale while a request is between refresh
    and decision.
  * The two metric values hit the load-score boundaries (50% for score 2,
    86% bandwidth for score 0).
  * Two rows let a node have an older and a newer row at once.
* **`push`**: two nodes, two handlers (symmetric), a clock to 2,
  `UpdateEvery` 2.
  * Two handlers let one event's streams interleave with another event's
    and with `UpdateMembers`.
  * The clock makes stream entries go stale, so `removeOldStreams` prunes.
* **`selection`**: up to four candidates with every score combination.
  With four candidates, tier 3 truncates to three.
* **`livetracklist`**: two handlers (symmetric), three tracks (two video
  renditions of different bitrate and size, one audio), every cache state,
  faults on, and two polls of the workaround.
  * Two handlers let two calls overlap, and let Mist's call race the
    workaround's.
  * Two polls let the workaround poll once without metadata and then post.
* **`decrypt`**: block size 3, bytes 0..4, messages of up to 3 bytes.
  * The messages cover a full padding block (`Len(m) = 0` or 3) as well
    as partial ones.
  * Corrupt files of 0 and 3 bytes hit both the empty-input panic and
    every last-byte value.

Each property of a passing run is broken by a mutant of the code it is
about (PROJECT.json, `mutants`):

* descending sort → ascending;
* playback streams taken as ingest;
* no registry check in `UpdateStreams`;
* a failed `PushStart` still adding the track to the list;
* the workaround body without its newline (one line: the handler panics,
  so no playlist is stored);
* `pkcs7Unpad` rejecting a pad length equal to the data's length.

## Findings

Each violation run shows a place where the code does not do what the spec
says:

1. **`RefreshKeepsLatest`** (`part_002:350`): the snapshot keeps the last
   row scanned, not the newest.
2. **`IngestStaleByPublishTime`** (`part_002:361`, `:391`): the ingest
   stale check measures time since the refresh, because the refresh
   re-stamps the streams with `time.Now()`.
3. **`PushOnlyMediaSelected`** (`catalyst_balancer.go:99`): non-media
   members are selectable.
4. **`PushHasStreamByPlaybackID`** (`catalyst_balancer.go:185`): the bare
   playback ID is looked up in a map keyed by full stream names, so stream
   affinity is lost.
5. **`FinalPlaylistComplete`** (`live_tracklist.go:201`): each call
   uploads a playlist of its own payload's tracks, and the last upload
   wins. A call holding an older track list (or whose pushes failed) can
   replace a complete playlist with a shorter one.
6. **`UnpadRejectsBadPadding`** (`decrypt.go:19`): `pkcs7Unpad` only
    checks that the pad length is not larger than the data. Padding 0,
    padding larger than a block and unequal pad bytes are accepted, and
    garbage is written out.

Other divergences are visible in the modelled code but are not stated as
runs. They are listed as hazards in PROJECT.json:

* `part_002:152`: `GetBestNode` refreshes from the store before it parses
  the coordinates. A malformed coordinate therefore costs a store round
  trip, and it surfaces as the store error when the store fails.
* `catalyst_balancer.go:279`: the in-memory `MistUtilLoadSource` returns
  the member's `dtsc` tag, which is empty when the tag is missing, instead
  of `dtsc://<nodeName>`.
* `live_tracklist.go:154`: `dirPath` is built from the stream name, width
  and height only. Two video tracks of one resolution are pushed to the
  same path.
* `trigger_workaround.go:51`: the workaround does not copy `Bps`, so a
  playlist written from its call advertises `BANDWIDTH=0`.

## Proofs (TLAPS)

All proofs hold for every value of the constants. Their assumptions are
the named `ASSUME`s:

* `NumNodes > 0` and a finite candidate set (`SelectionCheck`);
* natural-number timeouts and clock bounds (`ConstAssumption`,
  `PushConstAssumption`).

The theorems:

* **`SelectionProofs!TierPreferenceHolds`**: `Spec => []TierPreference`.
  * The inductive invariant is `TypeOK /\ TierPreference`.
  * Lemma `SelectNodeTiers` does the work. For any finite candidate set,
    each node `SelectNode` can return satisfies the tier conditions.
  * It rests on the `SelectionOpsLemmas` facts `SelectNodeInCandidates`,
    `TruncateBound` (truncation returns at most `n` elements) and
    `WeightedTopBound` (a node in the top `n` has fewer than `n` strictly
    better candidates).
* **`CataBalancerProofs!TypeCorrect`**: `Spec => []TypeOK` for the
  store-backed balancer. The property is inductive as it stands, with one
  step per action.
* **`CataBalancerProofs!LoadSourceSoundHolds`**: `Spec => LoadSourceSound`,
  an action property.
  * The property speaks of rows a request read earlier, so it needs a
    state invariant about the snapshot, `SnapFromRows`. It says every
    snapshot entry for node `n` is a stored row of `n`, fresh at the
    request's refresh time `tr`. TLC checked it as an invariant of the
    `catabalancer` instance before it was proved.
  * The invariant is `IInv == TypeOK /\ SnapFromRows`, proved by
    `SnapInvariant`. It holds because rows are never removed, and
    `RefreshNodes` writes `snap` and `tr` together, from the rows fresh at
    `now`.
  * `StartFields`, `RefreshFields`, `ScoreFields` and `ReturnFields` state which fields
    of `req[r]` each kind of step changes, and that no other request
    changes.
  * `FinishStep` says a call returns from pc `"score"` only through
    `GetBestNodeParseFail` or `MistUtilLoadSourceLookup`
    (`GetBestNode` goes on to `"select"`).
  * The property then follows from `IInv` one step at a time
    (`LoadSourceAnswerSoundStep`) and PTL.
* **`PushBalancerProofs!NoLingeringHolds`**: `Spec => []NoLingeringEntries`.
  * The inductive invariant is `IInv == TypeOK /\ NoLingeringEntries`:
    the maps must be functions of stream maps for the domain reasoning.
  * Lemmas: `PruneNodeFacts` (`removeOldStreams` only deletes entries and
    keeps the node's key) and `AddStreamFacts` (recording a stream adds
    exactly the node to the map's domain).
  * One lemma per handler: `UpdateStreamsKeeps`, `UpdateMembersKeeps`,
    `ReceiveNodeUpdateKeeps`, `RequestStepKeeps`.

* **`FileDecryptProofs!RoundTripHolds`**: `Spec => []RoundTrip`, for
  every block size in `1..MaxByte`, every byte range and every message
  length.
  * `PadWholeBlocks`: message plus padding is a multiple of the block
    size.
  * `UnpadPad`: `pkcs7Unpad(Pad(m))` is `m`.
  * `DecryptWellFormed`: a well-formed file passes every check of
    `DecryptFile`.
  * The inductive invariant `IInv` says two things. A file with an origin
    is well formed (`WellFormed`). Any result is the one `DecryptFile`
    computes.
* **`LiveTrackListProofs!PlaylistOnlyPushedHolds`**:
  `Spec => []PlaylistOnlyPushed`, for any set of handlers and tracks,
  with or without faults.
  * The property alone is not inductive, because `Upload` stores a
    sorting of a call's list. The invariant adds `ListsPushed` (every
    entry of every call's list has a started push with its path) and
    `HdlShape` (each `hdl[h]` is a record).
  * There is one lemma per action: `HandleKeeps`, `ReceiveKeeps`,
    `PushKeeps`, `UploadKeeps`, `UntouchedKeeps`.

### Checked by TLC only

* `MetadataYieldsPlaylist`, a liveness property. It rests on fairness
  and on `ENABLED`, which the proof system cannot reason about.
* Every expected violation.

The proof system cannot handle three things, so they stay with TLC:

* liveness under fairness, and `ENABLED`;
* induction over data (what a recursive definition computes for every
  input);
* modules that use RECURSIVE operators. None is used here.

## Not modelled, and why

* **The event codec** (`SetStreams`/`GetStreams`): its round-trip fails
  for a list holding one empty ID, and for IDs containing `|` or `~`.
* **The VOD transcode pipeline** (`part_003`): its workers update
  `segmentsCount` and `transcodedStats` without a lock.
* **The serf handlers other than NodeUpdateEvent** (`events.go:45-104`):
  they validate a payload and hand it to the cluster or to the Mist API
  connector. Both are outside `src/`, and no state of this repository
  changes.
* **Wiring**: `http-server.go`, the router, the Mist client stub, uploads,
  thumbnails and the Dockerfile.
  * There is no state of their own that matters here.
  * The unauthenticated trigger route is reflected in `LiveTrackList` by
    stray callers.
  * The shared package-level backoff in thumbnails is listed as a hazard.
* **In `LiveTrackList`**:
  * A call's list is a set of entries. Two tracks with the same bitrate
    and resolution give one playlist line, not two. The properties
    compare paths, which such tracks share anyway.
  * The process is not restarted after `log.Fatal`.
* **In `FileDecrypt`**: the cryptography itself. A wrong key is modelled
  as corrupt plaintext of whole blocks.

## Plan for later work

* The codec module, with a round-trip check.
* The transcode counter race.
* Liveness of balancer requests when the store eventually answers.
* What `GetBestNode` promises at return time: the node it picked from
  the copies may have left the registry after the read lock was
  released (`part_002:177`); neither the spec nor a comment says whether
  that is allowed.
