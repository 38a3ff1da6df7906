---------------------------- MODULE CataBalancer ----------------------------
(***************************************************************************)
(* The store-backed catalyst load balancer (src/unnamed/part_002, package  *)
(* catabalancer).                                                          *)
(*                                                                         *)
(* Shared state of one balancer instance:                                  *)
(*   Nodes  - the registry, replaced wholesale by UpdateMembers under the  *)
(*            write lock and read under the read lock;                     *)
(*   rows   - the node_stats table, one row per published NodeUpdateEvent  *)
(*            (written by the nodes themselves, outside this package);     *)
(*   now    - the wall clock read by isStale.                              *)
(* Each concurrent request r runs GetBestNode or MistUtilLoadSource as     *)
(* several steps: RefreshNodes reads the table without any lock (a         *)
(* blocking query during which time passes and the registry may change),   *)
(* then the registry is read under the read lock and the scored nodes are *)
(* copied out; a node is chosen from the copies after the unlock.          *)
(***************************************************************************)
EXTENDS Naturals, FiniteSets, SelectionOps

CONSTANTS
  NodeIds,        \* names of cluster members (model values)
  Requests,       \* concurrent request handlers
  PlaybackIDs,    \* playback IDs of streams
  Prefixes,       \* stream-name prefixes ("video", "vod", ... or none)
  NoPrefix,       \* marks a stream name published without "prefix+"
  MetricsChoices, \* CPU/RAM/bandwidth percentages a node may publish
  EventStreams,   \* stream and ingest-stream sets a node may publish at once
  MetricTimeout,  \* c.metricTimeout, in clock ticks
  IngestStreamTimeout, \* c.ingestStreamTimeout, in clock ticks
  MaxTime,        \* bound on the clock
  MaxRows         \* bound on the number of rows in node_stats

\* A stream name is "prefix+playbackID" or a bare playback ID.
StreamName == [prefix : Prefixes \cup {NoPrefix}, id : PlaybackIDs]

ASSUME ConstAssumption ==
  /\ PlaybackIDs # {}
  /\ MetricsChoices \subseteq [c : Nat, r : Nat, b : Nat]
  /\ EventStreams \subseteq [streams : SUBSET StreamName, ingest : SUBSET StreamName]
  /\ MetricTimeout \in Nat
  /\ IngestStreamTimeout \in Nat
  /\ MaxTime \in Nat
  /\ MaxRows \in Nat

\* Max number of nodes selectTopNodes returns (numNodes, passed as 3 by SelectNode).
NumTopNodes == 3

\* A row of node_stats: the decoded NodeUpdateEvent and the metrics timestamp.
Row == [node : NodeIds, m : MetricsChoices, ts : 0..MaxTime,
        streams : SUBSET StreamName, ingest : SUBSET StreamName]

\* Outcome of the last call a request made.
Outcome ==
  [kind : {"none", "storeErr", "parseErr", "self"}]
  \cup [kind : {"node"}, node : NodeIds]
  \cup [kind : {"dtsc"}, node : NodeIds]
  \cup [kind : {"notFound"}, stale : BOOLEAN]

\* A stats snapshot: node name -> the row RefreshNodes kept for it.
Snapshot == UNION {[D -> Row] : D \in SUBSET NodeIds}

\* The load scores of a set of scored nodes.
LoadMap == UNION {[D -> 0..2] : D \in SUBSET NodeIds}

\* Local state of a request: its program point, the operation and its
\* argument, the stats snapshot RefreshNodes returned and when, the scored
\* nodes createScoredNodes copied out (names, load scores, and those
\* holding the stream), and the outcome.
ReqOK(q) ==
  q \in [pc : {"idle", "refresh", "score", "select"},
         op : {"GetBestNode", "MistUtilLoadSource"},
         pid : PlaybackIDs, coordsOk : BOOLEAN, stream : StreamName,
         snap : Snapshot, tr : 0..MaxTime,
         cands : SUBSET NodeIds, load : LoadMap, has : SUBSET NodeIds,
         out : Outcome]

VARIABLES Nodes, rows, now, req

vars == <<Nodes, rows, now, req>>

-----------------------------------------------------------------------------
(* Helpers translated from the code.                                       *)

\* isStale: time.Since(timestamp) >= stale.
isStale(ts, stale) == now - ts >= stale

\* getPlaybackID: the part after "prefix+", or the whole name.
getPlaybackID(s) == s.id

\* GetLoadScore on a node's metrics.
GetLoadScore(m) ==
  IF m.c > 85 \/ m.b > 85 \/ m.r > 85 THEN 0
  ELSE IF m.c > 50 \/ m.b > 50 \/ m.r > 50 THEN 1
  ELSE 2

\* The playback-keyed stream map RefreshNodes builds from a row (ingest
\* streams are entered in it too) and the ingest map, keyed by full name.
RowStreams(row) == {getPlaybackID(s) : s \in row.streams \cup row.ingest}
\* Mutant: the ingest lookup made in the playback-keyed map, where only a
\* bare name equal to a playback ID matches.
RowIngestStreamsInPlayback(row) ==
  {s \in StreamName : s.prefix = NoPrefix /\ s.id \in RowStreams(row)}
RowIngestStreams(row) == row.ingest

-----------------------------------------------------------------------------
(* Scoring a request's snapshot against the registry.                      *)

\* createScoredNodes: registry members with fresh metrics in the snapshot.
createScoredNodes(r) ==
  {n \in Nodes \cap DOMAIN req[r].snap :
     ~isStale(req[r].snap[n].ts, MetricTimeout)}

\* The scored node's stream copy: entries stamped at refresh time tr are
\* dropped once stale.
ScoredStreams(r, n) ==
  IF isStale(req[r].tr, MetricTimeout) THEN {} ELSE RowStreams(req[r].snap[n])

HasStream(r, n) == req[r].pid \in ScoredStreams(r, n)

Load(r, n) == GetLoadScore(req[r].snap[n].m)

-----------------------------------------------------------------------------
(* Actions.                                                                *)

\* UpdateMembers: the registry becomes the members tagged node=media.
\* Each member M has one value of its "node" tag.
UpdateMembers ==
  \E M \in SUBSET NodeIds :
    \E tag \in [M -> {"media", "other"}] :
      /\ Nodes' = {x \in M : tag[x] = "media"}
      /\ UNCHANGED <<rows, now, req>>

\* A node publishes its state as a new row of node_stats (the writer is
\* outside this package); its metrics carry the writer's clock.
PublishNodeStats ==
  /\ Cardinality(rows) < MaxRows
  /\ \E n \in NodeIds, m \in MetricsChoices, e \in EventStreams :
       rows' = rows \cup {[node |-> n, m |-> m, ts |-> now,
                           streams |-> e.streams, ingest |-> e.ingest]}
  /\ UNCHANGED <<Nodes, now, req>>

Tick ==
  /\ now < MaxTime
  /\ now' = now + 1
  /\ UNCHANGED <<Nodes, rows, req>>

\* A request enters GetBestNode with a playback ID and coordinates that
\* parse or not.
GetBestNodeStart(r) ==
  /\ req[r].pc = "idle"
  /\ \E pid \in PlaybackIDs, ok \in BOOLEAN :
       req' = [req EXCEPT ![r].pc = "refresh", ![r].op = "GetBestNode",
                          ![r].pid = pid, ![r].coordsOk = ok]
  /\ UNCHANGED <<Nodes, rows, now>>

MistUtilLoadSourceStart(r) ==
  /\ req[r].pc = "idle"
  /\ \E s \in StreamName :
       req' = [req EXCEPT ![r].pc = "refresh", ![r].op = "MistUtilLoadSource",
                          ![r].stream = s]
  /\ UNCHANGED <<Nodes, rows, now>>

\* RefreshNodes succeeds: rows are scanned in an unspecified order, stale
\* ones skipped, and for each node the last fresh row scanned overwrites
\* the earlier ones; every stream entry is stamped with time.Now().
RefreshNodes(r) ==
  /\ req[r].pc = "refresh"
  /\ LET fresh == {row \in rows : ~isStale(row.ts, MetricTimeout)}
         D == {row.node : row \in fresh}
     IN \E snap \in [D -> fresh] :
          /\ \A n \in D : snap[n].node = n
          /\ req' = [req EXCEPT ![r].pc = "score", ![r].snap = snap,
                                ![r].tr = now]
  /\ UNCHANGED <<Nodes, rows, now>>

\* RefreshNodes fails (query, scan or unmarshal error): the call returns
\* the wrapped error.
RefreshNodesFail(r) ==
  /\ req[r].pc = "refresh"
  /\ req' = [req EXCEPT ![r].pc = "idle", ![r].out = [kind |-> "storeErr"]]
  /\ UNCHANGED <<Nodes, rows, now>>

\* GetBestNode after the refresh: a malformed lat or lon is an error.
GetBestNodeParseFail(r) ==
  /\ req[r].pc = "score"
  /\ req[r].op = "GetBestNode"
  /\ ~req[r].coordsOk
  /\ req' = [req EXCEPT ![r].pc = "idle", ![r].out = [kind |-> "parseErr"]]
  /\ UNCHANGED <<Nodes, rows, now>>

\* GetBestNode calls createScoredNodes (part_002:174, 193-222): under the
\* read lock, the registered nodes with fresh metrics in the snapshot are
\* copied out with their load score and whether their stream copy holds
\* the playback ID. The lock is released when it returns.
GetBestNodeScore(r) ==
  /\ req[r].pc = "score"
  /\ req[r].op = "GetBestNode"
  /\ req[r].coordsOk
  /\ LET C == createScoredNodes(r) IN
       req' = [req EXCEPT ![r].pc = "select", ![r].cands = C,
                          ![r].load = [n \in C |-> Load(r, n)],
                          ![r].has = {n \in C : HasStream(r, n)}]
  /\ UNCHANGED <<Nodes, rows, now>>

\* After the unlock, SelectNode picks one of the top scored nodes from the
\* copies (part_002:175-190); with no candidate GetBestNode chooses itself.
\* geoScores is not in the sources: any GeoScore in 0..2 per candidate.
GetBestNodeSelect(r) ==
  /\ req[r].pc = "select"
  /\ LET C == req[r].cands IN
       \/ /\ C = {}
          /\ req' = [req EXCEPT ![r].pc = "idle", ![r].out = [kind |-> "self"]]
       \/ /\ C # {}
          /\ \E geo \in [C -> 0..2] :
               \E n \in SelectNode(C, geo, req[r].load, req[r].has, NumTopNodes) :
                 req' = [req EXCEPT ![r].pc = "idle",
                                    ![r].out = [kind |-> "node", node |-> n]]
  /\ UNCHANGED <<Nodes, rows, now>>

\* MistUtilLoadSource after the refresh: walks the registry in map order;
\* the first node whose snapshot has the ingest stream answers, with an
\* error when that entry is stale.
MistUtilLoadSourceLookup(r) ==
  /\ req[r].pc = "score"
  /\ req[r].op = "MistUtilLoadSource"
  /\ LET holders == {n \in Nodes \cap DOMAIN req[r].snap :
                       req[r].stream \in RowIngestStreams(req[r].snap[n])}
         result ==
           IF holders = {} THEN {[kind |-> "notFound", stale |-> FALSE]}
           ELSE IF isStale(req[r].tr, IngestStreamTimeout)
           THEN {[kind |-> "notFound", stale |-> TRUE]}
           ELSE {[kind |-> "dtsc", node |-> n] : n \in holders}
     IN \E o \in result :
          req' = [req EXCEPT ![r].pc = "idle", ![r].out = o]
  /\ UNCHANGED <<Nodes, rows, now>>

-----------------------------------------------------------------------------
InitReq ==
  [pc |-> "idle", op |-> "GetBestNode", pid |-> CHOOSE p \in PlaybackIDs : TRUE,
   coordsOk |-> TRUE, stream |-> CHOOSE s \in StreamName : TRUE,
   snap |-> <<>>, tr |-> 0, cands |-> {}, load |-> <<>>, has |-> {},
   out |-> [kind |-> "none"]]

Init ==
  /\ Nodes = {}
  /\ rows = {}
  /\ now = 0
  /\ req = [r \in Requests |-> InitReq]

Next ==
  \/ UpdateMembers
  \/ PublishNodeStats
  \/ Tick
  \/ \E r \in Requests :
       \/ GetBestNodeStart(r)
       \/ MistUtilLoadSourceStart(r)
       \/ RefreshNodes(r)
       \/ RefreshNodesFail(r)
       \/ GetBestNodeParseFail(r)
       \/ GetBestNodeScore(r)
       \/ GetBestNodeSelect(r)
       \/ MistUtilLoadSourceLookup(r)

Spec == Init /\ [][Next]_vars

-----------------------------------------------------------------------------
(* Properties.                                                             *)

TypeOK ==
  /\ Nodes \subseteq NodeIds
  /\ rows \subseteq Row
  /\ now \in 0..MaxTime
  /\ DOMAIN req = Requests
  /\ \A r \in Requests : ReqOK(req[r])

\* Request r finishes a call in this step with outcome kind k.
Finishes(r, k) ==
  /\ req[r].pc = "score"
  /\ req'[r].pc = "idle"
  /\ req'[r].out.kind = k

\* MistUtilLoadSource (part_002:381-400) answers dtsc://n only for a
\* registered n that published the stream as an ingest stream in a row
\* fresh at refresh time, and answers "not found, stale: false" only when
\* no registered node's snapshot lists it as ingest.
LoadSourceAnswerSound(r) ==
  /\ Finishes(r, "dtsc") =>
       LET n == req'[r].out.node IN
         /\ n \in Nodes
         /\ \E row \in rows :
              /\ row.node = n
              /\ req[r].stream \in row.ingest
              /\ req[r].tr - row.ts < MetricTimeout
  /\ (Finishes(r, "notFound") /\ ~req'[r].out.stale) =>
       \A n \in Nodes \cap DOMAIN req[r].snap :
         req[r].stream \notin req[r].snap[n].ingest
LoadSourceSound == [][\A r \in Requests : LoadSourceAnswerSound(r)]_vars

-----------------------------------------------------------------------------
(* What the spec says of the code and the code does not do (checked as    *)
(* expected violations).                                                   *)

\* Spec section 5: "most recent write wins" per node. Each snapshot entry
\* RefreshNodes builds (part_002:350-352) should be the newest row of its
\* node among the fresh rows it scanned.
RefreshKeepsLatest ==
  [][\A r \in Requests :
       (req[r].pc = "refresh" /\ req'[r].pc = "score") =>
         \A n \in DOMAIN req'[r].snap, row \in rows :
           (row.node = n /\ ~isStale(row.ts, MetricTimeout))
             => row.ts <= req'[r].snap[n].ts]_vars

\* Spec section 8: MistUtilLoadSource for a stream present only in a
\* snapshot timestamped older than ingestStreamTimeout returns a "stale"
\* error, not a success (part_002:389-397).
IngestStaleByPublishTime ==
  [][\A r \in Requests :
       Finishes(r, "dtsc") =>
         ~isStale(req[r].snap[req'[r].out.node].ts, IngestStreamTimeout)]_vars

=============================================================================
