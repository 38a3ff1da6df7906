---------------------------- MODULE PushBalancer ----------------------------
(***************************************************************************)
(* The in-memory catalyst balancer (src/balancer/catabalancer/             *)
(* catalyst_balancer.go), fed by the NodeUpdateEvent branch of             *)
(* ReceiveUserEvent (src/handlers/events.go:81-121).                       *)
(*                                                                         *)
(* State, all guarded by the one mutex nodesLock:                          *)
(*   Nodes         - the registry, name -> DTSC tag;                       *)
(*   NodeMetrics   - name -> metrics and the time they were received;      *)
(*   Streams       - name -> (stream name -> time received);               *)
(*   IngestStreams - name -> (stream name -> time received).               *)
(* A Go map is a function whose DOMAIN is the set of keys present.         *)
(* Each ReceiveUserEvent handler h is an HTTP handler of its own: it calls *)
(* UpdateNodes, then UpdateStreams once per stream of the event, taking    *)
(* and releasing the lock each time, so other handlers, UpdateMembers and  *)
(* requests interleave between those calls. GetBestNode and                *)
(* MistUtilLoadSource read the state under the lock in one step.           *)
(***************************************************************************)
EXTENDS Naturals, FiniteSets, Functions, SelectionOps

CONSTANTS
  NodeIds,        \* names of cluster members
  Handlers,       \* concurrent ReceiveUserEvent handlers
  PlaybackIDs,    \* playback IDs of streams
  Prefixes,       \* stream-name prefixes
  NoPrefix,       \* marks a stream name without "prefix+"
  MetricsChoices, \* CPU/RAM/bandwidth percentages a node may report
  EventStreams,   \* stream and ingest-stream sets an event may carry
  MemberTags,     \* values a member's "node" tag may take
  MissingDtsc,    \* whether a member may lack the "dtsc" tag
  UpdateEvery,    \* UpdateEvery, also c.metricTimeout (NewBalancer), in ticks
  MaxTime         \* bound on the clock

\* A stream name is "prefix+playbackID" or a bare playback ID.
StreamName == [prefix : Prefixes \cup {NoPrefix}, id : PlaybackIDs]

ASSUME PushConstAssumption ==
  /\ NodeIds # {}
  /\ MetricsChoices \subseteq [c : Nat, r : Nat, b : Nat]
  /\ EventStreams \subseteq [streams : SUBSET StreamName, ingest : SUBSET StreamName]
  /\ MissingDtsc \in BOOLEAN
  /\ UpdateEvery \in Nat
  /\ MaxTime \in Nat

\* The value of a member's "dtsc" tag: an address naming a node, or the
\* empty string (the empty sequence) when the tag is missing.
DtscAddr(n) == <<"dtsc", n>>
NoTag == <<>>
\* The tags member n may carry.
DtscTagsOf(n) == {DtscAddr(n)} \cup (IF MissingDtsc THEN {NoTag} ELSE {})
DtscTags == {DtscAddr(n) : n \in NodeIds} \cup {NoTag}

VARIABLES
  Nodes, NodeMetrics, Streams, IngestStreams, now,
  hdl,    \* per handler: pc, the event's node, the stream updates left
  media,  \* history: members whose "node" tag was "media" at the last UpdateMembers
  out     \* history: the answer of the last GetBestNode or MistUtilLoadSource

vars == <<Nodes, NodeMetrics, Streams, IngestStreams, now, hdl, media, out>>

-----------------------------------------------------------------------------
(* Helpers translated from the code.                                       *)

isStale(ts, stale) == now - ts >= stale

\* m[k] = v on a Go map.
Put(m, k, v) == [x \in DOMAIN m \cup {k} |-> IF x = k THEN v ELSE m[x]]

\* The empty Go map.
EmptyMap == [x \in {} |-> 0]

\* removeOldStreams: deletes the stale entries of a stream map.
removeOldStreams(ss) == Restrict(ss, {s \in DOMAIN ss : ~isStale(ss[s], UpdateEvery)})

\* removeOldStreams(c.X[nodeName]): a no-op on a nil map.
PruneNode(X, n) == IF n \in DOMAIN X THEN [X EXCEPT ![n] = removeOldStreams(X[n])] ELSE X

\* c.X[nodeName][streamID] = Stream{..., time.Now()}, making the map if nil.
AddStream(X, n, s) == Put(X, n, Put(IF n \in DOMAIN X THEN X[n] ELSE EmptyMap, s, now))

\* createScoredNodes: registered nodes with fresh metrics.
createScoredNodes ==
  {n \in DOMAIN Nodes : n \in DOMAIN NodeMetrics /\ ~isStale(NodeMetrics[n].ts, UpdateEvery)}

\* HasStream(playbackID) on the copy of c.Streams[n]: the map is keyed by
\* the stream name the node sent, looked up with the bare playback ID.
HasStream(n, pid) ==
  LET key == [prefix |-> NoPrefix, id |-> pid] IN
    /\ n \in DOMAIN Streams
    /\ key \in DOMAIN Streams[n]
    /\ ~isStale(Streams[n][key], UpdateEvery)

GetLoadScore(m) ==
  IF m.c > 85 \/ m.b > 85 \/ m.r > 85 THEN 0
  ELSE IF m.c > 50 \/ m.b > 50 \/ m.r > 50 THEN 1
  ELSE 2

-----------------------------------------------------------------------------
(* Actions.                                                                *)

\* UpdateMembers: every member enters the registry with its dtsc tag, and
\* the stream and metric data of nodes no longer present are deleted.
UpdateMembers ==
  \E M \in SUBSET NodeIds :
    \E tag \in [M -> MemberTags] :
      \E dtsc \in {d \in [M -> DtscTags] : \A x \in M : d[x] \in DtscTagsOf(x)} :
        /\ Nodes' = dtsc
        /\ Streams' = Restrict(Streams, DOMAIN Streams \cap M)
        /\ IngestStreams' = Restrict(IngestStreams, DOMAIN IngestStreams \cap M)
        /\ NodeMetrics' = Restrict(NodeMetrics, DOMAIN NodeMetrics \cap M)
        /\ media' = {x \in M : tag[x] = "media"}
        /\ UNCHANGED <<now, hdl, out>>

Tick ==
  /\ now < MaxTime
  /\ now' = now + 1
  /\ UNCHANGED <<Nodes, NodeMetrics, Streams, IngestStreams, hdl, media, out>>

\* ReceiveUserEvent gets a NodeUpdateEvent and calls UpdateNodes: the
\* metrics are stored, stamped time.Now(), when the node is registered.
\* The handler then has one UpdateStreams call left per stream.
ReceiveNodeUpdate(h) ==
  /\ hdl[h].pc = "idle"
  /\ \E n \in NodeIds, m \in MetricsChoices, e \in EventStreams :
       LET todo == (e.streams \X {FALSE}) \cup (e.ingest \X {TRUE}) IN
       /\ NodeMetrics' = IF n \in DOMAIN Nodes
                         THEN Put(NodeMetrics, n, [m |-> m, ts |-> now])
                         ELSE NodeMetrics
       /\ hdl' = [hdl EXCEPT ![h] = [pc |-> IF todo = {} THEN "idle" ELSE "streams",
                                     node |-> n, todo |-> todo]]
  /\ UNCHANGED <<Nodes, Streams, IngestStreams, now, media, out>>

\* Mutant: UpdateStreams without the registry check.
UpdateStreamNoMemberCheck(h, s, isIngest) ==
  LET n == hdl[h].node IN
  /\ IF isIngest
     THEN /\ IngestStreams' = AddStream(PruneNode(IngestStreams, n), n, s)
          /\ Streams' = PruneNode(Streams, n)
     ELSE /\ Streams' = AddStream(PruneNode(Streams, n), n, s)
          /\ IngestStreams' = PruneNode(IngestStreams, n)

\* UpdateStreams(nodeName, streamID, isIngest): ignored for an unknown
\* node; else both stream maps of the node are pruned and the stream is
\* recorded, stamped time.Now().
UpdateStream(h, s, isIngest) ==
  LET n == hdl[h].node IN
  IF n \notin DOMAIN Nodes THEN UNCHANGED <<Streams, IngestStreams>>
  ELSE IF isIngest
       THEN /\ IngestStreams' = AddStream(PruneNode(IngestStreams, n), n, s)
            /\ Streams' = PruneNode(Streams, n)
       ELSE /\ Streams' = AddStream(PruneNode(Streams, n), n, s)
            /\ IngestStreams' = PruneNode(IngestStreams, n)

\* The handler's next UpdateStreams call: the playback streams first, then
\* the ingest streams, each list in any order.
UpdateStreams(h) ==
  /\ hdl[h].pc = "streams"
  /\ \E t \in hdl[h].todo :
       /\ t[2] => \A u \in hdl[h].todo : u[2]
       /\ UpdateStream(h, t[1], t[2])
       /\ hdl' = [hdl EXCEPT ![h].todo = @ \ {t},
                             ![h].pc = IF hdl[h].todo = {t} THEN "idle" ELSE "streams"]
  /\ UNCHANGED <<Nodes, NodeMetrics, now, media, out>>

\* GetBestNode with a malformed lat or lon: an error, before any state is read.
GetBestNodeParseFail ==
  /\ out' = [kind |-> "parseErr"]
  /\ UNCHANGED <<Nodes, NodeMetrics, Streams, IngestStreams, now, hdl, media>>

\* GetBestNode: createScoredNodes under the lock, then SelectNode on the
\* copies; with no candidate the balancer chooses itself. geoScores is not
\* in the sources: any GeoScore in 0..2 per candidate.
GetBestNodeSelect ==
  /\ \E pid \in PlaybackIDs :
       LET C == createScoredNodes
           load == [n \in C |-> GetLoadScore(NodeMetrics[n].m)]
           has == {n \in C : HasStream(n, pid)}
       IN \/ /\ C = {}
             /\ out' = [kind |-> "self"]
          \/ /\ C # {}
             /\ \E geo \in [C -> 0..2] :
                  \E n \in SelectNode(C, geo, load, has, 3) :
                    out' = [kind |-> "node", node |-> n, pid |-> pid, has |-> has]
  /\ UNCHANGED <<Nodes, NodeMetrics, Streams, IngestStreams, now, hdl, media>>

\* MistUtilLoadSource: the DTSC tag of a registered node, met in map
\* order, with a fresh entry for the ingest stream; else an error.
MistUtilLoadSource ==
  /\ \E s \in StreamName :
       LET holders == {n \in DOMAIN Nodes :
                         /\ n \in DOMAIN IngestStreams
                         /\ s \in DOMAIN IngestStreams[n]
                         /\ ~isStale(IngestStreams[n][s], UpdateEvery)}
       IN \/ /\ holders = {}
             /\ out' = [kind |-> "notFound"]
          \/ \E n \in holders :
               out' = [kind |-> "dtsc", node |-> n, addr |-> Nodes[n]]
  /\ UNCHANGED <<Nodes, NodeMetrics, Streams, IngestStreams, now, hdl, media>>

-----------------------------------------------------------------------------
Init ==
  /\ Nodes = EmptyMap
  /\ NodeMetrics = EmptyMap
  /\ Streams = EmptyMap
  /\ IngestStreams = EmptyMap
  /\ now = 0
  /\ hdl = [h \in Handlers |-> [pc |-> "idle", node |-> CHOOSE n \in NodeIds : TRUE,
                                todo |-> {}]]
  /\ media = {}
  /\ out = [kind |-> "none"]

Next ==
  \/ UpdateMembers
  \/ Tick
  \/ \E h \in Handlers : ReceiveNodeUpdate(h) \/ UpdateStreams(h)
  \/ GetBestNodeParseFail
  \/ GetBestNodeSelect
  \/ MistUtilLoadSource

Spec == Init /\ [][Next]_vars

-----------------------------------------------------------------------------
(* Properties.                                                             *)

Metric == [m : MetricsChoices, ts : 0..MaxTime]

\* A stream map: stream name -> time received.
IsStreamMap(ss) == ss \in [DOMAIN ss -> 0..MaxTime] /\ DOMAIN ss \subseteq StreamName

TypeOK ==
  /\ Nodes \in [DOMAIN Nodes -> DtscTags] /\ DOMAIN Nodes \subseteq NodeIds
  /\ NodeMetrics \in [DOMAIN NodeMetrics -> Metric]
  /\ Streams = [n \in DOMAIN Streams |-> Streams[n]]
  /\ IngestStreams = [n \in DOMAIN IngestStreams |-> IngestStreams[n]]
  /\ \A n \in DOMAIN Streams : IsStreamMap(Streams[n])
  /\ \A n \in DOMAIN IngestStreams : IsStreamMap(IngestStreams[n])
  /\ now \in 0..MaxTime
  /\ media \subseteq DOMAIN Nodes
  /\ hdl \in [Handlers -> [pc : {"idle", "streams"}, node : NodeIds,
                           todo : SUBSET (StreamName \X BOOLEAN)]]

\* The balancer holds metrics and stream entries only for registered
\* nodes: UpdateMembers deletes the data of removed nodes, and UpdateNodes
\* and UpdateStreams re-check membership under the lock, even when the
\* registry changed since the handler received its event and the node was
\* removed in between (catalyst_balancer.go:105-122, 289-292, 302-305;
\* events.go:110-116). A write of a handler that received its event before
\* the node was removed and re-added is stamped at write time and is not
\* told apart from a fresh one: neither the code nor the spec separates
\* them.
NoLingeringEntries ==
  /\ DOMAIN NodeMetrics \subseteq DOMAIN Nodes
  /\ DOMAIN Streams \subseteq DOMAIN Nodes
  /\ DOMAIN IngestStreams \subseteq DOMAIN Nodes

\* A step of GetBestNode or MistUtilLoadSource: only the answer changes.
RequestStep ==
  UNCHANGED <<Nodes, NodeMetrics, Streams, IngestStreams, now, hdl, media>>

-----------------------------------------------------------------------------
(* What the spec says of the balancer and this variant does not do         *)
(* (checked as expected violations).                                       *)

\* Spec 4.1: only members tagged as media-serving nodes are eligible.
\* GetBestNode never answers a member whose "node" tag is not "media"
\* (UpdateMembers, catalyst_balancer.go:97-103, keeps every member).
PushOnlyMediaSelected ==
  [][RequestStep /\ out'.kind = "node" => out'.node \in media]_vars

\* Spec 4.2/4.3: stream names "prefix+playbackID" are matched by their
\* playback ID, so the candidates that HasStream the requested playback ID
\* are those with a fresh stream entry of that ID, prefixed or not
\* (HasStream, catalyst_balancer.go:184-188, looks the bare ID up in a map
\* keyed by the names UpdateStreams stored, events.go:111-113).
PushHasStreamByPlaybackID ==
  [][RequestStep /\ out'.kind = "node" =>
       out'.has = {n \in createScoredNodes \cap DOMAIN Streams :
                     \E s \in DOMAIN Streams[n] :
                       s.id = out'.pid /\ ~isStale(Streams[n][s], UpdateEvery)}]_vars

=============================================================================
