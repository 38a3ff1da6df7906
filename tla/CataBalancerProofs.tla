------------------------- MODULE CataBalancerProofs -------------------------
(***************************************************************************)
(* Proofs about CataBalancer for every value of its constants.             *)
(***************************************************************************)
EXTENDS CataBalancer, SelectionOpsLemmas, TLAPS

\* A request state that only changes its pc and outcome keeps its type.
LEMMA FinishTyped ==
  ASSUME NEW q, ReqOK(q), NEW o \in Outcome
  PROVE  ReqOK([q EXCEPT !.pc = "idle", !.out = o])
  BY Zenon DEF ReqOK

\* The type invariant is inductive.
THEOREM TypeCorrect == Spec => []TypeOK
  <1>1. Init => TypeOK
    <2> SUFFICES ASSUME Init PROVE TypeOK
      OBVIOUS
    <2>1. ReqOK(InitReq)
      <3>1. (CHOOSE p \in PlaybackIDs : TRUE) \in PlaybackIDs
        BY ConstAssumption
      <3>2. [prefix |-> NoPrefix, id |-> CHOOSE p \in PlaybackIDs : TRUE] \in StreamName
        BY <3>1 DEF StreamName
      <3>3. (CHOOSE s \in StreamName : TRUE) \in StreamName
        BY <3>2
      <3>4. <<>> \in Snapshot
        <4>1. <<>> \in [{} -> Row]
          OBVIOUS
        <4>2. QED
          BY <4>1 DEF Snapshot
      <3>5. [kind |-> "none"] \in Outcome
        BY DEF Outcome
      <3>6. <<>> \in LoadMap
        <4>1. <<>> \in [{} -> 0..2]
          OBVIOUS
        <4>2. QED
          BY <4>1 DEF LoadMap
      <3>7. QED
        BY <3>1, <3>3, <3>4, <3>5, <3>6, ConstAssumption DEF ReqOK, InitReq
    <2>2. QED
      BY <2>1, ConstAssumption DEF Init, TypeOK
  <1>2. TypeOK /\ [Next]_vars => TypeOK'
    <2> SUFFICES ASSUME TypeOK, [Next]_vars PROVE TypeOK'
      OBVIOUS
    <2> USE DEF TypeOK
    <2>1. CASE UpdateMembers
      BY <2>1 DEF UpdateMembers
    <2>2. CASE PublishNodeStats
      <3>1. PICK n \in NodeIds, m \in MetricsChoices, e \in EventStreams :
                 rows' = rows \cup {[node |-> n, m |-> m, ts |-> now,
                                     streams |-> e.streams, ingest |-> e.ingest]}
        BY <2>2 DEF PublishNodeStats
      <3>2. e.streams \in SUBSET StreamName /\ e.ingest \in SUBSET StreamName
        BY ConstAssumption
      <3>3. [node |-> n, m |-> m, ts |-> now,
             streams |-> e.streams, ingest |-> e.ingest] \in Row
        BY <3>2 DEF Row
      <3>4. QED
        BY <2>2, <3>1, <3>3 DEF PublishNodeStats
    <2>3. CASE Tick
      BY <2>3, ConstAssumption DEF Tick
    <2>4. ASSUME NEW r \in Requests, GetBestNodeStart(r) PROVE TypeOK'
      <3>1. PICK pid \in PlaybackIDs, ok \in BOOLEAN :
              req' = [req EXCEPT ![r].pc = "refresh", ![r].op = "GetBestNode",
                                 ![r].pid = pid, ![r].coordsOk = ok]
        BY <2>4 DEF GetBestNodeStart
      <3>2. ReqOK([req[r] EXCEPT !.pc = "refresh", !.op = "GetBestNode",
                                 !.pid = pid, !.coordsOk = ok])
        BY Zenon DEF ReqOK
      <3>3. QED
        BY <3>1, <3>2, <2>4 DEF GetBestNodeStart
    <2>5. ASSUME NEW r \in Requests, MistUtilLoadSourceStart(r) PROVE TypeOK'
      <3>1. PICK st \in StreamName :
              req' = [req EXCEPT ![r].pc = "refresh", ![r].op = "MistUtilLoadSource",
                                 ![r].stream = st]
        BY <2>5 DEF MistUtilLoadSourceStart
      <3>2. ReqOK([req[r] EXCEPT !.pc = "refresh", !.op = "MistUtilLoadSource",
                                 !.stream = st])
        BY Zenon DEF ReqOK
      <3>3. QED
        BY <3>1, <3>2, <2>5 DEF MistUtilLoadSourceStart
    <2>6. ASSUME NEW r \in Requests, RefreshNodes(r) PROVE TypeOK'
      <3> DEFINE fresh == {row \in rows : ~isStale(row.ts, MetricTimeout)}
                 D == {row.node : row \in fresh}
      <3>1. PICK snap \in [D -> fresh] :
                 /\ \A n \in D : snap[n].node = n
                 /\ req' = [req EXCEPT ![r].pc = "score", ![r].snap = snap,
                                       ![r].tr = now]
        BY <2>6 DEF RefreshNodes
      <3>2. snap \in Snapshot
        <4>1. D \subseteq NodeIds /\ fresh \subseteq Row
          BY DEF Row
        <4>2. snap \in [D -> Row]
          BY <4>1
        <4>3. QED
          BY <4>1, <4>2 DEF Snapshot
      <3>3. ReqOK([req[r] EXCEPT !.pc = "score", !.snap = snap, !.tr = now])
        BY <3>2, Zenon DEF ReqOK
      <3>4. QED
        BY <3>1, <3>3, <2>6 DEF RefreshNodes
    <2>7. ASSUME NEW r \in Requests, RefreshNodesFail(r) PROVE TypeOK'
      BY <2>7, FinishTyped DEF RefreshNodesFail, Outcome
    <2>8. ASSUME NEW r \in Requests, GetBestNodeParseFail(r) PROVE TypeOK'
      BY <2>8, FinishTyped DEF GetBestNodeParseFail, Outcome
    <2>9. ASSUME NEW r \in Requests, GetBestNodeSelect(r) PROVE TypeOK'
      <3> DEFINE C == req[r].cands
      <3>1. C \subseteq NodeIds
        BY DEF TypeOK, ReqOK
      <3>2. CASE C = {} /\ req' = [req EXCEPT ![r].pc = "idle",
                                              ![r].out = [kind |-> "self"]]
        BY <3>2, <2>9, FinishTyped DEF GetBestNodeSelect, Outcome
      <3>3. ASSUME NEW geo,
                   NEW n \in SelectNode(C, geo, req[r].load, req[r].has, NumTopNodes),
                   req' = [req EXCEPT ![r].pc = "idle",
                                      ![r].out = [kind |-> "node", node |-> n]]
            PROVE TypeOK'
        <4>1. n \in NodeIds
          BY <3>1, SelectNodeInCandidates
        <4>2. [kind |-> "node", node |-> n] \in Outcome
          BY <4>1 DEF Outcome
        <4>3. QED
          BY <3>3, <4>2, <2>9, FinishTyped DEF GetBestNodeSelect
      <3>4. QED
        BY <2>9, <3>2, <3>3 DEF GetBestNodeSelect
    <2>13. ASSUME NEW r \in Requests, GetBestNodeScore(r) PROVE TypeOK'
      <3> DEFINE C == createScoredNodes(r)
                 ld == [n \in C |-> Load(r, n)]
                 hs == {n \in C : HasStream(r, n)}
      <3>1. C \subseteq NodeIds /\ hs \subseteq NodeIds
        BY DEF createScoredNodes
      <3>2. ld \in LoadMap
        <4>1. ld \in [C -> 0..2]
          BY DEF Load, GetLoadScore
        <4>2. QED
          BY <3>1, <4>1 DEF LoadMap
      <3>3. ReqOK([req[r] EXCEPT !.pc = "select", !.cands = C, !.load = ld, !.has = hs])
        BY <3>1, <3>2, Zenon DEF TypeOK, ReqOK
      <3>4. QED
        BY <3>3, <2>13 DEF GetBestNodeScore
    <2>10. ASSUME NEW r \in Requests, MistUtilLoadSourceLookup(r) PROVE TypeOK'
      <3> DEFINE holders == {n \in Nodes \cap DOMAIN req[r].snap :
                               req[r].stream \in RowIngestStreams(req[r].snap[n])}
      <3>1. PICK o \in (IF holders = {} THEN {[kind |-> "notFound", stale |-> FALSE]}
                        ELSE IF isStale(req[r].tr, IngestStreamTimeout)
                        THEN {[kind |-> "notFound", stale |-> TRUE]}
                        ELSE {[kind |-> "dtsc", node |-> n] : n \in holders}) :
                   req' = [req EXCEPT ![r].pc = "idle", ![r].out = o]
        BY <2>10 DEF MistUtilLoadSourceLookup
      <3>2. holders \subseteq NodeIds
        BY DEF ReqOK
      <3>3. o \in Outcome
        <4>1. CASE holders = {}
          <5>1. o = [kind |-> "notFound", stale |-> FALSE]
            BY <3>1, <4>1
          <5>2. QED
            BY <5>1 DEF Outcome
        <4>2. CASE holders # {} /\ isStale(req[r].tr, IngestStreamTimeout)
          <5>1. o = [kind |-> "notFound", stale |-> TRUE]
            BY <3>1, <4>2
          <5>2. QED
            BY <5>1 DEF Outcome
        <4>3. CASE holders # {} /\ ~isStale(req[r].tr, IngestStreamTimeout)
          <5>1. PICK n \in holders : o = [kind |-> "dtsc", node |-> n]
            BY <3>1, <4>3
          <5>2. QED
            BY <5>1, <3>2 DEF Outcome
        <4>4. QED
          BY <4>1, <4>2, <4>3
      <3>4. QED
        BY <3>1, <3>3, <2>10, FinishTyped DEF MistUtilLoadSourceLookup
    <2>11. CASE UNCHANGED vars
      BY <2>11 DEF vars
    <2>12. QED
      BY <2>1, <2>2, <2>3, <2>4, <2>5, <2>6, <2>7, <2>8, <2>9, <2>10, <2>11,
         <2>13
      DEF Next
  <1>3. QED
    BY <1>1, <1>2, PTL DEF Spec

-----------------------------------------------------------------------------
(* What each kind of step does to the request records. Every step of a    *)
(* request r rewrites only req[r], and only some of its fields.            *)

\* No request other than r changes.
OthersKept(r) == \A s \in Requests \ {r} : req'[s] = req[s]

\* Returning from request r sets its pc and outcome and keeps the rest.
LEMMA FinishFields ==
  ASSUME TypeOK, NEW r \in Requests, NEW o,
         req' = [req EXCEPT ![r].pc = "idle", ![r].out = o]
  PROVE  /\ req'[r].pc = "idle" /\ req'[r].out = o
         /\ req'[r].op = req[r].op /\ req'[r].stream = req[r].stream
         /\ req'[r].snap = req[r].snap /\ req'[r].tr = req[r].tr
         /\ OthersKept(r)
  <1>1. ReqOK(req[r])
    BY DEF TypeOK
  <1>2. req'[r] = [req[r] EXCEPT !.pc = "idle", !.out = o]
    BY DEF TypeOK
  <1>3. LET q == [req[r] EXCEPT !.pc = "idle", !.out = o] IN
          /\ q.pc = "idle" /\ q.out = o /\ q.op = req[r].op
          /\ q.stream = req[r].stream /\ q.snap = req[r].snap /\ q.tr = req[r].tr
    BY <1>1 DEF ReqOK
  <1>4. OthersKept(r)
    BY DEF TypeOK, OthersKept
  <1>5. QED
    BY <1>2, <1>3, <1>4

\* The four steps that return from a call.
Returns(r) ==
  \/ RefreshNodesFail(r) \/ GetBestNodeParseFail(r)
  \/ GetBestNodeSelect(r) \/ MistUtilLoadSourceLookup(r)

LEMMA ReturnFields ==
  ASSUME TypeOK, NEW r \in Requests, Returns(r)
  PROVE  /\ req[r].pc # "idle" /\ req'[r].pc = "idle"
         /\ req'[r].op = req[r].op /\ req'[r].stream = req[r].stream
         /\ req'[r].snap = req[r].snap /\ req'[r].tr = req[r].tr
         /\ OthersKept(r)
         /\ UNCHANGED <<Nodes, rows, now>>
  <1>1. PICK o : req' = [req EXCEPT ![r].pc = "idle", ![r].out = o]
    BY DEF Returns, RefreshNodesFail, GetBestNodeParseFail, GetBestNodeSelect,
           MistUtilLoadSourceLookup
  <1>2. req[r].pc # "idle" /\ UNCHANGED <<Nodes, rows, now>>
    BY DEF Returns, RefreshNodesFail, GetBestNodeParseFail, GetBestNodeSelect,
           MistUtilLoadSourceLookup
  <1>3. QED
    BY <1>1, <1>2, FinishFields

\* The two steps that start a call.
Starts(r) == GetBestNodeStart(r) \/ MistUtilLoadSourceStart(r)

LEMMA StartFields ==
  ASSUME TypeOK, NEW r \in Requests, Starts(r)
  PROVE  /\ req[r].pc = "idle" /\ req'[r].pc = "refresh"
         /\ req'[r].op \in {"GetBestNode", "MistUtilLoadSource"}
         /\ req'[r].stream \in StreamName
         /\ req'[r].out = req[r].out
         /\ req'[r].snap = req[r].snap /\ req'[r].tr = req[r].tr
         /\ OthersKept(r)
         /\ UNCHANGED <<Nodes, rows, now>>
  <1>1. ReqOK(req[r]) /\ OthersKept(r)
    BY DEF TypeOK, Starts, GetBestNodeStart, MistUtilLoadSourceStart, OthersKept
  <1>2. CASE GetBestNodeStart(r)
    <2>1. PICK pid \in PlaybackIDs, ok \in BOOLEAN :
            req' = [req EXCEPT ![r].pc = "refresh", ![r].op = "GetBestNode",
                               ![r].pid = pid, ![r].coordsOk = ok]
      BY <1>2 DEF GetBestNodeStart
    <2>2. req'[r] = [req[r] EXCEPT !.pc = "refresh", !.op = "GetBestNode",
                                   !.pid = pid, !.coordsOk = ok]
      BY <2>1 DEF TypeOK
    <2>3. QED
      BY <1>1, <1>2, <2>2 DEF ReqOK, GetBestNodeStart
  <1>3. CASE MistUtilLoadSourceStart(r)
    <2>1. PICK st \in StreamName :
            req' = [req EXCEPT ![r].pc = "refresh", ![r].op = "MistUtilLoadSource",
                               ![r].stream = st]
      BY <1>3 DEF MistUtilLoadSourceStart
    <2>2. req'[r] = [req[r] EXCEPT !.pc = "refresh", !.op = "MistUtilLoadSource",
                                   !.stream = st]
      BY <2>1 DEF TypeOK
    <2>3. QED
      BY <1>1, <1>3, <2>2 DEF ReqOK, MistUtilLoadSourceStart
  <1>4. QED
    BY <1>2, <1>3 DEF Starts

\* RefreshNodes writes the snapshot and the refresh time and keeps what the
\* caller sees.
LEMMA RefreshFields ==
  ASSUME TypeOK, NEW r \in Requests, RefreshNodes(r)
  PROVE  /\ req[r].pc = "refresh" /\ req'[r].pc = "score"
         /\ req'[r].op = req[r].op /\ req'[r].stream = req[r].stream
         /\ req'[r].out = req[r].out
         /\ OthersKept(r)
         /\ UNCHANGED <<Nodes, rows, now>>
  <1> DEFINE fresh == {row \in rows : ~isStale(row.ts, MetricTimeout)}
             D == {row.node : row \in fresh}
  <1>1. PICK snap \in [D -> fresh] :
             req' = [req EXCEPT ![r].pc = "score", ![r].snap = snap, ![r].tr = now]
    BY DEF RefreshNodes
  <1>2. req'[r] = [req[r] EXCEPT !.pc = "score", !.snap = snap, !.tr = now]
    BY <1>1 DEF TypeOK
  <1>3. ReqOK(req[r]) /\ OthersKept(r)
    BY <1>1 DEF TypeOK, OthersKept
  <1>4. QED
    BY <1>2, <1>3 DEF ReqOK, RefreshNodes

\* Scoring under the read lock writes only the copied-out candidates.
LEMMA ScoreFields ==
  ASSUME TypeOK, NEW r \in Requests, GetBestNodeScore(r)
  PROVE  /\ req[r].pc = "score" /\ req'[r].pc = "select"
         /\ req'[r].snap = req[r].snap /\ req'[r].tr = req[r].tr
         /\ OthersKept(r)
         /\ UNCHANGED <<Nodes, rows, now>>
  <1> DEFINE C == createScoredNodes(r)
             ld == [n \in C |-> Load(r, n)]
             hs == {n \in C : HasStream(r, n)}
  <1>1. req'[r] = [req[r] EXCEPT !.pc = "select", !.cands = C, !.load = ld, !.has = hs]
    BY DEF TypeOK, GetBestNodeScore
  <1>2. ReqOK(req[r]) /\ OthersKept(r)
    BY DEF TypeOK, OthersKept, GetBestNodeScore
  <1>3. LET q == [req[r] EXCEPT !.pc = "select", !.cands = C, !.load = ld, !.has = hs]
        IN  q.pc = "select" /\ q.snap = req[r].snap /\ q.tr = req[r].tr
    BY <1>2 DEF ReqOK
  <1>4. req[r].pc = "score" /\ UNCHANGED <<Nodes, rows, now>>
    BY DEF GetBestNodeScore
  <1>5. QED
    BY <1>1, <1>2, <1>3, <1>4

-----------------------------------------------------------------------------
(* Every snapshot entry is a row of node_stats. RefreshNodes builds the    *)
(* snapshot from the rows it scans (part_002:336-356) and keeps for node n *)
(* only rows of n that were fresh at the refresh time tr. Nothing removes   *)
(* a row, and only RefreshNodes writes snap and tr, together.              *)
SnapFromRows ==
  \A r \in Requests : \A n \in DOMAIN req[r].snap :
    /\ req[r].snap[n] \in rows
    /\ req[r].snap[n].node = n
    /\ req[r].tr - req[r].snap[n].ts < MetricTimeout

IInv == TypeOK /\ SnapFromRows

\* A step that keeps every request's snapshot and refresh time, and no row
\* removed, keeps SnapFromRows.
LEMMA SnapKept ==
  ASSUME SnapFromRows, rows \subseteq rows',
         \A r \in Requests : req'[r].snap = req[r].snap /\ req'[r].tr = req[r].tr
  PROVE  SnapFromRows'
  BY DEF SnapFromRows

LEMMA SnapStep ==
  ASSUME TypeOK, SnapFromRows, [Next]_vars
  PROVE  SnapFromRows'
  <1>1. CASE UNCHANGED req /\ rows \subseteq rows'
    BY <1>1, SnapKept
  <1>2. ASSUME NEW r \in Requests, Starts(r) \/ Returns(r) \/ GetBestNodeScore(r)
        PROVE SnapFromRows'
    <2>1. /\ \A s \in Requests : req'[s].snap = req[s].snap /\ req'[s].tr = req[s].tr
          /\ rows' = rows
      <3>1. CASE Starts(r)
        BY <3>1, StartFields DEF OthersKept
      <3>2. CASE Returns(r)
        BY <3>2, ReturnFields DEF OthersKept
      <3>3. CASE GetBestNodeScore(r)
        BY <3>3, ScoreFields DEF OthersKept
      <3>4. QED
        BY <1>2, <3>1, <3>2, <3>3
    <2>2. QED
      BY <2>1, SnapKept
  <1>3. ASSUME NEW r \in Requests, RefreshNodes(r) PROVE SnapFromRows'
    <2> DEFINE fresh == {row \in rows : ~isStale(row.ts, MetricTimeout)}
               D == {row.node : row \in fresh}
    <2>1. PICK snap \in [D -> fresh] :
               /\ \A n \in D : snap[n].node = n
               /\ req' = [req EXCEPT ![r].pc = "score", ![r].snap = snap,
                                     ![r].tr = now]
      BY <1>3 DEF RefreshNodes
    <2>2. rows' = rows /\ OthersKept(r)
      BY <1>3, RefreshFields
    <2>3. req'[r].snap = snap /\ req'[r].tr = now
      <3>1. req'[r] = [req[r] EXCEPT !.pc = "score", !.snap = snap, !.tr = now]
        BY <2>1 DEF TypeOK
      <3>2. ReqOK(req[r])
        BY DEF TypeOK
      <3>3. QED
        BY <3>1, <3>2 DEF ReqOK
    <2>4. \A n \in D : now - snap[n].ts < MetricTimeout
      <3>1. \A n \in D : snap[n] \in Row
        BY DEF TypeOK
      <3>2. QED
        BY <3>1, ConstAssumption DEF isStale, Row, TypeOK
    <2>5. \A n \in DOMAIN req'[r].snap :
            /\ req'[r].snap[n] \in rows'
            /\ req'[r].snap[n].node = n
            /\ req'[r].tr - req'[r].snap[n].ts < MetricTimeout
      BY <2>1, <2>2, <2>3, <2>4
    <2>6. \A s \in Requests \ {r} : \A n \in DOMAIN req'[s].snap :
            /\ req'[s].snap[n] \in rows'
            /\ req'[s].snap[n].node = n
            /\ req'[s].tr - req'[s].snap[n].ts < MetricTimeout
      BY <2>2 DEF SnapFromRows, OthersKept
    <2>7. QED
      BY <2>5, <2>6 DEF SnapFromRows
  <1>4. QED
    BY <1>1, <1>2, <1>3 DEF Next, vars, UpdateMembers, PublishNodeStats, Tick,
                           Starts, Returns

\* SnapFromRows holds in every reachable state.
LEMMA SnapInvariant == Spec => []IInv
  <1>1. Init => SnapFromRows
    <2> SUFFICES ASSUME Init PROVE SnapFromRows
      OBVIOUS
    <2>1. \A r \in Requests : DOMAIN req[r].snap = {}
      BY DEF Init, InitReq
    <2>2. QED
      BY <2>1 DEF SnapFromRows
  <1>2. TypeOK /\ SnapFromRows /\ [Next]_vars => SnapFromRows'
    BY SnapStep
  <1>3. Spec => []SnapFromRows
    BY <1>1, <1>2, TypeCorrect, PTL DEF Spec
  <1>4. QED
    BY <1>3, TypeCorrect, PTL DEF IInv

-----------------------------------------------------------------------------
(* A call ends from pc "score" only through a parse error or the lookup  *)
(* of MistUtilLoadSource: GetBestNode leaves "score" for "select", and no  *)
(* other request's step or step of the environment touches its state.      *)
LEMMA FinishStep ==
  ASSUME TypeOK, [Next]_vars, NEW r \in Requests,
         req[r].pc = "score", req'[r].pc = "idle"
  PROVE  \/ GetBestNodeParseFail(r)
         \/ MistUtilLoadSourceLookup(r)
  <1>1. CASE UNCHANGED req
    BY <1>1
  <1>2. ASSUME NEW s \in Requests, s # r,
               Starts(s) \/ RefreshNodes(s) \/ Returns(s) \/ GetBestNodeScore(s)
        PROVE  FALSE
    BY <1>2, StartFields, RefreshFields, ReturnFields, ScoreFields DEF OthersKept
  <1>3. CASE Starts(r)
    BY <1>3, StartFields
  <1>4. CASE RefreshNodes(r) \/ RefreshNodesFail(r)
    BY <1>4, RefreshFields DEF RefreshNodesFail
  <1>5. CASE GetBestNodeScore(r) \/ GetBestNodeSelect(r)
    BY <1>5, ScoreFields DEF GetBestNodeSelect
  <1>6. QED
    BY <1>1, <1>2, <1>3, <1>4, <1>5
    DEF Next, vars, UpdateMembers, PublishNodeStats, Tick, Starts, Returns

\* MistUtilLoadSource answers dtsc only for a registered holder of a fresh
\* ingest row, and a non-stale "not found" only when no registered node's
\* snapshot lists the stream (LoadSourceSound, one request).
LEMMA LoadSourceAnswerSoundStep ==
  ASSUME IInv, [Next]_vars, NEW r \in Requests
  PROVE  LoadSourceAnswerSound(r)
  <1> DEFINE holders == {n \in Nodes \cap DOMAIN req[r].snap :
                           req[r].stream \in RowIngestStreams(req[r].snap[n])}
             result ==
               IF holders = {} THEN {[kind |-> "notFound", stale |-> FALSE]}
               ELSE IF isStale(req[r].tr, IngestStreamTimeout)
               THEN {[kind |-> "notFound", stale |-> TRUE]}
               ELSE {[kind |-> "dtsc", node |-> n] : n \in holders}
  <1>1. CASE GetBestNodeParseFail(r)
    BY <1>1 DEF GetBestNodeParseFail, Finishes, IInv, TypeOK, LoadSourceAnswerSound
  <1>3. CASE MistUtilLoadSourceLookup(r)
    <2>1. PICK o \in result : req' = [req EXCEPT ![r].pc = "idle", ![r].out = o]
      BY <1>3 DEF MistUtilLoadSourceLookup
    <2>2. req'[r].out = o
      BY <2>1 DEF IInv, TypeOK
    <2>3. Finishes(r, "dtsc") =>
            LET n == req'[r].out.node IN
              /\ n \in Nodes
              /\ \E row \in rows :
                   /\ row.node = n
                   /\ req[r].stream \in row.ingest
                   /\ req[r].tr - row.ts < MetricTimeout
      <3> SUFFICES ASSUME Finishes(r, "dtsc")
                   PROVE  LET n == req'[r].out.node IN
                            /\ n \in Nodes
                            /\ \E row \in rows :
                                 /\ row.node = n
                                 /\ req[r].stream \in row.ingest
                                 /\ req[r].tr - row.ts < MetricTimeout
        OBVIOUS
      <3>1. PICK n \in holders : o = [kind |-> "dtsc", node |-> n]
        BY <2>2 DEF Finishes
      <3>2. /\ req[r].snap[n] \in rows
            /\ req[r].snap[n].node = n
            /\ req[r].tr - req[r].snap[n].ts < MetricTimeout
        BY DEF IInv, SnapFromRows
      <3>3. req[r].stream \in req[r].snap[n].ingest
        BY DEF RowIngestStreams
      <3>4. QED
        BY <2>2, <3>1, <3>2, <3>3
    <2>4. (Finishes(r, "notFound") /\ ~req'[r].out.stale) =>
            \A n \in Nodes \cap DOMAIN req[r].snap :
              req[r].stream \notin req[r].snap[n].ingest
      <3> SUFFICES ASSUME Finishes(r, "notFound"), ~req'[r].out.stale
                   PROVE  holders = {}
        BY DEF RowIngestStreams
      <3>1. CASE holders # {} /\ isStale(req[r].tr, IngestStreamTimeout)
        BY <3>1, <2>2
      <3>2. CASE holders # {} /\ ~isStale(req[r].tr, IngestStreamTimeout)
        BY <3>2, <2>2 DEF Finishes
      <3>3. QED
        BY <3>1, <3>2
    <2>5. QED
      BY <2>3, <2>4 DEF LoadSourceAnswerSound
  <1>4. QED
    BY <1>1, <1>3, FinishStep DEF Finishes, IInv, LoadSourceAnswerSound

\* MistUtilLoadSource's answers are sound for any number of requests and any
\* timing: a dtsc address names a registered node that published the stream
\* as ingest in a row fresh at refresh time, and a non-stale "not found"
\* means no registered node's snapshot holds it.
THEOREM LoadSourceSoundHolds == Spec => LoadSourceSound
  <1>1. IInv /\ [Next]_vars => [\A r \in Requests : LoadSourceAnswerSound(r)]_vars
    BY LoadSourceAnswerSoundStep
  <1>2. QED
    BY <1>1, SnapInvariant, PTL DEF LoadSourceSound, Spec

=============================================================================
