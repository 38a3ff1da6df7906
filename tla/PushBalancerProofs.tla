------------------------ MODULE PushBalancerProofs -------------------------
(***************************************************************************)
(* Proof that the in-memory balancer never keeps data of a node that is    *)
(* not registered, for every value of the constants and any number of      *)
(* concurrent handlers.                                                    *)
(***************************************************************************)
EXTENDS PushBalancer, TLAPS

\* A per-node stream map (catalyst_balancer.go:19-20) as a function.
IsNodeStreams(X) ==
  /\ X = [n \in DOMAIN X |-> X[n]]
  /\ \A n \in DOMAIN X : IsStreamMap(X[n])

\* removeOldStreams on a node's map keeps the map's keys and its
\* remaining entries: it only deletes.
LEMMA PruneNodeFacts ==
  ASSUME NEW X, IsNodeStreams(X), NEW n
  PROVE  /\ IsNodeStreams(PruneNode(X, n))
         /\ DOMAIN PruneNode(X, n) = DOMAIN X
         /\ \A k \in DOMAIN X :
              /\ DOMAIN PruneNode(X, n)[k] \subseteq DOMAIN X[k]
              /\ \A x \in DOMAIN PruneNode(X, n)[k] : PruneNode(X, n)[k][x] = X[k][x]
  <1>1. CASE n \in DOMAIN X
    <2> DEFINE R == removeOldStreams(X[n])
    <2>1. R = [s \in {x \in DOMAIN X[n] : ~isStale(X[n][x], UpdateEvery)} |-> X[n][s]]
      BY DEF removeOldStreams, Restrict
    <2>2. IsStreamMap(X[n])
      BY <1>1 DEF IsNodeStreams
    <2>3. IsStreamMap(R)
      BY <2>1, <2>2 DEF IsStreamMap
    <2>4. PruneNode(X, n) = [k \in DOMAIN X |-> IF k = n THEN R ELSE X[k]]
      BY <1>1 DEF PruneNode, IsNodeStreams
    <2>5. DOMAIN R \subseteq DOMAIN X[n] /\ \A x \in DOMAIN R : R[x] = X[n][x]
      BY <2>1
    <2>6. QED
      BY <2>3, <2>4, <2>5 DEF IsNodeStreams
  <1>2. CASE n \notin DOMAIN X
    BY <1>2 DEF PruneNode
  <1>3. QED
    BY <1>1, <1>2

\* Recording stream s of node n keeps a per-node stream map, and the node
\* enters the map.
LEMMA AddStreamFacts ==
  ASSUME NEW X, IsNodeStreams(X), NEW n, NEW s \in StreamName, now \in 0..MaxTime
  PROVE  /\ IsNodeStreams(AddStream(X, n, s))
         /\ DOMAIN AddStream(X, n, s) = DOMAIN X \cup {n}
  <1> DEFINE old == IF n \in DOMAIN X THEN X[n] ELSE EmptyMap
             new == Put(old, s, now)
  <1>1. IsStreamMap(old)
    BY DEF IsNodeStreams, IsStreamMap, EmptyMap
  <1>2. IsStreamMap(new) /\ DOMAIN new = DOMAIN old \cup {s}
        /\ \A x \in DOMAIN new : new[x] = IF x = s THEN now ELSE old[x]
    BY <1>1 DEF IsStreamMap, Put
  <1>3. AddStream(X, n, s) = [k \in DOMAIN X \cup {n} |-> IF k = n THEN new ELSE X[k]]
    BY DEF AddStream, Put
  <1>4. QED
    BY <1>2, <1>3 DEF IsNodeStreams, EmptyMap

\* The inductive invariant.
IInv == TypeOK /\ NoLingeringEntries

\* The stream handlers' request steps change nothing but the answer.
LEMMA RequestStepKeeps ==
  ASSUME IInv, RequestStep, NEW o, out' = o
  PROVE  IInv'
  BY DEF RequestStep, IInv, TypeOK, NoLingeringEntries, IsStreamMap

\* The handler's stream update keeps the invariant: whatever the registry
\* became since the handler received its event, UpdateStreams writes only
\* for a registered node, stamped now.
LEMMA UpdateStreamsKeeps ==
  ASSUME IInv, NEW h \in Handlers, UpdateStreams(h)
  PROVE  IInv'
  <1> USE DEF IInv
  <1>1. PICK t \in hdl[h].todo :
               /\ UpdateStream(h, t[1], t[2])
               /\ hdl' = [hdl EXCEPT ![h].todo = @ \ {t},
                                     ![h].pc = IF hdl[h].todo = {t} THEN "idle"
                                               ELSE "streams"]
    BY DEF UpdateStreams
  <1> DEFINE n == hdl[h].node
  <1>2. t[1] \in StreamName /\ t[2] \in BOOLEAN /\ n \in NodeIds
    BY DEF TypeOK
  <1>3. UNCHANGED <<Nodes, NodeMetrics, now, media, out>>
    BY DEF UpdateStreams
  <1>4. hdl' \in [Handlers -> [pc : {"idle", "streams"}, node : NodeIds,
                               todo : SUBSET (StreamName \X BOOLEAN)]]
    <2>1. hdl[h] \in [pc : {"idle", "streams"}, node : NodeIds,
                      todo : SUBSET (StreamName \X BOOLEAN)]
      BY DEF TypeOK
    <2>2. [hdl[h] EXCEPT !.todo = @ \ {t},
                         !.pc = IF hdl[h].todo = {t} THEN "idle" ELSE "streams"]
            \in [pc : {"idle", "streams"}, node : NodeIds,
                 todo : SUBSET (StreamName \X BOOLEAN)]
      BY <2>1
    <2>3. hdl' = [hdl EXCEPT ![h] = [hdl[h] EXCEPT !.todo = @ \ {t},
                                      !.pc = IF hdl[h].todo = {t} THEN "idle"
                                             ELSE "streams"]]
      BY <1>1 DEF TypeOK
    <2>4. QED
      BY <2>2, <2>3 DEF TypeOK
  <1>5. IsNodeStreams(Streams) /\ IsNodeStreams(IngestStreams)
    BY DEF TypeOK, IsNodeStreams
  <1>6. CASE n \notin DOMAIN Nodes
    <2>1. UNCHANGED <<Streams, IngestStreams>>
      BY <1>1, <1>6 DEF UpdateStream
    <2>2. QED
      BY <1>3, <1>4, <2>1 DEF TypeOK, NoLingeringEntries
  <1>7. CASE n \in DOMAIN Nodes /\ t[2]
    <2>1. IngestStreams' = AddStream(PruneNode(IngestStreams, n), n, t[1])
          /\ Streams' = PruneNode(Streams, n)
      BY <1>1, <1>7 DEF UpdateStream
    <2>2. /\ IsNodeStreams(PruneNode(Streams, n))
          /\ DOMAIN PruneNode(Streams, n) = DOMAIN Streams
      BY <1>5, PruneNodeFacts
    <2>3. /\ IsNodeStreams(PruneNode(IngestStreams, n))
          /\ DOMAIN PruneNode(IngestStreams, n) = DOMAIN IngestStreams
      BY <1>5, PruneNodeFacts
    <2>4. now \in 0..MaxTime
      BY DEF TypeOK
    <2>5. /\ IsNodeStreams(AddStream(PruneNode(IngestStreams, n), n, t[1]))
          /\ DOMAIN AddStream(PruneNode(IngestStreams, n), n, t[1]) = DOMAIN IngestStreams \cup {n}
      <3>1. /\ IsNodeStreams(AddStream(PruneNode(IngestStreams, n), n, t[1]))
            /\ DOMAIN AddStream(PruneNode(IngestStreams, n), n, t[1])
                 = DOMAIN PruneNode(IngestStreams, n) \cup {n}
        BY <1>2, <2>3, <2>4, AddStreamFacts
      <3>2. QED
        BY <3>1, <2>3
    <2>6. DOMAIN IngestStreams \cup {n} \subseteq DOMAIN Nodes
      BY <1>7 DEF NoLingeringEntries
    <2>7. TypeOK'
      BY <1>3, <1>4, <2>1, <2>2, <2>5 DEF TypeOK, IsNodeStreams
    <2>8. NoLingeringEntries'
      BY <1>3, <2>1, <2>2, <2>5, <2>6 DEF NoLingeringEntries
    <2>9. QED
      BY <2>7, <2>8
  <1>8. CASE n \in DOMAIN Nodes /\ ~t[2]
    <2>1. Streams' = AddStream(PruneNode(Streams, n), n, t[1])
          /\ IngestStreams' = PruneNode(IngestStreams, n)
      BY <1>1, <1>8 DEF UpdateStream
    <2>2. /\ IsNodeStreams(PruneNode(Streams, n))
          /\ DOMAIN PruneNode(Streams, n) = DOMAIN Streams
      BY <1>5, PruneNodeFacts
    <2>3. /\ IsNodeStreams(PruneNode(IngestStreams, n))
          /\ DOMAIN PruneNode(IngestStreams, n) = DOMAIN IngestStreams
      BY <1>5, PruneNodeFacts
    <2>4. now \in 0..MaxTime
      BY DEF TypeOK
    <2>5. /\ IsNodeStreams(AddStream(PruneNode(Streams, n), n, t[1]))
          /\ DOMAIN AddStream(PruneNode(Streams, n), n, t[1]) = DOMAIN Streams \cup {n}
      <3>1. /\ IsNodeStreams(AddStream(PruneNode(Streams, n), n, t[1]))
            /\ DOMAIN AddStream(PruneNode(Streams, n), n, t[1])
                 = DOMAIN PruneNode(Streams, n) \cup {n}
        BY <1>2, <2>2, <2>4, AddStreamFacts
      <3>2. QED
        BY <3>1, <2>2
    <2>6. DOMAIN Streams \cup {n} \subseteq DOMAIN Nodes
      BY <1>8 DEF NoLingeringEntries
    <2>7. TypeOK'
      BY <1>3, <1>4, <2>1, <2>3, <2>5 DEF TypeOK, IsNodeStreams
    <2>8. NoLingeringEntries'
      BY <1>3, <2>1, <2>3, <2>5, <2>6 DEF NoLingeringEntries
    <2>9. QED
      BY <2>7, <2>8
  <1>9. QED
    BY <1>2, <1>6, <1>7, <1>8

\* UpdateMembers keeps the invariant: it deletes the data of every node it
\* drops.
LEMMA UpdateMembersKeeps ==
  ASSUME IInv, UpdateMembers
  PROVE  IInv'
  <1> USE DEF IInv
  <1>1. PICK M \in SUBSET NodeIds :
          \E tag \in [M -> MemberTags] :
            \E dtsc \in {d \in [M -> DtscTags] : \A x \in M : d[x] \in DtscTagsOf(x)} :
              /\ Nodes' = dtsc
              /\ Streams' = Restrict(Streams, DOMAIN Streams \cap M)
              /\ IngestStreams' = Restrict(IngestStreams, DOMAIN IngestStreams \cap M)
              /\ NodeMetrics' = Restrict(NodeMetrics, DOMAIN NodeMetrics \cap M)
              /\ media' = {x \in M : tag[x] = "media"}
              /\ UNCHANGED <<now, hdl, out>>
    BY DEF UpdateMembers
  <1>2. PICK tag \in [M -> MemberTags],
             dtsc \in {d \in [M -> DtscTags] : \A x \in M : d[x] \in DtscTagsOf(x)} :
          /\ Nodes' = dtsc
          /\ Streams' = Restrict(Streams, DOMAIN Streams \cap M)
          /\ IngestStreams' = Restrict(IngestStreams, DOMAIN IngestStreams \cap M)
          /\ NodeMetrics' = Restrict(NodeMetrics, DOMAIN NodeMetrics \cap M)
          /\ media' = {x \in M : tag[x] = "media"}
          /\ UNCHANGED <<now, hdl, out>>
    BY <1>1
  <1>3. TypeOK'
    BY <1>2 DEF TypeOK, Restrict, IsStreamMap
  <1>4. NoLingeringEntries'
    BY <1>2 DEF NoLingeringEntries, Restrict
  <1>5. QED
    BY <1>3, <1>4

\* UpdateNodes stores metrics, stamped now, only for a registered node.
LEMMA ReceiveNodeUpdateKeeps ==
  ASSUME IInv, NEW h \in Handlers, ReceiveNodeUpdate(h)
  PROVE  IInv'
  <1> USE DEF IInv
  <1>1. PICK n \in NodeIds, m \in MetricsChoices, e \in EventStreams :
          LET todo == (e.streams \X {FALSE}) \cup (e.ingest \X {TRUE}) IN
          /\ NodeMetrics' = IF n \in DOMAIN Nodes
                            THEN Put(NodeMetrics, n, [m |-> m, ts |-> now])
                            ELSE NodeMetrics
          /\ hdl' = [hdl EXCEPT ![h] = [pc |-> IF todo = {} THEN "idle" ELSE "streams",
                                        node |-> n, todo |-> todo]]
    BY DEF ReceiveNodeUpdate
  <1>2. UNCHANGED <<Nodes, Streams, IngestStreams, now, media, out>>
    BY DEF ReceiveNodeUpdate
  <1>3. (e.streams \X {FALSE}) \cup (e.ingest \X {TRUE}) \subseteq StreamName \X BOOLEAN
    BY PushConstAssumption
  <1>4. [m |-> m, ts |-> now] \in Metric
    BY DEF TypeOK, Metric
  <1>5. TypeOK'
    BY <1>1, <1>2, <1>3, <1>4 DEF TypeOK, Put
  <1>6. NoLingeringEntries'
    <2>1. CASE n \in DOMAIN Nodes
      BY <1>1, <1>2, <2>1 DEF NoLingeringEntries, Put, TypeOK
    <2>2. CASE n \notin DOMAIN Nodes
      BY <1>1, <1>2, <2>2 DEF NoLingeringEntries
    <2>3. QED
      BY <2>1, <2>2
  <1>7. QED
    BY <1>5, <1>6

\* NoLingeringEntries holds in every reachable state, for every value of
\* the constants: no interleaving of handlers, membership changes and
\* requests leaves data of an unregistered node in the balancer's maps.
THEOREM NoLingeringHolds == Spec => []NoLingeringEntries
  <1>1. Init => IInv
    <2> SUFFICES ASSUME Init PROVE IInv
      OBVIOUS
    <2>1. (CHOOSE n \in NodeIds : TRUE) \in NodeIds
      BY PushConstAssumption
    <2>2. QED
      BY <2>1, PushConstAssumption
      DEF Init, IInv, TypeOK, NoLingeringEntries, EmptyMap
  <1>2. IInv /\ [Next]_vars => IInv'
    <2> SUFFICES ASSUME IInv, [Next]_vars PROVE IInv'
      OBVIOUS
    <2>1. CASE UpdateMembers
      BY <2>1, UpdateMembersKeeps
    <2>2. CASE Tick
      <3>1. now' = now + 1 /\ now < MaxTime
            /\ UNCHANGED <<Nodes, NodeMetrics, Streams, IngestStreams, hdl, media, out>>
        BY <2>2 DEF Tick
      <3>2. TypeOK'
        <4>1. now' \in 0..MaxTime
          BY <3>1, PushConstAssumption DEF IInv, TypeOK
        <4>2. QED
          BY <3>1, <4>1, Zenon DEF IInv, TypeOK, IsStreamMap
      <3>3. NoLingeringEntries'
        BY <3>1 DEF IInv, NoLingeringEntries
      <3>5. QED
        BY <3>2, <3>3 DEF IInv
    <2>3. ASSUME NEW h \in Handlers, ReceiveNodeUpdate(h) PROVE IInv'
      BY <2>3, ReceiveNodeUpdateKeeps
    <2>4. ASSUME NEW h \in Handlers, UpdateStreams(h) PROVE IInv'
      BY <2>4, UpdateStreamsKeeps
    <2>5. CASE GetBestNodeParseFail \/ GetBestNodeSelect \/ MistUtilLoadSource
      <3>1. RequestStep
        BY <2>5 DEF GetBestNodeParseFail, GetBestNodeSelect, MistUtilLoadSource, RequestStep
      <3>2. QED
        BY <3>1, RequestStepKeeps
    <2>6. CASE UNCHANGED vars
      BY <2>6 DEF vars, IInv, TypeOK, NoLingeringEntries, IsStreamMap
    <2>7. QED
      BY <2>1, <2>2, <2>3, <2>4, <2>5, <2>6 DEF Next
  <1>3. IInv => NoLingeringEntries
    BY DEF IInv
  <1>4. QED
    BY <1>1, <1>2, <1>3, PTL DEF Spec

=============================================================================
