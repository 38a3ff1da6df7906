--------------------------- MODULE MCCataBalancer ---------------------------
(* Small instance of CataBalancer for TLC.                                 *)
EXTENDS CataBalancer, TLC

CONSTANTS n1, n2, r1, p1

MCNodeIds == {n1, n2}
MCPlaybackIDs == {p1}
MCPrefixes == {"video"}

\* Load score 2 at the 50% boundary, and 0 through bandwidth at 86%.
MCMetricsChoices ==
  {[c |-> 50, r |-> 50, b |-> 50],
   [c |-> 85, r |-> 10, b |-> 86]}

\* Nothing; "video+p1" played back; "video+p1" ingested.
MCEventStreams ==
  LET v == [prefix |-> "video", id |-> p1] IN
  {[streams |-> {}, ingest |-> {}],
   [streams |-> {v}, ingest |-> {}],
   [streams |-> {}, ingest |-> {v}]}

\* The two node names play the same role everywhere.
MCSymmetry == Permutations(MCNodeIds)

=============================================================================
