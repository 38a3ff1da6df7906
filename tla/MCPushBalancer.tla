--------------------------- MODULE MCPushBalancer ---------------------------
(* Small instance of PushBalancer for TLC.                                 *)
EXTENDS PushBalancer, TLC

CONSTANTS n1, n2, h1, h2, p1

MCNodeIds == {n1, n2}
MCHandlers == {h1, h2}
MCPlaybackIDs == {p1}
MCPrefixes == {"video"}

\* Load score 2 at the 50% boundary, and 0 through bandwidth at 86%.
MCMetricsChoices ==
  {[c |-> 50, r |-> 50, b |-> 50],
   [c |-> 85, r |-> 10, b |-> 86]}

\* "video+p1", the name a node reports for a stream it plays or ingests.
MCStream == [prefix |-> "video", id |-> p1]

\* An event without streams; one playing "video+p1"; one ingesting it.
MCEventStreams ==
  {[streams |-> {}, ingest |-> {}],
   [streams |-> {MCStream}, ingest |-> {}],
   [streams |-> {}, ingest |-> {MCStream}]}

\* Events that carry a stream, played back or ingested.
MCStreamEvents ==
  {[streams |-> {MCStream}, ingest |-> {}],
   [streams |-> {}, ingest |-> {MCStream}]}

\* One metrics value: the load score plays no part in NoLingeringEntries.
MCOneMetrics == {[c |-> 50, r |-> 50, b |-> 50]}

\* The two handlers play the same role everywhere.
MCSymmetry == Permutations(MCHandlers)

=============================================================================
