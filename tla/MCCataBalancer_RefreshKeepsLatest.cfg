CONSTANTS
  n1 = n1
  n2 = n2
  r1 = r1
  p1 = p1
  NoPrefix = NoPrefix
  NodeIds <- MCNodeIds
  Requests = {r1}
  PlaybackIDs <- MCPlaybackIDs
  Prefixes <- MCPrefixes
  MetricsChoices <- MCMetricsChoices
  EventStreams <- MCEventStreams
  MetricTimeout = 2
  IngestStreamTimeout = 1
  MaxTime = 2
  MaxRows = 2
SPECIFICATION Spec
SYMMETRY MCSymmetry
PROPERTY RefreshKeepsLatest
