CONSTANTS
  n1 = n1
  n2 = n2
  h1 = h1
  h2 = h2
  p1 = p1
  NoPrefix = NoPrefix
  NodeIds <- MCNodeIds
  Handlers <- MCHandlers
  PlaybackIDs <- MCPlaybackIDs
  Prefixes <- MCPrefixes
  MetricsChoices <- MCOneMetrics
  MemberTags = {"media"}
  MissingDtsc = FALSE
  EventStreams <- MCStreamEvents
  UpdateEvery = 2
  MaxTime = 2
SPECIFICATION Spec
SYMMETRY MCSymmetry
INVARIANT NoLingeringEntries
