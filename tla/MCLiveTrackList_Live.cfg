CONSTANTS
  h1 = h1
  h2 = h2
  Handlers <- MCHandlers
  Tracks <- MCTracks
  CacheStates = {"ok"}
  Faults = FALSE
  MaxPolls = 2
SPECIFICATION Spec
PROPERTY MetadataYieldsPlaylist
