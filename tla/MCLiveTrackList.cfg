CONSTANTS
  h1 = h1
  h2 = h2
  Handlers <- MCHandlers
  Tracks <- MCTracks
  CacheStates = {"none", "ok", "badDir"}
  Faults = TRUE
  MaxPolls = 2
SPECIFICATION Spec
SYMMETRY MCSymmetry
\* log.Fatal in the handler ends the process: no step is possible after it.
CHECK_DEADLOCK FALSE
INVARIANT PlaylistOnlyPushed
