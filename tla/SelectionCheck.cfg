CONSTANTS
  Cands = {c1, c2, c3, c4}
  NoNode = NoNode
  NumNodes = 3
SPECIFICATION Spec
INVARIANT TierPreference
