SPECIFICATION Spec
INVARIANT TreeIsSound
PROPERTY ImplementsRankedSet
CONSTANTS
  Data = {d1, d2, d3, d4, d5}
  Ranks = {1, 2, 3}
  NULL = NULL
