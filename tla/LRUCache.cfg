SPECIFICATION LRUSpec
CONSTANTS
  Keys = {k1, k2, k3, k4}
  Values = {v1, v2}
  Null = null
  Limit = 3
INVARIANT ListMatchesMap
PROPERTY ImplementsRecency
SYMMETRY Interchangeable
