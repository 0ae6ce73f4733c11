SPECIFICATION HistorySpec
CONSTANTS
  Clients = {k1, k2}
  Names = {a, b}
  NoName = noname
  MaxDepth = 2
  Ids = {root, d0, d1, d2, n1, n2}
  Root = root
  NoId = noid
  Contents = {empty}
  Empty = empty
  DataGuids = {d0, d1, d2}
  NodeGuids = {n1, n2}
SYMMETRY Interchangeable
INVARIANTS StoreWellFormed CoherentAlone NoOrphansAlone
