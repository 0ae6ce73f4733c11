SPECIFICATION FairSpec
CONSTANTS
  Clients = {k1, k2}
  Names = {a, b}
  NoName = noname
  MaxDepth = 1
  Ids = {root, d0, d1, n1}
  Root = root
  NoId = noid
  Contents = {empty}
  Empty = empty
  DataGuids = {d0, d1}
  NodeGuids = {n1}
PROPERTIES CacheComesBack EveryCallReturns
