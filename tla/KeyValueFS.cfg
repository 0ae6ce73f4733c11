SPECIFICATION Spec
CONSTANTS
  Names = {a, b}
  NoName = noname
  MaxDepth = 3
  Ids = {root, d0, d1, d2, d3, n1, n2, n3}
  DataGuids = {d0, d1, d2, d3}
  NodeGuids = {n1, n2, n3}
  Root = root
  NoId = noid
  Contents = {empty, c1}
  Empty = empty
  GuidsUnique = TRUE
  RenameTo <- NonRootPaths
  MaxHandles = 1
SYMMETRY Interchangeable

INVARIANTS StoreWellFormed NoOrphans AllReachable
PROPERTY ImplementsFileTree
