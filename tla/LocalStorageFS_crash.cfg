SPECIFICATION Spec
CONSTANTS
  Names = {a, b}
  NoName = noname
  MaxDepth = 2
  Ids = {root, d0, d1, d2, d3, n1, n2, n3}
  Root = root
  NoId = noid
  Contents = {empty, c1}
  Empty = empty
  DataGuids = {d0, d1, d2, d3}
  NodeGuids = {n1, n2, n3}
  MaxRerolls = 1
SYMMETRY Interchangeable
INVARIANTS SoundAtEveryPut OthersUntouched
PROPERTY RollbackKeepsTree
