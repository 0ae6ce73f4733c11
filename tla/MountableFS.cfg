SPECIFICATION MountSpec
CONSTANTS
  a = a
  b = b
  ab = ab
  Tree = tree
  Adapter = adapter
  Paths <- MCPaths
  Contents = {0, 1}
  Empty = 0
  Stores = {root, tree}
  Adapters = {adapter}
  Wrapped <- MCWrapped
  Folder <- MCFolder
  RootFs = root
  MountPoints <- MCMountPoints
  Suffix <- MCSuffix
  Size <- MCSize
  Written = {1}
  MaxNodes = 3
CHECK_DEADLOCK FALSE
INVARIANTS NearestServes ThereIsListed
PROPERTY RenameLosesNothing
