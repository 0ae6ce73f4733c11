SPECIFICATION FairSpec
CONSTANTS
  Names = {a, b}
  MaxDepth = 1
  Paths <- MCPaths
  Contents = {0, 1}
  Empty = 0
  MaxPending = 1
  MaxFiles = 1
  KeptOpen <- MCKeptOpen
INVARIANTS InOrder SyncedAtRest NothingRefused
PROPERTY QueueDrains
