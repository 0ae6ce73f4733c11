SPECIFICATION FairSpec
CONSTANTS
  a = a
  b = b
  x = x
  Paths <- MCPaths
  Readables <- MCReadables
  Contents = {0, 1}
  Empty = 0
INVARIANTS LogOnDisk AllOrNothing StaysTree OthersUntouched
PROPERTY EveryCallReturns
