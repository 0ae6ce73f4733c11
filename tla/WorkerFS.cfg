SPECIFICATION Spec
CONSTANTS
  Bytes = {0, 1}
  Zero = 0
  Flags = {"r+"}
  Chunks <- MCChunks
  Lengths = {0}
  MaxFiles = 2
  MaxCalls = 2
  MaxSize = 1
INVARIANTS OneAnswerEach OpenOnBothSides SyncedIsStored
