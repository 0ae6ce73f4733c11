SPECIFICATION Spec
CONSTANTS
  Clients = {c1, c2}
  Null = Null
  Bytes = {0, 1}
  Zero = 0
  Flags = {"rs+", "wx", "a+"}
  Chunks <- MCChunks
  Lengths = {1}
  Places = {1}
  MaxOpens = 1
  MaxSize = 2
SYMMETRY Interchangeable
INVARIANTS CleanMeansStored SizesAgree FoundIsThere
PROPERTY CloseLosesNothing
