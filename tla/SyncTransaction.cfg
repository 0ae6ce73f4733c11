SPECIFICATION TxSpec
CONSTANTS
  Keys = {k1, k2}
  Values = {v1, v2}
  None = none
  Unstashed = unstashed
INVARIANTS UndoLogSufficient
PROPERTY AbortRestores
