SPECIFICATION FairSpec
CONSTANTS
  Args <- BenchmarkArgs
  MaxThreads = 2
  MaxRank = 2
  ServerSize = 7
  NumPrefetch = 2
  Word = 12
  MayClose = TRUE
  MaySplit = TRUE
INVARIANTS
  ClientInv
  KeysInRange
  Predicted
PROPERTY Finishes
