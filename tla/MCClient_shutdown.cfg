SPECIFICATION Spec
CONSTANTS
  Args <- ShutdownArgs
  MaxThreads = 1
  MaxRank = 2
  ServerSize = 5
  NumPrefetch = 2
  Word = 12
  MayClose = TRUE
  MaySplit = FALSE
INVARIANT AssertSuccess
