SPECIFICATION Spec
CONSTANTS
  Args <- OptionArgs
  MaxThreads = 1
  MaxRank = 2
  ServerSize = 5
  NumPrefetch = 2
  Word = 12
  MayClose = FALSE
  MaySplit = FALSE
PROPERTY OnlyNumSetsOperations
