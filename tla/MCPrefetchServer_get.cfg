\* One connection, every command; it may break, the server may be interrupted.
CONSTANTS
  Client = {c1}
  Worker = {w1, w2}
  MaxTasks = 8
  Task <- MCTask
  NoOne = NoOne
  DBSize = 4
  NumPrefetch = 2
  Commands = {"get", "put", "del"}
  Asked = {0, 2}
  MaxRequests = 2
  MayDrop = TRUE
  MayInterrupt = TRUE
SYMMETRY Symmetry
SPECIFICATION Spec
INVARIANTS
  NoDanglingTask
  OneOwner
  DistinctPredictions
  NoStaleFrame
  MemoryInv
  AnsweringInv
PROPERTY ImplementsService
