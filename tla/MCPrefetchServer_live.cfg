\* Liveness: one connection, which may break, and an interrupt.
CONSTANTS
  Client = {c1}
  Worker = {w1, w2}
  MaxTasks = 4
  Task <- MCTask
  NoOne = NoOne
  DBSize = 3
  NumPrefetch = 1
  Commands = {"get"}
  Asked = {0, 1}
  MaxRequests = 2
  MayDrop = TRUE
  MayInterrupt = TRUE
SPECIFICATION FairSpec
PROPERTIES
  GetAnswered
  ConnectionCloses
  PoolStops
