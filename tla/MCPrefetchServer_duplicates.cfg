\* More predictions than keys (-p above the size of the database).
CONSTANTS
  Client = {c1}
  Worker = {w1, w2}
  MaxTasks = 6
  Task <- MCTask
  NoOne = NoOne
  DBSize = 1
  NumPrefetch = 2
  Commands = {"get"}
  Asked = {0}
  MaxRequests = 2
  MayDrop = FALSE
  MayInterrupt = FALSE
SYMMETRY Symmetry
SPECIFICATION Spec
INVARIANT AssertResponseCount
