\* Three threads that contend for two blocks, one of the initial pool.
CONSTANTS
  b1 = b1
  Thread = {t1, t2, t3}
  Block = {b1, b2}
  Nil = Nil
  InitialPool <- MCPool
  SHOULD_BE_ON_FREELIST = 8
SPECIFICATION FairSpec
INVARIANTS
  FreeListInv
  NoABA
  NothingLost
PROPERTIES
  ImplementsPool
  CallsEnd
