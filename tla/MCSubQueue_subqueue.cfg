SPECIFICATION FairSpec
CONSTANTS
  c1 = c1
  c2 = c2
  b1 = b1
  b2 = b2
  b3 = b3
  Consumer = {c1, c2}
  Block = {b1, b2, b3}
  Nil = Nil
  BLOCK_SIZE = 2
  Modulus = 16
  INITIAL_INDEX_SIZE = 1
  Setups <- MCSetups
INVARIANTS
  SubQueueInv
  FindsItsElements
  DestructorIsExact
PROPERTIES
  ImplementsQueue
  Drains
CHECK_DEADLOCK FALSE
