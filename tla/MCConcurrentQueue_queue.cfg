\* Threads that enqueue, dequeue and use tokens, in the setups of the module.
CONSTANTS
  t1 = t1
  t2 = t2
  t3 = t3
  p1 = p1
  p2 = p2
  p3 = p3
  p4 = p4
  k1 = k1
  k2 = k2
  k3 = k3
  Thread = {t1, t2, t3}
  Token = {k1, k2, k3}
  Producer = {p1, p2, p3, p4}
  Nil = Nil
  Setups <- MCSetups
  HashOf <- MCHash
  INITIAL_IMPLICIT_PRODUCER_HASH_SIZE = 2
  Words = 4
  EXPLICIT_CONSUMER_CONSUMPTION_QUOTA_BEFORE_ROTATE = 2
SPECIFICATION FairSpec
INVARIANTS
  QueueInv
  OneProducerPerThread
  TokenOwnsProducer
  
PROPERTIES
  CallsEnd
  RotationServesAll
CHECK_DEADLOCK FALSE
