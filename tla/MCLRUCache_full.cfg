\* Four keys in a cache of three, one spare node.
CONSTANTS
  Key = {k1, k2, k3, k4}
  Val = {v1, v2}
  NoVal = NoVal
  Node = {n1, n2, n3, n4}
  Capacity = 3
SPECIFICATION Spec
INVARIANT WellFormed
PROPERTY ImplementsLRU
