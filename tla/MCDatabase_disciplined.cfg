\* Three threads that keep writers of a key apart; the process may be killed
\* and the machine fail, one after the other.
CONSTANTS
  Thread = {t1, t2, t3}
  Key = {k1, k2}
  Val = {v1, v2}
  NoVal = NoVal
  NoOne = NoOne
  Capacity = 1
  Commands = {"get", "put", "del"}
  Disciplined = TRUE
  MaxSize = 2
SYMMETRY Symmetry
SPECIFICATION Spec
INVARIANTS
  SizeCoversEntries
  Coherent
  DatabaseInv
PROPERTY ImplementsStore
