CONSTANTS
  Thread = {t1, t2, t3}
  k1 = k1
  k2 = k2
  k3 = k3
  Key <- Keys
  Elt = {e1, e2, e3, e4}
  NoBuckets = 2
  HashOf <- Hash
  Null = Null
  Initial <- Old
  Budget = 1
SPECIFICATION HashtblSpec
INVARIANTS
  HashtblTypeOK
  UniqueKeys
  NoDangling
  CountExact
PROPERTIES
  TraversalExact
  OperationsEnd
