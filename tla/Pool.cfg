SPECIFICATION Spec
CONSTANTS
  PoolSizes = {0, 3}
  Wrap = 8
  Getters = {g1, g2}
  Closers = {c1, c2}
  MaxGets = 10
CHECK_DEADLOCK FALSE
 
 
INVARIANT Balanced
INVARIANT ClosedWhenDone
