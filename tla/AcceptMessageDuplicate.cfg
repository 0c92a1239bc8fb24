CONSTANTS
  p1 = p1
  p2 = p2
  p3 = p3
  k1 = k1
  None = None
  Requests = {p1, p2}
  KeyOf <- Twice
  PoolSize = 3
  MaxFaults = 0
SPECIFICATION Spec
INVARIANT DuplicatesAreReplayed
CHECK_DEADLOCK FALSE
