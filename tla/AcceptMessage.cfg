CONSTANTS
  p1 = p1
  p2 = p2
  p3 = p3
  k1 = k1
  None = None
  Requests = {p1, p2, p3}
  KeyOf <- Thrice
  PoolSize = 4
  MaxFaults = 2
SPECIFICATION FairSpec
INVARIANTS
  TypeOK
  OneMessagePerKey
  EnqueuedAfterCommit
PROPERTIES
  ImplementsSubmit
  EveryRequestAnswered
CHECK_DEADLOCK FALSE
