CONSTANTS
  m1 = m1
  m2 = m2
  r1 = r1
  None = None
  Messages = {m1}
  RecipientOf <- OneMessage
  Responses <- BounceOrRetry
  Marketing = {}
  Workers = {w1, w2}
  MaxAttempts = 2
  ReadBatch = 1
  DeferredBatch = 1
  MaxFaults = 0
  MaxHolds = 0
  MaxEntries = 3
SPECIFICATION Spec
SYMMETRY WorkerSymmetry
INVARIANTS
  NothingStrandedWithoutFaults
  BouncedIsSuppressed
