CONSTANTS
  m1 = m1
  m2 = m2
  r1 = r1
  None = None
  Messages = {m1}
  RecipientOf <- OneMessage
  Responses <- AnyResponse
  Marketing = {}
  Workers = {w1}
  MaxAttempts = 2
  ReadBatch = 1
  DeferredBatch = 1
  MaxFaults = 2
  MaxHolds = 1
  MaxEntries = 8
SPECIFICATION FairSpec
INVARIANTS
  TypeOK
  DeferredHasRetryTime
  RetryBudget
  AttemptsAccounted
  TimelineTruthful
PROPERTIES
  ImplementsLifecycle
  EveryMessageSettles
  PendingIsAcked
