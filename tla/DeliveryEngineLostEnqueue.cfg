CONSTANTS
  m1 = m1
  m2 = m2
  r1 = r1
  None = None
  Messages = {m1}
  RecipientOf <- OneMessage
  Responses <- DeliveredOnly
  Marketing = {}
  Workers = {w1}
  MaxAttempts = 2
  ReadBatch = 1
  DeferredBatch = 1
  MaxFaults = 1
  MaxHolds = 0
  MaxEntries = 2
SPECIFICATION FairSpec
PROPERTY FailedEnqueueIsMadeGood
