CONSTANTS
  m1 = m1
  m2 = m2
  r1 = r1
  None = None
  Messages = {m1, m2}
  RecipientOf <- OneRecipient
  Responses <- AnyResponse
  Marketing = {m2}
  Workers = {w1}
  MaxAttempts = 2
  ReadBatch = 2
  DeferredBatch = 2
  MaxFaults = 1
  MaxHolds = 0
  MaxEntries = 8
SPECIFICATION Spec
INVARIANTS
  NothingStranded
  BouncedIsSuppressed
PROPERTY NoSendToSuppressed
