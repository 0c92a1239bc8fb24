SPECIFICATION Spec
CONSTANTS
  Locals <- SomeLocals
  baseDelays <- TwoDelays
  HoldDelay = 4
  maxAttempts = 4
  MaxChanges = 3
  MaxFaults = 1
INVARIANTS TypeOK OutageSurvived OutagePoisonsNobody CodeAgrees DeadLettersWereRefused
PROPERTIES DelaysEscalate EveryMessageEnds RecoveryDelivers
CHECK_DEADLOCK FALSE
