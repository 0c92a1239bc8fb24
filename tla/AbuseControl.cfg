SPECIFICATION Spec
CONSTANTS
  Messages = {m1}
  Marketing = {m1}
  Workers = {w1,w2}
  Pollers = {p1}
  Sweepers = {s1}
  hardBounceThresholdPct = 50
  None = None
  MaxEntries = 2
  MaxDecisions = 1
  MaxFaults = 1
INVARIANTS TypeOK
PROPERTIES BlockStands SendsStop AdmissionsStop OverThresholdIsLimited BlockedDrains
CHECK_DEADLOCK FALSE
