SPECIFICATION FairSpec
CONSTANTS
  v1 = v1
  v2 = v2
  None = None
  Absent = Absent
  Calls = {c1, c2}
  Keys = {k1, k2}
  Values = {v1, v2}
  Change <- MCChange
  MaxCrashes = 1
  MaxFaults = 1
CHECK_DEADLOCK FALSE
INVARIANTS
  AcknowledgedSurvives
PROPERTIES
  RefinesStore
  EverythingSettles
