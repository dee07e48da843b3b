SPECIFICATION Spec
CONSTANTS
  Seeds <- MCSeeds
  Setups <- MCSetups
  Compressed = TRUE
  MaxEvents = 5
  MaxNotes = 1
  MaxCrashes = 2
  MaxFaults = 1
CHECK_DEADLOCK FALSE
INVARIANTS
  NothingLost
  AckedSurvives
  RanIsRecorded
  NothingStranded
  StoredIsWellFormed
PROPERTIES
  RetiredIsDurable
  RefinesDurableLog
