SPECIFICATION FairSpec
CONSTANTS
  m1 = m1
  m2 = m2
  Messages = {m1, m2}
  MaxCalls = 3
  MaxParallel = 2
  MaxCancels = 2
  MaxMaintenance = 1
  MaxChanges = 1
CHECK_DEADLOCK FALSE
INVARIANTS
  TurnsAreLegal
  WakesArrive
  ToolsScheduled
PROPERTIES
  NoStartAfterAbort
  DisposalStartsNothing
  Converges
