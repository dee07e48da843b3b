SPECIFICATION FairSpec
CONSTANTS
  m1 = m1
  m2 = m2
  Messages = {m1, m2}
  Modes = {0, 1}
  MaxEvents = 3
CHECK_DEADLOCK FALSE
INVARIANTS
  OneOwner
  InputConserved
  PromptConfined
  DeferredWakesArrive
  ClosedIsQuiet
PROPERTIES
  TurnsClaimClear
  EverythingSettles
