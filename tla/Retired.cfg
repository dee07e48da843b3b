SPECIFICATION Spec
CONSTANTS
  m1 = m1
  m2 = m2
  Messages = {m1, m2}
  Modes = {0, 1}
  MaxEvents = 3
SYMMETRY MessageSymmetry
CHECK_DEADLOCK FALSE
INVARIANT
  RetiredIsReplaced
