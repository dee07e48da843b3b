SPECIFICATION Spec
CONSTANTS
  n1 = n1
  n2 = n2
  x = x
  None = None
  Missing = Missing
  Absent = Absent
  Requests = {r1, r2, r3}
  CommitIds = {c1, c2, c3}
  Contents = {x, y}
  NodeIds = {n1, n2}
  TemplateIds = {t1}
  Layouts <- MCLayouts
  Imported = x
  MaxCrashes = 1
  MaxFaults = 0
  MaxEdits = 0
SYMMETRY Interchangeable
CHECK_DEADLOCK FALSE
INVARIANTS
  HistoryReadable
PROPERTIES
  RefinesHistory
