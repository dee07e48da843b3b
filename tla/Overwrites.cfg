SPECIFICATION Spec
CONSTANTS
  n1 = n1
  n2 = n2
  x = x
  None = None
  Missing = Missing
  Absent = Absent
  Requests = {r1, r2}
  CommitIds = {c1, c2}
  Contents = {x, y}
  NodeIds = {n1, n2}
  TemplateIds = {t1}
  Layouts <- MCLayouts
  Imported = x
  MaxCrashes = 1
  MaxFaults = 1
  MaxEdits = 1
CHECK_DEADLOCK FALSE
PROPERTIES
  NothingOverwritten
