SPECIFICATION Spec
CONSTANTS
  i1 = i1
  i2 = i2
  i3 = i3
  doc = doc
  docx = docx
  Nobody = Nobody
  Foreign = Foreign
  None = None
  Imports = {i1, i2}
  Formats = {doc, docx}
  Format <- OfTwo
  MaxName = 4
  Parts = {p1}
  MaxCrashes = 1
  MaxFaults = 1
  MaxForeign = 1
CHECK_DEADLOCK FALSE
INVARIANTS
  RecordComplete
  CommittedKept
  FailureLeavesNoRecord
PROPERTIES
  FilesKept
