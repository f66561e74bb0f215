SPECIFICATION Spec
CONSTANTS
  b1 = b1
  b2 = b2
  c1 = c1
  Blobs = {b1, b2}
  Containers = {c1}
  Holder <- OneContainer
  Handlers = {h1, h2}
  Original = Original
  Absent = Absent
  Source = Source
  Requests <- ManyRequests
  Modes = {"audit", "enforce"}
  Faults = {"azure", "access", "hangup", "others", "unsaved", "crash", "torn"}
  RecordCap = 3
SYMMETRY HandlerSymmetry
INVARIANTS WritesAreGoverned RecordsAreTrue
PROPERTIES NothingLostUnasked
CHECK_DEADLOCK FALSE
