SPECIFICATION Spec
CONSTANTS
  s1 = s1
  s2 = s2
  Local = Local
  Sources = {s1, s2, Local}
  Handlers = {h1, h2, h3}
  Nobody = Nobody
  Configured = s1
  Environment = None
  Global = Global
  None = None
  Torn = Torn
  Backup <- TwoSources
  Requests <- MostRequests
  Faults = {"azure", "local", "disk", "unsaved", "crash", "torn"}
  RecordCap = 2
SYMMETRY HandlerSymmetry
INVARIANTS NothingOrphaned SecretsAsAsked AnsweredIsRecorded
CONSTRAINT FailsUndisturbed
CHECK_DEADLOCK FALSE
