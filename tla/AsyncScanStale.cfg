SPECIFICATION Spec
CONSTANTS
  Workers = {w1, w2}
  NoWorker = NoWorker
  Operators = {o1}
  Listing <- RepeatingListing
  PageSize = 1
  Limit = 0
  MaxPageRetries = 1
  InventoryCap = 4
  Requests = {"pause", "complete", "checkpoint", "reclaim", "reset"}
  Faults = {"slow", "list", "artifact", "crash", "unsaved"}
SYMMETRY ProcessSymmetry
CONSTRAINTS Untouched LeaselessFile
ACTION_CONSTRAINT FailsUntilRestart
VIEW CountersIgnored
INVARIANTS
  NoSkip
  CompletedIsScanned
  ArtifactUnique
PROPERTIES
  LeaseSpec
CHECK_DEADLOCK FALSE
