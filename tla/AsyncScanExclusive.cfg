SPECIFICATION Spec
CONSTANTS
  Workers = {w1, w2, w3}
  NoWorker = NoWorker
  Operators = {o1, o2}
  Listing <- OverlappingListing
  PageSize = 2
  Limit = 6
  MaxPageRetries = 1
  InventoryCap = 4
  Requests = {"fail", "reclaim"}
  Faults = {"credentials", "throttle", "list", "crash", "torn"}
SYMMETRY ProcessSymmetry
INVARIANTS
  OneScanner
  LimitKept
  CompletedIsCounted
PROPERTIES
  ProgressKept
CHECK_DEADLOCK FALSE
