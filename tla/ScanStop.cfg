SPECIFICATION StopSpec
CONSTANTS
  Workers = {w1}
  NoWorker = NoWorker
  Operators = {o1}
  Listing <- TinyListing
  PageSize = 1
  Limit = 0
  MaxPageRetries = 1
  InventoryCap = 4
  Requests = {"pause", "cancel", "fail", "checkpoint", "reclaim", "reset"}
  Faults = {"throttle", "list", "slow", "crash", "torn"}
INVARIANTS
  StopsWithinPage
PROPERTIES
  WorkerEnds
CHECK_DEADLOCK FALSE
