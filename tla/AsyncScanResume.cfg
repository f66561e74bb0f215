SPECIFICATION FairSpec
CONSTANTS
  Workers = {w1, w2}
  NoWorker = NoWorker
  Operators = {o1, o2}
  Listing <- TinyListing
  PageSize = 1
  Limit = 0
  MaxPageRetries = 1
  InventoryCap = 4
  Requests = {"pause"}
  Faults = {}
PROPERTIES
  RunningIsScanned
CHECK_DEADLOCK FALSE
