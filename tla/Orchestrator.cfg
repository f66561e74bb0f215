SPECIFICATION RunFairSpec
CONSTANTS
  v1 = v1
  a1 = a1
  a2 = a2
  e1 = e1
  Resolvers = {c1, c2}
  Executions = {e1}
  Requests <- TwoRequests
  Searchable = TRUE
  Versions = {v1}
  Artifacts = {a1, a2}
  Valid = {a1, a2}
  Leases <- TwoLeases
  Missing = Missing
  NoPolicy = NoPolicy
  Nobody = Nobody
  Faults = {"disk", "crash"}
  Batches <- SmallBatches
  Settings <- AllSettings
INVARIANTS CompletedIsEvidenced ExecutionIsGoverned NotDegradedIsComplete RecordsAgree RecordsAddUp
PROPERTIES RunningEnds
CHECK_DEADLOCK FALSE
