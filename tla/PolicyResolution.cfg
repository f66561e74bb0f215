SPECIFICATION FairSpec
CONSTANTS
  v1 = v1
  a1 = a1
  a2 = a2
  a3 = a3
  Resolvers = {r1, r2}
  Versions = {v1}
  Artifacts = {a1, a2, a3}
  Valid = {a1, a2}
  Leases <- ThreeLeases
  Missing = Missing
  NoPolicy = NoPolicy
  Nobody = Nobody
  Faults = {"key", "disk", "crash"}
INVARIANTS PolicyIsVerified FailsClosed CacheAgrees
PROPERTIES PromiseKept
CHECK_DEADLOCK FALSE
