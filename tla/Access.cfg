SPECIFICATION Spec
CONSTANTS
  Handlers = {h1, h2}
  Names = {n1, n2}
  None = None
  Wanted = {"auditor"}
  Remembers = {TRUE}
  Idle <- IdleTimes
  Life <- LifeTimes
  MaxTokens = 2
  MaxClock = 3
  Faults = {"disk", "crash"}
  AskedRoles = {"viewer", "data_steward", "security_officer", "platform_admin", "contract_owner", "stranger"}
  AskedRegions = {"", "IN", "AE", "EU"}
  AskedPolicies <- SmallPolicySets
  Connectors <- SmallConnectors
  ConnectorCalls <- SmallConnectorCalls
  Providers <- SmallProviders
  ProviderCalls <- SmallProviderCalls
  Patterns <- SmallPatterns
  Objects <- SmallObjects
SYMMETRY Symmetry
INVARIANTS
  GovernanceIsStrict
  CallsAreGated
  ScansEscalate
PROPERTIES
  SessionsEnd
  SessionsLast
CHECK_DEADLOCK FALSE
