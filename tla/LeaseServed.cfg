SPECIFICATION FairSpec
CONSTANTS
  MaxSecond = 2
  Requests <- ApplyAndDry
  Operations = {"apply_blob_metadata", "delete"}
  TagOperations = {"apply_blob_metadata"}
  ApprovalWindow = 1
  MaxApprovals = 1
  ApprovalRequests <- OneApproval
  f1 = f1
  f2 = f2
  Plan <- TwoFiles
  Batches <- NoBatch
  MaxLate = 1
  MaxAsked = 1
  Runners = {r1, r2}
  Users = {}
  BatchLimit = 1
  Impatient = {}
  Faults = {"scan", "connector", "refuse", "unassigned"}
PROPERTIES LeaseIsServed EvidenceArrives
CHECK_DEADLOCK FALSE
