SPECIFICATION FairSpec
CONSTANTS
  MaxSecond = 1
  Requests <- ApplyAndDry
  Operations = {"apply_blob_metadata"}
  TagOperations = {"apply_blob_metadata"}
  ApprovalWindow = 1
  MaxApprovals = 1
  ApprovalRequests <- OneApproval
  f1 = f1
  f2 = f2
  Plan <- TwoFiles
  Batches <- NoBatch
  MaxLate = 1
  MaxAsked = 1
  Runners = {r1}
  Users = {}
  BatchLimit = 1
  Impatient = {r1}
  Faults = {}
PROPERTIES StaleLeaseRecovers
CHECK_DEADLOCK FALSE
