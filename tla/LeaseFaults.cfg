SPECIFICATION Spec
CONSTANTS
  MaxSecond = 1
  Requests <- ApplyAndDry
  Operations = {"apply_blob_metadata"}
  TagOperations = {"apply_blob_metadata"}
  ApprovalWindow = 1
  MaxApprovals = 1
  ApprovalRequests <- OtherApproval
  f1 = f1
  f2 = f2
  Plan <- OneFile
  Batches <- OneOrNone
  MaxLate = 1
  MaxAsked = 2
  Runners = {r1}
  Users = {u1}
  Impatient = {r1}
  BatchLimit = 2
  Faults = {"lose", "delay", "crash", "scan", "refuse", "unassigned", "busy"}
INVARIANTS WritesAreApproved BatchWasWanted EvidenceIsTrue CompletedWasExecuted
PROPERTIES PlanKept EndIsFinal WritebackGoverned
CHECK_DEADLOCK FALSE
