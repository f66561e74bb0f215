------------------------- MODULE MCLeaseExecution -------------------------
(* Small instances of LeaseExecution for TLC.                             *)
EXTENDS LeaseExecutionProperties

CONSTANTS f1, f2

TwoFiles == <<f1, f2>>
OneFile == <<f1>>
NoBatch == {}
OneOrNone == {<<f1>>, <<>>}
Apply1 == {[mode |-> "apply", writeback |-> TRUE]}
ApplyAndDry == Apply1 \cup {[mode |-> "dry_run", writeback |-> TRUE]}
\* An approval of the write-back, and one of another operation whose action
\* type is the write-back's.
OneApproval == {[operation |-> "apply_blob_metadata", actionType |-> "other"]}
OtherApproval == {[operation |-> "other", actionType |-> "apply_blob_metadata"]}
=============================================================================
