---------------------------- MODULE ControlPlane ----------------------------
(***************************************************************************)
(* The control plane's store (internal/platform/store.go and               *)
(* approval_store.go): jobs and leases, approvals, and the evidence that   *)
(* Data Agents upload.  Every method holds the store's mutex, so each is   *)
(* one step.                                                               *)
(*                                                                         *)
(* CreateJob names job, lease and execution after the second it runs in,   *)
(* so the three share one key here: the second.  All leases are for one    *)
(* agent id; leases of other agents do not meet these.                     *)
(***************************************************************************)
EXTENDS Naturals, Sequences

CONSTANTS MaxSecond,       \* bound: the seconds in which jobs are created
          Requests,        \* what portal users ask for
          Operations,      \* operations that approvals are requested for
          TagOperations,   \* apply_blob_metadata and apply_blob_index_tags
          ApprovalWindow,  \* the server's limit for a list of approvals
          ApprovalRequests,  \* what approvals are requested for
          MaxApprovals     \* bound: requested approvals

Seconds == 1 .. MaxSecond

\* The two fields of a job request that decide about write-back.
Request == [mode : {"dry_run", "apply"}, writeback : BOOLEAN]

\* An approval names an operation, for which governance is evaluated, and may
\* name an action type of its own; "other" stands for what no write-back asks
\* for, or for nothing.
ApprovalRequest == [operation : Operations \cup {"other"},
                    actionType : Operations \cup {"other"}]

ASSUME ControlPlaneAssumption ==
  /\ MaxSecond \in Nat \ {0}
  /\ Requests \subseteq Request
  /\ TagOperations \subseteq Operations
  /\ ApprovalWindow \in Nat
  /\ ApprovalRequests \subseteq ApprovalRequest
  /\ MaxApprovals \in Nat

VARIABLES
  clock,      \* the current second
  created,    \* per second: the requests of the jobs created in it, in order
  lease,      \* status of each lease
  jobStatus,  \* status of each job, without its prefix "LEASE_"
  approvals   \* the approvals, ordered by updated_at

Ended == {"COMPLETED", "FAILED"}
LeaseStatus == {"none", "PENDING", "ASSIGNED", "RUNNING"} \cup Ended
JobStatus == {"none", "CREATED", "RUNNING"} \cup Ended
ApprovalStatus == {"PENDING", "LATE", "EXPIRED", "APPROVED", "REJECTED"}
Approval == [execution : Seconds, operation : Operations \cup {"other"},
             actionType : Operations \cup {"other"}, status : ApprovalStatus]

-----------------------------------------------------------------------------
(* Weakened forms of operators below, which the properties must tell apart. *)

\* The list of approvals is not filtered by status.
ListedAny(i, execution) ==
  /\ i + ApprovalWindow > Len(approvals)
  /\ approvals[i].execution = execution

-----------------------------------------------------------------------------
(* Jobs and leases. *)

\* A second job of the same second replaces the job, the lease and whatever
\* state the lease was in.
CreateJob(r) ==
  /\ created' = [created EXCEPT ![clock] = Append(@, r)]
  /\ lease' = [lease EXCEPT ![clock] = "PENDING"]
  /\ jobStatus' = [jobStatus EXCEPT ![clock] = "CREATED"]

RequestOf(l) == created[l][Len(created[l])]

\* NextLease scans the leases in the order of updated_at for a pending one;
\* a lease is pending only until it is updated for the first time.
IsNext(l) ==
  /\ lease[l] = "PENDING"
  /\ \A k \in Seconds : lease[k] = "PENDING" => l <= k

Assigned(l) == lease' = [lease EXCEPT ![l] = "ASSIGNED"]

\* Any status is stored, whatever the lease's status is and whoever asks.
HeartbeatLease(l, status) ==
  /\ lease' = [lease EXCEPT ![l] = status]
  /\ jobStatus' = [jobStatus EXCEPT ![l] = status]

-----------------------------------------------------------------------------
(* Approvals. *)

CreateApproval(execution, r) ==
  /\ Len(approvals) < MaxApprovals
  /\ approvals' = Append(approvals, [execution |-> execution,
                                     operation |-> r.operation,
                                     actionType |-> r.actionType,
                                     status |-> "PENDING"])

\* The agent takes an approval for its operation and for its action type alike,
\* although the second was never looked at.
Covered(a) == {a.operation, a.actionType} \cap Operations

\* The sequence in which approval i was just updated to the given status.
Updated(i, status) ==
  [j \in DOMAIN approvals |->
     IF j < i THEN approvals[j]
     ELSE IF j < Len(approvals) THEN approvals[j + 1]
     ELSE [approvals[i] EXCEPT !.status = status]]

\* A weakened form of DecideApproval: another decision replaces the first.
DecideAgain(i, status) ==
  /\ approvals[i].status \in {"PENDING", "APPROVED"}
  /\ approvals' = Updated(i, status)

\* The 72 hours of a pending approval pass; nothing is stored yet.
ApprovalFallsDue(i) ==
  /\ approvals[i].status = "PENDING"
  /\ approvals' = [approvals EXCEPT ![i].status = "LATE"]

\* Reading one approval stores its expiry.
GetApproval(i) ==
  /\ approvals[i].status = "LATE"
  /\ approvals' = Updated(i, "EXPIRED")

\* One decision settles an approval that is pending and not due.
DecideApproval(i, status) ==
  /\ approvals[i].status = "PENDING"
  /\ approvals' = Updated(i, status)

\* ListApprovals("APPROVED", execution) takes the newest approvals of all
\* executions first and filters them after.
Listed(i, execution) ==
  /\ i + ApprovalWindow > Len(approvals)
  /\ approvals[i].status = "APPROVED"
  /\ approvals[i].execution = execution

ControlPlaneTypeOK ==
  /\ clock \in Seconds
  /\ created \in [Seconds -> Seq(Requests)]
  /\ lease \in [Seconds -> LeaseStatus]
  /\ jobStatus \in [Seconds -> JobStatus]
  /\ approvals \in Seq(Approval)

ControlPlaneInit ==
  /\ clock = 1
  /\ created = [l \in Seconds |-> <<>>]
  /\ lease = [l \in Seconds |-> "none"]
  /\ jobStatus = [l \in Seconds |-> "none"]
  /\ approvals = <<>>
=============================================================================
