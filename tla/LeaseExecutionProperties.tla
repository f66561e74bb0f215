--------------------- MODULE LeaseExecutionProperties ---------------------
(* What the governed execution of leases promises.                        *)
EXTENDS LeaseExecution

TypeOK ==
  /\ ControlPlaneTypeOK
  /\ pc \in [Callers -> Labels]
  /\ work \in [Callers -> Work]
  /\ todo \in [Callers -> Seq(Item)]
  /\ snap \in [Callers -> [Files -> RowStatus]]
  /\ gone \in [Callers -> BOOLEAN]
  /\ manifests \subseteq Seconds
  /\ plan \in [Seconds -> Seq(Files)]
  /\ rows \in [Seconds -> [Files -> Row]]
  /\ evidence \in [Seconds -> [Files -> RowStatus]]
  /\ beats \subseteq Beat
  /\ written \subseteq Write
  /\ grants \in [Seconds -> 0 .. 2]
  /\ started \in [Seconds -> Seq(Requests)]

\* A blob is written only if the control plane holds an approval, once
\* decided and never taken back, for this execution, that names this kind of
\* operation as its operation or as its action type: whichever of the three
\* ways a write-back takes, and whatever happens to approvals in between
\* (hasApprovedAzureBlobActionApproval).
WritesAreApproved ==
  \A w \in written :
    \E i \in DOMAIN approvals :
      /\ approvals[i].status = "APPROVED"
      /\ approvals[i].execution = w.execution
      /\ {approvals[i].operation, approvals[i].actionType} \cap w.covers # {}

\* Somebody asked for this execution in apply mode with write-back: the
\* request of its job, or a user who started an execution of its id.
AsksToWrite(r) == r = [mode |-> "apply", writeback |-> TRUE]

Wanted(e) ==
  \/ \E i \in DOMAIN created[e] : AsksToWrite(created[e][i])
  \/ \E i \in DOMAIN started[e] : AsksToWrite(started[e][i])

\* A batch writes only for an execution that was wanted: a user who asks for
\* apply in a batch on the execution of a dry run gets nothing written, unless
\* he starts that execution anew for apply (buildManifest, CanApplyWriteback).
BatchWasWanted == \A w \in written : w.batch => Wanted(w.execution)

\* What the control plane shows as completed was written, although results
\* are uploaded from a copy, by several handlers, and some uploads are lost.
EvidenceIsTrue ==
  \A e \in Seconds, f \in Files :
    evidence[e][f] = "completed" =>
      \E w \in written : w.execution = e /\ w.file = f

\* A lease or a job that is shown as completed has a manifest stored, also when
\* heartbeats are lost or processed late, the lease was handed out twice, or
\* another job of the same second took it over.
CompletedWasExecuted ==
  \A l \in Seconds :
    "COMPLETED" \in {lease[l], jobStatus[l]} =>
      l \in manifests

\* Once an item was applied, or failed, nothing plans it anew: the manifest
\* is not replaced under a write-back (SaveManifest), unless the execution was
\* started twice: its lease handed out again, or its id taken by a user.
PlanKept ==
  [][\A e \in Seconds, f \in Files :
       /\ rows[e][f].status \in {"completed", "failed"}
       /\ grants[e] + Len(started[e]) <= 1
       => rows'[e][f].status \in {"completed", "failed"}]_vars

\* A lease that ended stays as it ended, whatever its write-back meets after
\* the final heartbeat: unless it was handed out twice, a heartbeat is late, or
\* another job was created in the same second.
EndIsFinal ==
  [][\A l \in Seconds :
       /\ lease[l] \in Ended
       /\ grants[l] <= 1
       /\ created'[l] = created[l]
       /\ \A b \in beats : b.lease # l
       => lease'[l] = lease[l]]_vars

\* What leases, approvals, manifests and evidence come to, seen from outside.
WantedExecutions == {e \in Seconds : Wanted(e)}
ApprovedOperations ==
  UNION {{approvals[i].execution} \X Covered(approvals[i]) :
           i \in {j \in DOMAIN approvals : approvals[j].status = "APPROVED"}}
ShownFiles == [l \in Seconds |-> {f \in Files : evidence[l][f] = "completed"}]
EndedLeases == {l \in Seconds : "COMPLETED" \in {lease[l], jobStatus[l]}}

Governed == INSTANCE GovernedWriteback
              WITH Executions <- Seconds, wanted <- WantedExecutions,
                   approved <- ApprovedOperations, planned <- manifests,
                   shown <- ShownFiles, ended <- EndedLeases

\* Three ways to write, two stores and the calls between them do as if there were
\* one list of decisions, plans and writes: each is there before what it allows
\* for, and none is taken back (DecideApproval, SaveManifest, HeartbeatLease).
WritebackGoverned == Governed!Spec

\* Every lease that is created comes to an end: it is polled, executed and
\* reported, also when the scan fails and when several agents got it.
LeaseIsServed == \A l \in Seconds : lease[l] = "PENDING" ~> lease[l] \in Ended

\* The evidence of a completed lease reaches the control plane, although it
\* is uploaded after the final heartbeat and after the write-backs.
EvidenceArrives ==
  \A l \in Seconds :
    lease[l] = "COMPLETED" ~> \A f \in Files : evidence[l][f] # "none"

\* "Stale job should be recoverable, cancellable, or marked failed."
\* (docs/everest_troubleshooting_runbook.md:428): a lease whose agent has
\* given up does not stay assigned or running.
StaleLeaseRecovers ==
  \A l \in Seconds :
    lease[l] \in {"ASSIGNED", "RUNNING"} ~> lease[l] \in Ended \cup {"PENDING"}
=============================================================================
