--------------------------- MODULE LeaseExecution ---------------------------
(***************************************************************************)
(* How Data Agents execute the control plane's leases, and how approved    *)
(* write-backs reach the blobs: the handler of run-next-lease              *)
(* (internal/api/controlplane_handlers.go) with the automatic write-back   *)
(* it ends in, the batch write-back and the single action that a portal    *)
(* user asks for (writeback_batch_handlers.go,                             *)
(* azureblob_actions_handlers.go), the executions that a user starts       *)
(* without a lease (server.go), the agent's local store                    *)
(* (internal/localstore/duckdbstore), and the calls between agent and      *)
(* control plane.                                                          *)
(*                                                                         *)
(* All of these handlers work under the context of the HTTP request that   *)
(* started them: once its caller has gone (the agent's own poller gives up *)
(* after 10 minutes), every call and every local query fails, and the      *)
(* handler goes on.  Calls may be lost, a heartbeat may be processed after *)
(* its caller has given it up, and the agent may crash.                    *)
(*                                                                         *)
(* Both stores are SQLite files opened without a busy timeout, through a   *)
(* pool of connections.  A write is refused while another connection reads *)
(* and an error is returned: that happens to the write in NextLease, made  *)
(* while its own query is open, and to the agent's handlers when they use  *)
(* the local store at the same time.                                       *)
(***************************************************************************)
EXTENDS ControlPlane, FiniteSets

CONSTANTS Runners,     \* concurrent run-next-lease handlers
          Users,       \* concurrent requests of portal users
          Plan,        \* the risky files of a lease's scan, as the action plan
                       \* orders them
          Batches,     \* the risky files of the batches that a user may name
          MaxAsked,    \* bound: jobs of one second, and executions of its id that
                       \* users start, together
          BatchLimit,  \* how many items of the plan a batch applies
          MaxLate,     \* bound: heartbeats that are late at the same time
          Impatient,   \* handlers whose caller may go away
          Faults       \* what else the environment may do: "lose" and "delay"
                       \* calls, "crash", fail the "scan" or the "connector",
                       \* "refuse" a write-back, keep a lease "unassigned",
                       \* find the local store "busy"

Files == {Plan[i] : i \in DOMAIN Plan}
Callers == Runners \cup Users

ASSUME LeaseExecutionAssumption ==
  /\ Runners \cap Users = {}
  /\ Plan \in Seq(Files)
  /\ Batches \subseteq Seq(Files)
  /\ MaxAsked \in Nat
  /\ Len(Plan) > 0
  /\ BatchLimit \in Nat

VARIABLES
  pc,        \* where each handler stands
  work,      \* what it works on
  todo,      \* the items of the action plan it still has to apply
  snap,      \* the action results it read and is about to upload
  gone,      \* whether its caller has gone
  manifests, \* the executions whose manifest is stored
  plan,      \* the action plan of each execution's manifest, in its order
  rows,      \* the manifest's status and Guardian decision per execution and file
  evidence,  \* the action results that the control plane holds
  beats,     \* heartbeats given up by their sender, still to be processed
  written,   \* history: the writes that reached Azure
  grants,    \* history: how often each lease was handed out, up to twice
  started    \* history: what users asked of each execution that they started

locals == <<pc, work, todo, snap, gone>>
platform == <<clock, created, lease, jobStatus, approvals>>
store == <<manifests, plan, rows>>
history == <<written, grants, started>>
vars == <<platform, locals, store, evidence, beats, history>>

Labels == {"idle", "accepted", "scan", "start", "finished", "aborted", "approve",
           "list", "apply", "completed", "failed", "collect", "upload"}
RowStatus == {"none", "planned_dry_run", "guardian_approved_pending_apply",
              "completed", "failed"}
Row == [status : RowStatus, guardian : {"pending", "allow"}]
Item == [file : Files, guardian : {"pending", "allow"}]
Kinds == {"run", "auto", "start", "batch", "action"}
Work == [kind : Kinds, execution : Seconds \cup {0}, files : Seq(Files),
         covers : SUBSET Operations, mode : {"dry_run", "apply"}, writeback : BOOLEAN]
Write == [execution : Seconds, file : Files, covers : SUBSET Operations, batch : BOOLEAN]
Beat == [lease : Seconds, status : LeaseStatus]

NoWork == [kind |-> "run", execution |-> 0, files |-> <<>>, covers |-> {},
           mode |-> "dry_run", writeback |-> FALSE]
NoResults == [f \in Files |-> "none"]
NoRows == [f \in Files |-> [status |-> "none", guardian |-> "pending"]]

\* apply mode with write-back enabled
MayWrite(c) == work[c].mode = "apply" /\ work[c].writeback

Goto(c, label) == pc' = [pc EXCEPT ![c] = label]

\* A query of the local store fails.
StoreFails(c) ==
  \/ gone[c]
  \/ "busy" \in Faults /\ \E d \in Callers \ {c} : pc[d] # "idle"

Return(c) ==
  /\ Goto(c, "idle")
  /\ work' = [work EXCEPT ![c] = NoWork]
  /\ todo' = [todo EXCEPT ![c] = <<>>]
  /\ snap' = [snap EXCEPT ![c] = NoResults]
  /\ gone' = [gone EXCEPT ![c] = FALSE]

-----------------------------------------------------------------------------
(* Weakened forms of operators below, which the properties must tell apart. *)

\* The manifest allows every planned action, whatever the lease's mode is.
PlannedAllowed(c) ==
  [f \in Files |-> [status |-> "guardian_approved_pending_apply", guardian |-> "allow"]]

\* The item is marked as completed even if the connector failed.
MarkCompleted(c) ==
  /\ pc[c] \in {"completed", "failed"}
  /\ rows[work[c].execution][Head(todo[c]).file].status # "none"
  /\ rows' = [rows EXCEPT ![work[c].execution][Head(todo[c]).file].status = "completed"]
  /\ todo' = [todo EXCEPT ![c] = Tail(@)]
  /\ Goto(c, "apply")
  /\ UNCHANGED <<platform, work, snap, gone, manifests, plan, evidence, beats, history>>

\* An item whose write failed is planned again.
MarkRetried(c) ==
  /\ pc[c] \in {"completed", "failed"}
  /\ rows[work[c].execution][Head(todo[c]).file].status # "none"
  /\ rows' = [rows EXCEPT ![work[c].execution][Head(todo[c]).file].status =
                IF pc[c] = "failed" THEN "guardian_approved_pending_apply" ELSE pc[c]]
  /\ todo' = [todo EXCEPT ![c] = Tail(@)]
  /\ Goto(c, "apply")
  /\ UNCHANGED <<platform, work, snap, gone, manifests, plan, evidence, beats, history>>

\* A write-back that ends ends the lease's handler, too.
EndWritebackReturns(c) == Return(c)

\* A write-back that is blocked fails the lease.
BlockAborts(c) ==
  /\ pc[c] = "approve"
  /\ Goto(c, "aborted")
  /\ UNCHANGED <<platform, work, todo, snap, gone, store, evidence, beats, history>>

\* A scan that failed is reported as finished.
ScanFailsFinished(c) ==
  /\ pc[c] = "scan"
  /\ gone[c] \/ "scan" \in Faults
  /\ Goto(c, "finished")
  /\ UNCHANGED <<platform, work, todo, snap, gone, store, evidence, beats, history>>

\* A scan that failed ends the handler without a heartbeat.
ScanFailsSilently(c) ==
  /\ pc[c] = "scan"
  /\ gone[c] \/ "scan" \in Faults
  /\ Return(c)
  /\ UNCHANGED <<platform, store, evidence, beats, history>>

-----------------------------------------------------------------------------
(* Calls from the agent to the control plane. *)

\* A heartbeat whose error the handler ignores: it is stored, or lost, or
\* processed after the client has given it up.
Beats(c, l, status) ==
  \/ /\ ~gone[c]
     /\ HeartbeatLease(l, status)
     /\ UNCHANGED beats
  \/ /\ gone[c] \/ "lose" \in Faults
     /\ UNCHANGED <<lease, jobStatus, beats>>
  \/ /\ ~gone[c]
     /\ "delay" \in Faults
     /\ Cardinality(beats) < MaxLate
     /\ beats' = beats \cup {[lease |-> l, status |-> status]}
     /\ UNCHANGED <<lease, jobStatus>>

LateBeat(b) ==
  /\ b \in beats
  /\ HeartbeatLease(b.lease, b.status)
  /\ beats' = beats \ {b}
  /\ UNCHANGED <<clock, created, approvals, locals, store, evidence, history>>

-----------------------------------------------------------------------------
(* run-next-lease. *)

\* The lease is handed out whether or not the assignment could be stored, and
\* assigned whether or not the answer reaches the agent.
NextLease(c, l) ==
  /\ pc[c] = "idle"
  /\ IsNext(l)
  /\ \/ Assigned(l)
     \/ "unassigned" \in Faults /\ UNCHANGED lease
  /\ grants' = [grants EXCEPT ![l] = IF @ < 2 THEN @ + 1 ELSE 2]
  /\ \/ /\ Goto(c, "accepted")
        /\ work' = [work EXCEPT ![c] = [kind |-> "run", execution |-> l,
                                        files |-> Plan,
                                        covers |-> TagOperations,
                                        mode |-> RequestOf(l).mode,
                                        writeback |-> RequestOf(l).writeback]]
     \/ /\ "lose" \in Faults
        /\ UNCHANGED <<pc, work>>
  /\ UNCHANGED <<clock, created, jobStatus, approvals, todo, snap, gone, store,
                 evidence, beats, written, started>>

Accept(c) ==
  /\ pc[c] = "accepted"
  /\ Beats(c, work[c].execution, "RUNNING")
  /\ Goto(c, "scan")
  /\ UNCHANGED <<clock, created, approvals, work, todo, snap, gone, store, evidence, history>>

\* Listing the containers and storing the normalized files; the plan's files
\* are the same in every scan.
Scan(c) ==
  /\ pc[c] = "scan"
  /\ ~gone[c]
  /\ Goto(c, "start")
  /\ UNCHANGED <<platform, work, todo, snap, gone, store, evidence, beats, history>>

\* No scope, no connection string, or a scan or a local store that fails.
ScanFails(c) ==
  /\ pc[c] = "scan"
  /\ gone[c] \/ "scan" \in Faults
  /\ Goto(c, "aborted")
  /\ UNCHANGED <<platform, work, todo, snap, gone, store, evidence, beats, history>>

\* A portal user starts an execution: of any id, a lease's too, in any mode and
\* on any batch in the local store (no record for one it does not know), and
\* nobody asks for a role or an approval.  (The Azure Blob form of the request
\* makes up an id of its own, which is one that no job has.)
StartExecution(c, e, r, b) ==
  /\ pc[c] = "idle"
  /\ Len(created[e]) + Len(started[e]) < MaxAsked
  /\ started' = [started EXCEPT ![e] = Append(@, r)]
  /\ work' = [work EXCEPT ![c] = [kind |-> "start", execution |-> e, files |-> b,
                                  covers |-> {}, mode |-> r.mode,
                                  writeback |-> r.writeback]]
  /\ Goto(c, "start")
  /\ UNCHANGED <<platform, todo, snap, gone, store, evidence, beats, written,
                 grants>>

\* buildManifest: the Guardian allows the planned actions of an execution that
\* may write.
Planned(c) ==
  [f \in Files |->
     IF \A i \in DOMAIN work[c].files : work[c].files[i] # f THEN NoRows[f]
     ELSE IF MayWrite(c)
     THEN [status |-> "guardian_approved_pending_apply", guardian |-> "allow"]
     ELSE [status |-> "planned_dry_run", guardian |-> "pending"]]

\* The orchestrator replaces the execution's manifest in one transaction.
Start(c) ==
  /\ pc[c] = "start"
  /\ ~gone[c]
  /\ manifests' = manifests \cup {work[c].execution}
  /\ plan' = [plan EXCEPT ![work[c].execution] = work[c].files]
  /\ rows' = [rows EXCEPT ![work[c].execution] = Planned(c)]
  /\ IF work[c].kind = "start" THEN Return(c)
     ELSE Goto(c, "finished") /\ UNCHANGED <<work, todo, snap, gone>>
  /\ UNCHANGED <<platform, evidence, beats, history>>

\* Policy, workflow, the batch, Guardian or the manifest's transaction fail.
StartFails(c) ==
  /\ pc[c] = "start"
  /\ gone[c] \/ "scan" \in Faults
  /\ IF work[c].kind = "start" THEN Return(c)
     ELSE Goto(c, "aborted") /\ UNCHANGED <<work, todo, snap, gone>>
  /\ UNCHANGED <<platform, store, evidence, beats, history>>

\* The final heartbeat comes before write-back and evidence.
ReportCompleted(c) ==
  /\ pc[c] = "finished"
  /\ Beats(c, work[c].execution, "COMPLETED")
  /\ Goto(c, IF MayWrite(c) THEN "approve" ELSE "collect")
  /\ work' = [work EXCEPT ![c].kind = IF MayWrite(c) THEN "auto" ELSE "run"]
  /\ UNCHANGED <<clock, created, approvals, todo, snap, gone, store, evidence, history>>

ReportFailed(c) ==
  /\ pc[c] = "aborted"
  /\ Beats(c, work[c].execution, "FAILED")
  /\ Return(c)
  /\ UNCHANGED <<clock, created, approvals, store, evidence, history>>

-----------------------------------------------------------------------------
(* Write-backs: automatic, as a batch, or one action. *)

\* A portal user asks for a batch, with a mode of his own.
Batch(c, e, r) ==
  /\ pc[c] = "idle"
  /\ work' = [work EXCEPT ![c] = [kind |-> "batch", execution |-> e, files |-> <<>>,
                                  covers |-> TagOperations, mode |-> r.mode,
                                  writeback |-> r.writeback]]
  /\ Goto(c, IF r.mode = "apply" /\ r.writeback THEN "approve" ELSE "list")
  /\ UNCHANGED <<platform, todo, snap, gone, store, evidence, beats, history>>

\* A portal user executes one action; the intent's Guardian decision, "allow",
\* stands in for a pending one.  (Without apply mode and write-back the
\* request only leaves a plan.)
Action(c, e, f, o) ==
  /\ pc[c] = "idle"
  /\ work' = [work EXCEPT ![c] = [kind |-> "action", execution |-> e, files |-> <<>>,
                                  covers |-> IF o \in TagOperations THEN TagOperations ELSE {o},
                                  mode |-> "apply", writeback |-> TRUE]]
  /\ todo' = [todo EXCEPT ![c] = <<[file |-> f, guardian |-> "allow"]>>]
  /\ Goto(c, "approve")
  /\ UNCHANGED <<platform, snap, gone, store, evidence, beats, history>>

\* What follows a write-back: a lease's handler uploads its evidence, a
\* request is answered.
EndWriteback(c) ==
  IF work[c].kind = "auto"
  THEN /\ Goto(c, "collect")
       /\ work' = [work EXCEPT ![c].kind = "run"]
       /\ todo' = [todo EXCEPT ![c] = <<>>]
       /\ snap' = [snap EXCEPT ![c] = NoResults]
       /\ UNCHANGED gone
  ELSE Return(c)

HasApproval(c) ==
  \E i \in DOMAIN approvals :
    /\ Listed(i, work[c].execution)
    /\ Covered(approvals[i]) \cap work[c].covers # {}

Approve(c) ==
  /\ pc[c] = "approve"
  /\ ~gone[c]
  /\ HasApproval(c)
  /\ Goto(c, IF work[c].kind = "action" THEN "apply" ELSE "list")
  /\ UNCHANGED <<platform, work, todo, snap, gone, store, evidence, beats, history>>

\* The role or the intent is refused, there is no approval, or none that could
\* be verified.
Block(c) ==
  /\ pc[c] = "approve"
  /\ gone[c] \/ Faults \cap {"lose", "refuse"} # {} \/ ~HasApproval(c)
  /\ EndWriteback(c)
  /\ UNCHANGED <<platform, store, evidence, beats, history>>

\* The first items of the execution's plan, done or not.
Items(e) ==
  LET size == IF BatchLimit < Len(plan[e]) THEN BatchLimit ELSE Len(plan[e])
  IN  [i \in 1 .. size |-> [file |-> plan[e][i], guardian |-> rows[e][plan[e][i]].guardian]]

ListActionPlan(c) ==
  /\ pc[c] = "list"
  /\ \/ /\ ~gone[c]
        /\ todo' = [todo EXCEPT ![c] = Items(work[c].execution)]
        /\ Goto(c, "apply")
        /\ UNCHANGED <<work, snap, gone>>
     \/ StoreFails(c) /\ EndWriteback(c)
  /\ UNCHANGED <<platform, store, evidence, beats, history>>

CanApplyWriteback(c) == MayWrite(c) /\ Head(todo[c]).guardian = "allow"

Skip(c) ==
  /\ pc[c] = "apply"
  /\ todo[c] # <<>>
  /\ ~CanApplyWriteback(c)
  /\ todo' = [todo EXCEPT ![c] = Tail(@)]
  /\ UNCHANGED <<platform, pc, work, snap, gone, store, evidence, beats, history>>

Writes(c) ==
  written' = written \cup {[execution |-> work[c].execution, file |-> Head(todo[c]).file,
                            covers |-> work[c].covers, batch |-> work[c].kind # "action"]}

\* The connector's call; one that fails may have reached Azure.
Apply(c) ==
  /\ pc[c] = "apply"
  /\ todo[c] # <<>>
  /\ CanApplyWriteback(c)
  /\ \/ /\ ~gone[c]
        /\ Writes(c)
        /\ Goto(c, "completed")
     \/ /\ gone[c] \/ "connector" \in Faults
        /\ Writes(c) \/ UNCHANGED written
        /\ Goto(c, "failed")
  /\ UNCHANGED <<platform, work, todo, snap, gone, store, evidence, beats, grants,
                 started>>

\* UpdateManifestActionStatus, its errors ignored; a failed single action
\* does not touch the manifest.
Mark(c) ==
  /\ pc[c] \in {"completed", "failed"}
  /\ \/ /\ ~gone[c]
        /\ pc[c] = "completed" \/ work[c].kind # "action"
        /\ rows[work[c].execution][Head(todo[c]).file].status # "none"
        /\ rows' = [rows EXCEPT ![work[c].execution][Head(todo[c]).file].status = pc[c]]
     \/ /\ \/ StoreFails(c)
           \/ pc[c] = "failed" /\ work[c].kind = "action"
           \/ rows[work[c].execution][Head(todo[c]).file].status = "none"
        /\ UNCHANGED rows
  /\ todo' = [todo EXCEPT ![c] = Tail(@)]
  /\ Goto(c, "apply")
  /\ UNCHANGED <<platform, work, snap, gone, manifests, plan, evidence, beats, history>>

Applied(c) ==
  /\ pc[c] = "apply"
  /\ todo[c] = <<>>
  /\ IF work[c].kind = "action"
       THEN Return(c)
       ELSE Goto(c, "collect") /\ UNCHANGED <<work, todo, snap, gone>>
  /\ UNCHANGED <<platform, store, evidence, beats, history>>

-----------------------------------------------------------------------------
(* Uploading the action results, at the end of a batch and of a lease. *)

Results(e) == [f \in Files |-> rows[e][f].status]

Collect(c) ==
  /\ pc[c] = "collect"
  /\ \/ /\ ~gone[c]
        /\ snap' = [snap EXCEPT ![c] = Results(work[c].execution)]
        /\ Goto(c, "upload")
        /\ UNCHANGED <<work, todo, gone>>
     \/ StoreFails(c) /\ EndWriteback(c)
  /\ UNCHANGED <<platform, store, evidence, beats, history>>

Upload(c) ==
  /\ pc[c] = "upload"
  /\ \/ /\ ~gone[c]
        /\ evidence' = [evidence EXCEPT ![work[c].execution] = snap[c]]
     \/ /\ gone[c] \/ "lose" \in Faults
        /\ UNCHANGED evidence
  /\ EndWriteback(c)
  /\ UNCHANGED <<platform, store, beats, history>>

-----------------------------------------------------------------------------
(* The environment. *)

\* The caller's connection closes.
HangUp(c) ==
  /\ c \in Impatient
  /\ pc[c] # "idle"
  /\ ~gone[c]
  /\ gone' = [gone EXCEPT ![c] = TRUE]
  /\ UNCHANGED <<platform, pc, work, todo, snap, store, evidence, beats, history>>

\* The agent's process dies; its local store and the control plane stay.
Crash ==
  /\ "crash" \in Faults
  /\ \E c \in Callers : pc[c] # "idle"
  /\ pc' = [c \in Callers |-> "idle"]
  /\ work' = [c \in Callers |-> NoWork]
  /\ todo' = [c \in Callers |-> <<>>]
  /\ snap' = [c \in Callers |-> NoResults]
  /\ gone' = [c \in Callers |-> FALSE]
  /\ UNCHANGED <<platform, store, evidence, beats, history>>

Tick ==
  /\ clock < MaxSecond
  /\ clock' = clock + 1
  /\ UNCHANGED <<created, lease, jobStatus, approvals, locals, store, evidence, beats,
                 history>>

UserCreatesJob ==
  /\ Len(created[clock]) + Len(started[clock]) < MaxAsked
  /\ \E r \in Requests : CreateJob(r)
  /\ UNCHANGED <<clock, approvals, locals, store, evidence, beats, history>>

UserApproves ==
  /\ \/ \E e \in Seconds, r \in ApprovalRequests : CreateApproval(e, r)
     \/ \E i \in DOMAIN approvals :
          \/ ApprovalFallsDue(i)
          \/ GetApproval(i)
          \/ \E s \in {"APPROVED", "REJECTED"} : DecideApproval(i, s)
  /\ UNCHANGED <<clock, created, lease, jobStatus, locals, store, evidence, beats, history>>

-----------------------------------------------------------------------------
Init ==
  /\ ControlPlaneInit
  /\ pc = [c \in Callers |-> "idle"]
  /\ work = [c \in Callers |-> NoWork]
  /\ todo = [c \in Callers |-> <<>>]
  /\ snap = [c \in Callers |-> NoResults]
  /\ gone = [c \in Callers |-> FALSE]
  /\ manifests = {}
  /\ plan = [e \in Seconds |-> <<>>]
  /\ rows = [e \in Seconds |-> NoRows]
  /\ evidence = [e \in Seconds |-> NoResults]
  /\ beats = {}
  /\ written = {}
  /\ grants = [l \in Seconds |-> 0]
  /\ started = [e \in Seconds |-> <<>>]

Step(c) ==
  \/ Accept(c) \/ Scan(c) \/ ScanFails(c) \/ Start(c) \/ StartFails(c)
  \/ ReportCompleted(c) \/ ReportFailed(c)
  \/ Approve(c) \/ Block(c) \/ ListActionPlan(c) \/ Skip(c) \/ Apply(c) \/ Mark(c)
  \/ Applied(c) \/ Collect(c) \/ Upload(c)

Next ==
  \/ \E c \in Runners, l \in Seconds : NextLease(c, l)
  \/ \E c \in Users, e \in Seconds :
       \/ \E r \in Requests : Batch(c, e, r)
       \/ \E r \in Requests, b \in Batches : StartExecution(c, e, r, b)
       \/ \E f \in Files, o \in Operations : Action(c, e, f, o)
  \/ \E c \in Callers : Step(c) \/ HangUp(c)
  \/ \E b \in beats : LateBeat(b)
  \/ Crash \/ Tick \/ UserCreatesJob \/ UserApproves

Spec == Init /\ [][Next]_vars

\* A handler that runs goes on; the agent polls for leases
\* (cmd/policy-agent, startControlPlaneLeasePoller).
Fairness ==
  /\ \A c \in Runners : WF_vars(\E l \in Seconds : NextLease(c, l))
  /\ \A c \in Callers : WF_vars(Step(c))

FairSpec == Spec /\ Fairness
=============================================================================
