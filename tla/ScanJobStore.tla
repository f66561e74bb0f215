---------------------------- MODULE ScanJobStore ----------------------------
(***************************************************************************)
(* The record that AzureBlobScanJobStore keeps for one async Azure Blob    *)
(* scan job, and what each critical section of the store does to it        *)
(* (internal/controlplane/azureblob_scan_jobs.go).                         *)
(*                                                                         *)
(* The operators below are functions of the record.  Every critical        *)
(* section also rewrites the whole job file before it unlocks and ignores  *)
(* the error if it cannot; AsyncScan models the file, the saves that fail  *)
(* and the crash that tears one.                                           *)
(*                                                                         *)
(* Abstracted: identifiers, timestamps, attempt, retry and page counters,  *)
(* last_error and the policy fields, none of which is read back by the     *)
(* code modelled here.  lease_owner, lease_expires_at and heartbeat_at are *)
(* always set and cleared together: they are owner and live, where live    *)
(* means that lease_expires_at is in the future.                           *)
(***************************************************************************)
EXTENDS Naturals

CONSTANTS Workers,    \* worker identifiers; every started goroutine has a fresh one
          NoWorker    \* the empty lease_owner

ASSUME WorkersAssumption == NoWorker \notin Workers

\* "none" before Start, "gone" once the job is no longer in the store's map.
Statuses == {"none", "queued", "running", "paused", "failed",
             "completed", "cancelled", "gone"}

\* The flattened scope and prefix index, the page marker (0 is the empty
\* marker: the first page, or no further page) and objects_scanned.
Checkpoints == [seg : Nat, mark : Nat, objs : Nat]

Jobs == [status  : Statuses,
         cancel  : BOOLEAN,
         cp      : Checkpoints,
         written : Nat,
         owner   : Workers \cup {NoWorker},
         live    : BOOLEAN]

Start0 == [seg |-> 1, mark |-> 0, objs |-> 0]

NoJob == [status |-> "none", cancel |-> FALSE, cp |-> Start0,
          written |-> 0, owner |-> NoWorker, live |-> FALSE]

\* Start: the job as it is queued.
NewJob == [NoJob EXCEPT !.status = "queued"]

\* The job after ResetAll, or after a restart that could not read the file.
GoneJob == [NoJob EXCEPT !.status = "gone"]

Exists(j) == j.status \notin {"none", "gone"}

-----------------------------------------------------------------------------
(* Weakened forms of operators below, which the properties must tell apart. *)

\* Resume starts the scan from scratch.
ResumedFromStart(j) == [j EXCEPT !.status = "running", !.cancel = FALSE, !.cp = Start0]

\* The lease is granted without looking at its holder.
CanAcquireHeld(j, w) == Exists(j) /\ j.status \notin {"completed", "cancelled"}

-----------------------------------------------------------------------------
\* Resume: refused for a terminal job, a no-op for a running one.
ResumeRefused(j) == ~Exists(j) \/ j.status \in {"completed", "cancelled"}

Resumed(j) == IF j.status = "running" THEN j
              ELSE [j EXCEPT !.status = "running", !.cancel = FALSE]

\* transition: the first critical section of Pause, Cancel and Complete, and
\* the only one of Fail.  It does not look at the status it overwrites.
Transition(j, status) == [j EXCEPT !.status = status]

Unleased(j) == [j EXCEPT !.owner = NoWorker, !.live = FALSE]

\* The second critical section of Pause, Cancel and Complete stores the copy
\* that the first one returned, with the lease fields cleared.
WrittenBack(c) ==
  Unleased([c EXCEPT !.cancel = @ \/ c.status = "cancelled"])

Checkpointed(j, cp) == [j EXCEPT !.cp = cp]

NormalizedWritten(j, n) == [j EXCEPT !.written = @ + n]

-----------------------------------------------------------------------------
CanAcquire(j, w) ==
  /\ Exists(j)
  /\ j.status \notin {"completed", "cancelled"}
  /\ j.owner \in {NoWorker, w} \/ ~j.live

Leased(j, w) == [j EXCEPT !.owner = w, !.live = TRUE]

CanHeartbeat(j, w) == Exists(j) /\ j.owner = w

CanRelease(j, w) == Exists(j) /\ j.owner \in {NoWorker, w}

\* ReclaimStaleLeases, for the one job: a running job whose lease expired.
Stale(j) == j.owner # NoWorker /\ j.status = "running" /\ ~j.live

Reclaimed(j) == Unleased(Transition(j, "paused"))
=============================================================================
