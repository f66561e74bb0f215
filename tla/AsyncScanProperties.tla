------------------------- MODULE AsyncScanProperties -------------------------
(* What is expected of AsyncScan, and what the documentation says of it. *)
EXTENDS AsyncScan

\* Every variable has its type.
TypeOK ==
  /\ job \in Jobs
  /\ jobFile \in Jobs
  /\ inventory \subseteq Blobs
  /\ artifact \in [Blobs -> Nat]
  /\ intact \in BOOLEAN
  /\ pc \in [Procs -> Labels]
  /\ copy \in [Procs -> Jobs]
  /\ at \in [Workers -> [seg : Nat, mark : Nat]]
  /\ objs \in [Workers -> [job : Nat, current : Nat]]
  /\ page \in [Workers -> [to : Nat, next : Nat]]
  /\ tries \in [Workers -> 0 .. MaxPageRetries]
  /\ snap \in [Workers -> [Blobs -> Nat]]

-----------------------------------------------------------------------------
(* The checkpoint and the results. *)

\* The blobs that come before a segment and marker in the order of the scan.
Before(seg, mark) ==
  {b \in Blobs : \E s \in Segments : \E i \in DOMAIN Listing[s] :
     b = Listing[s][i] /\ (s < seg \/ (s = seg /\ i <= mark))}

\* The account fits the portal state, and the scan is not cut short.
Unbounded == Limit = 0 /\ Cardinality(Blobs) <= InventoryCap

\* A resumed scan skips nothing: unless an operator moved the checkpoint or the
\* inventory was lost, every blob before the stored checkpoint is in the
\* inventory, whatever stale workers, stale copies of the job, failed saves of
\* the job and crashes wrote it.
NoSkip ==
  Unbounded /\ intact => Before(job.cp.seg, job.cp.mark) \subseteq inventory

\* A job that the worker completed has delivered every blob of its scopes.
CompletedIsScanned ==
  Unbounded /\ intact /\ job.status = "completed" => inventory = Blobs

\* The normalized writer de-duplicates by file_id: at most one record per blob,
\* also when two workers rewrite the file at the same time.
ArtifactUnique == \A b \in Blobs : artifact[b] <= 1

-----------------------------------------------------------------------------
(* The lease. *)

\* The job's lease implements the abstract lease.
Lease == INSTANCE ScanLease WITH
  owner <- job.owner, live <- job.live,
  saved <- [owner |-> jobFile.owner, live |-> jobFile.live]
LeaseSpec == Lease!Spec

\* What a worker does between the heartbeat and the end of a page.
Scanning(w) == pc[w] \in {"list", "persist", "read", "write", "record",
                          "checkpoint", "advance"}

\* While nobody clears the lease under a worker and no page outlives it, at
\* most one worker scans, however many resumes and restarts there are.
OneScanner == \A v, w \in Workers : Scanning(v) /\ Scanning(w) => v = w

\* objects_scanned never goes back: no stale copy of the counter is stored.
ProgressKept == [][Exists(job') => job'.cp.objs >= job.cp.objs]_vars

\* A scan with a limit neither reports nor stores more objects than that.
LimitKept ==
  Limit > 0 => job.cp.objs <= Limit /\ Cardinality(inventory) <= Limit

-----------------------------------------------------------------------------
(* The end of a job. *)

\* What the scan goes through: a blob has a place for every prefix it is in.
Places == UNION {{s} \X DOMAIN Listing[s] : s \in Segments}

\* The blobs that have a record.
Recorded == {b \in Blobs : artifact[b] = 1}

\* When a scan ends, records_written counts no record twice; if the limit did not
\* end it, objects_scanned leaves out no place and every blob has its record.
\* (Neither counter is exact.  A crash between a record and its count makes
\* records_written too small.  objects_scanned counts the last page of a segment
\* twice if the server crashes before the advance, or if the job completed and
\* was failed by a worker that came too late: both list the segment again.)
CompletedIsCounted ==
  intact /\ job.status = "completed" =>
    /\ job.written <= Cardinality(Recorded)
    /\ Limit = 0 \/ job.cp.objs < Limit =>
         job.cp.objs >= Cardinality(Places) /\ Recorded = Blobs

\* "Resume starts the Azure Blob paging worker for the selected source": a job
\* is not shown as running for ever while no worker is left.
RunningIsScanned ==
  job.status = "running" ~> job.status # "running" \/ \E w \in Workers : Active(w)

\* A worker that was started ends, whatever happens to the job it scans, unless
\* the account leaves one of its listings unanswered for ever.
WorkerEnds ==
  \A w \in Workers : pc[w] = "get" ~> (pc[w] = "done" \/ [](pc[w] = "list"))
=============================================================================
