------------------------------ MODULE AsyncScan ------------------------------
(***************************************************************************)
(* One async Azure Blob scan job: the goroutines that page through the     *)
(* account (internal/api/azureblob_async_scan_worker.go), the HTTP         *)
(* handlers through which operators steer them                             *)
(* (internal/api/azureblob_async_scan_handlers.go), and the job store they *)
(* share, one step per critical section or file access.  A lease may       *)
(* expire, the account may refuse or throttle a listing, a file write may  *)
(* fail, and the server may crash and restart between any two steps.       *)
(*                                                                         *)
(* Scopes and prefixes are flattened: segment s is the s-th pair in the    *)
(* worker's nested loops, and Listing[s] the blobs it lists, each a        *)
(* number, its rank by container and name.  Prefixes may overlap, so a     *)
(* blob may be in several listings.  The account does not change while it  *)
(* is scanned.  Evidence and audit records are left out.                   *)
(***************************************************************************)
EXTENDS ScanJobStore, Sequences, FiniteSets

CONSTANTS Operators,       \* concurrent HTTP requests
          Listing,         \* the blobs of each segment, in listing order
          PageSize,        \* asyncAzureBlobPageSize
          Limit,           \* the request's limit, 0 for none
          MaxPageRetries,  \* asyncAzureBlobMaxPageRetries
          InventoryCap,    \* how many blobs the portal state keeps
          Requests,        \* what operators ask for, besides resume
          Faults           \* what the environment may do

Segments == DOMAIN Listing
Blobs == UNION {{Listing[s][i] : i \in DOMAIN Listing[s]} : s \in Segments}

ASSUME ScanAssumption ==
  /\ Operators \cap Workers = {}
  /\ Listing \in Seq(Seq(Nat))
  /\ Len(Listing) > 0
  /\ IsFiniteSet(Blobs)
  /\ PageSize \in Nat \ {0}
  /\ Limit \in Nat
  /\ MaxPageRetries \in Nat
  /\ InventoryCap \in Nat

VARIABLES
  job,        \* the stored job
  jobFile,    \* the job in the store's file
  inventory,  \* the blobs in the portal state
  artifact,   \* records per blob in the job's normalized result file
  intact,     \* history: no operator overrode the progress, no results were lost
  pc,         \* where each worker and each request stands
  copy,       \* the job as the first half of Pause, Cancel, Complete returned it
  at,         \* per worker: segment and marker of the page to list
  objs,       \* per worker: objects_scanned of its job and current copies
  page,       \* per worker: the last index listed and the next marker
  tries,      \* per worker: failed listings of this page
  snap        \* per worker: the normalized result file as it read it

results == <<inventory, artifact>>
locals == <<at, objs, page, tries, snap>>
vars == <<job, jobFile, results, intact, pc, copy, locals>>

Procs == Workers \cup Operators

Labels == {"idle", "get", "resume", "acquire", "client", "check", "heartbeat",
           "list", "persist", "read", "write", "record", "checkpoint", "advance",
           "complete", "writeback", "return", "error", "fail", "done",
           "resumeRunning", "start"}

NoRecords == [b \in Blobs |-> 0]
NoPlace == [seg |-> 1, mark |-> 0]
NoObjs == [job |-> 0, current |-> 0]
NoPage == [to |-> 0, next |-> 0]

Goto(p, label) == pc' = [pc EXCEPT ![p] = label]

-----------------------------------------------------------------------------
(* Weakened forms of operators below, which the properties must tell apart. *)

\* The page is cut to the limit itself, not to what is left of it.
RemainingAll(scanned) == Limit

\* Records are appended without looking for their file_id.
UnseenAll(w) == {Listing[at[w].seg][i] : i \in at[w].mark + 1 .. page[w].to}

\* The file is replaced by the new records of the page.
AppendedOnly(w) ==
  [b \in Blobs |-> IF b \in UnseenAll(w) /\ snap[w][b] = 0 THEN 1 ELSE 0]

\* The scan ends after one segment.
AfterPageStops(w, scanned) == IF page[w].next > 0 THEN "check" ELSE "complete"

\* The page loop looks only at the cancel flag.
StopRequestedByFlag(j) == j.cancel

\* A worker that failed starts over by itself.
WorkerFailRestarts(w) ==
  /\ pc[w] = "fail"
  /\ Goto(w, "get")
  /\ UNCHANGED <<job, results, intact, copy, locals>>

\* A listing that failed ends the segment instead of the scan.
WorkerListFailsAdvances(w) ==
  /\ pc[w] = "list"
  /\ "list" \in Faults
  /\ Goto(w, "advance")
  /\ UNCHANGED <<job, results, intact, copy, locals>>

-----------------------------------------------------------------------------
(* Listing and storing a page. *)

Remaining(scanned) == IF Limit > scanned THEN Limit - scanned ELSE 0

\* A page is cut to what the limit leaves; a spent limit lists nothing and
\* reports no further page.
ListedPage(place, scanned) ==
  LET len  == Len(Listing[place.seg])
      size == IF Limit > 0 /\ Remaining(scanned) < PageSize
              THEN Remaining(scanned) ELSE PageSize
      to   == IF place.mark + size < len THEN place.mark + size ELSE len
  IN  IF size = 0 THEN [to |-> place.mark, next |-> 0]
                  ELSE [to |-> to, next |-> IF to < len THEN to ELSE 0]

Items(w) == {Listing[at[w].seg][i] : i \in at[w].mark + 1 .. page[w].to}

\* UpsertAzureBlobs sorts by container and name and keeps the last blobs.
Kept(blobs) ==
  IF Cardinality(blobs) <= InventoryCap THEN blobs
  ELSE {b \in blobs : Cardinality({c \in blobs : c > b}) < InventoryCap}

\* The items that the normalized file, as worker w read it, does not hold.
Unseen(w) == {b \in Items(w) : snap[w][b] = 0}

Appended(w) == [b \in Blobs |-> snap[w][b] + (IF b \in Unseen(w) THEN 1 ELSE 0)]

LimitReached(scanned) == Limit > 0 /\ scanned >= Limit

\* Where the loops go after a page: stop at the limit, stay in the segment
\* while there is a marker, then the next segment, then Complete.
AfterPage(w, scanned) ==
  IF LimitReached(scanned) THEN "complete"
  ELSE IF page[w].next > 0 THEN "check"
  ELSE IF at[w].seg < Len(Listing) THEN "advance"
  ELSE "complete"

-----------------------------------------------------------------------------
(* The worker goroutine, in program order. *)

WorkerGet(w) ==
  /\ pc[w] = "get"
  /\ Goto(w, IF ~Exists(job) THEN "fail"
             ELSE IF job.status = "running" THEN "acquire" ELSE "resume")
  /\ UNCHANGED <<job, results, intact, copy, locals>>

WorkerResume(w) ==
  /\ pc[w] = "resume"
  /\ \/ /\ ResumeRefused(job)
        /\ Goto(w, "fail")
        /\ UNCHANGED job
     \/ /\ ~ResumeRefused(job)
        /\ job' = Resumed(job)
        /\ Goto(w, "acquire")
  /\ UNCHANGED <<results, intact, copy, locals>>

\* A worker that does not get the lease ends without an error.
WorkerAcquire(w) ==
  /\ pc[w] = "acquire"
  /\ \/ /\ ~CanAcquire(job, w)
        /\ Goto(w, IF Exists(job) THEN "done" ELSE "fail")
        /\ UNCHANGED <<job, at, objs>>
     \/ /\ CanAcquire(job, w)
        /\ job' = Leased(job, w)
        /\ at' = [at EXCEPT ![w] = [seg |-> job.cp.seg, mark |-> job.cp.mark]]
        /\ objs' = [objs EXCEPT ![w] = [job |-> job.cp.objs, current |-> 0]]
        /\ Goto(w, "client")
  /\ UNCHANGED <<results, intact, copy, page, tries, snap>>

\* From here on every return releases the lease: "return" without an error,
\* "error" with one, which then fails the job.
WorkerClient(w) ==
  /\ pc[w] = "client"
  /\ \/ "credentials" \in Faults /\ Goto(w, "error")
     \/ Goto(w, IF at[w].seg \in Segments THEN "check" ELSE "complete")
  /\ UNCHANGED <<job, results, intact, copy, locals>>

StopRequested(j) == j.cancel \/ j.status \in {"cancelled", "paused"}

\* The top of the page loop.
WorkerCheck(w) ==
  /\ pc[w] = "check"
  /\ Goto(w, IF ~Exists(job) THEN "error"
             ELSE IF StopRequested(job) THEN "return" ELSE "heartbeat")
  /\ objs' = [objs EXCEPT ![w].current = job.cp.objs]
  /\ UNCHANGED <<job, results, intact, copy, at, page, tries, snap>>

WorkerHeartbeat(w) ==
  /\ pc[w] = "heartbeat"
  /\ \/ /\ ~CanHeartbeat(job, w)
        /\ Goto(w, "error")
        /\ UNCHANGED job
     \/ /\ CanHeartbeat(job, w)
        /\ job' = Leased(job, w)
        /\ Goto(w, "list")
  /\ UNCHANGED <<results, intact, copy, locals>>

WorkerList(w) ==
  /\ pc[w] = "list"
  /\ LET listed == ListedPage(at[w], objs[w].job)
     IN  /\ page' = [page EXCEPT ![w] = listed]
         /\ Goto(w, IF listed.to > at[w].mark THEN "persist" ELSE "checkpoint")
  /\ tries' = [tries EXCEPT ![w] = 0]
  /\ UNCHANGED <<job, results, intact, copy, at, objs, snap>>

\* A retryable response: RecordRetry, a delay, and another attempt.
WorkerRetry(w) ==
  /\ pc[w] = "list"
  /\ "throttle" \in Faults
  /\ tries[w] < MaxPageRetries
  /\ tries' = [tries EXCEPT ![w] = @ + 1]
  /\ UNCHANGED <<job, results, intact, pc, copy, at, objs, page, snap>>

WorkerListFails(w) ==
  /\ pc[w] = "list"
  /\ \/ "list" \in Faults
     \/ "throttle" \in Faults /\ tries[w] = MaxPageRetries
  /\ Goto(w, "error")
  /\ UNCHANGED <<job, results, intact, copy, locals>>

WorkerPersist(w) ==
  /\ pc[w] = "persist"
  /\ inventory' = Kept(inventory \cup Items(w))
  /\ Goto(w, "read")
  /\ UNCHANGED <<job, artifact, intact, copy, locals>>

\* The normalized file is read, extended and written back without a lock.
WorkerRead(w) ==
  /\ pc[w] = "read"
  /\ snap' = [snap EXCEPT ![w] = artifact]
  /\ Goto(w, "write")
  /\ UNCHANGED <<job, results, intact, copy, at, objs, page, tries>>

WorkerWrite(w) ==
  /\ pc[w] = "write"
  /\ artifact' = Appended(w)
  /\ Goto(w, IF Unseen(w) # {} THEN "record" ELSE "checkpoint")
  /\ UNCHANGED <<job, inventory, intact, copy, locals>>

\* A failed write leaves the file as it was or truncated, and a truncated file
\* reads as no records.  The worker ignores the error.
WorkerWriteFails(w) ==
  /\ pc[w] = "write"
  /\ "artifact" \in Faults
  /\ artifact' \in {artifact, NoRecords}
  /\ Goto(w, "checkpoint")
  /\ UNCHANGED <<job, inventory, intact, copy, locals>>

WorkerRecord(w) ==
  /\ pc[w] = "record"
  /\ job' = IF Exists(job) THEN NormalizedWritten(job, Cardinality(Unseen(w)))
                           ELSE job
  /\ Goto(w, "checkpoint")
  /\ UNCHANGED <<results, intact, copy, locals>>

\* UpdateCheckpoint: the counter of the copy read at the top of the loop, the
\* indices of the loops and the marker of the page.
WorkerCheckpoint(w) ==
  LET scanned == objs[w].current + (page[w].to - at[w].mark)
  IN
  /\ pc[w] = "checkpoint"
  /\ \/ /\ ~Exists(job)
        /\ Goto(w, "error")
        /\ UNCHANGED <<job, at, objs>>
     \/ /\ Exists(job)
        /\ job' = Checkpointed(job, [seg  |-> at[w].seg, mark |-> page[w].next,
                                     objs |-> scanned])
        /\ objs' = [objs EXCEPT ![w] = [job |-> scanned, current |-> 0]]
        /\ at' = [at EXCEPT ![w] = [seg |-> at[w].seg, mark |-> page[w].next]]
        /\ Goto(w, AfterPage(w, scanned))
  /\ page' = [page EXCEPT ![w] = NoPage]
  /\ snap' = [snap EXCEPT ![w] = NoRecords]
  /\ UNCHANGED <<results, intact, copy, tries>>

\* The second UpdateCheckpoint after a segment's last page; its error is ignored.
\* (Not modelled: the one page that a worker lists with an empty job, if the job
\* was reset here and a stale copy brings it back before the next Get.)
WorkerAdvance(w) ==
  /\ pc[w] = "advance"
  /\ LET next == at[w].seg + 1
     IN  /\ at' = [at EXCEPT ![w] = [seg |-> next, mark |-> 0]]
         /\ job' = IF Exists(job)
                   THEN Checkpointed(job, [seg |-> next, mark |-> 0,
                                           objs |-> objs[w].job])
                   ELSE job
  /\ Goto(w, "check")
  /\ UNCHANGED <<results, intact, copy, objs, page, tries, snap>>

WorkerComplete(w) ==
  /\ pc[w] = "complete"
  /\ \/ /\ ~Exists(job)
        /\ Goto(w, "error")
        /\ UNCHANGED <<job, copy>>
     \/ /\ Exists(job)
        /\ job' = Transition(job, "completed")
        /\ copy' = [copy EXCEPT ![w] = Transition(job, "completed")]
        /\ Goto(w, "writeback")
  /\ UNCHANGED <<results, intact, locals>>

\* The second half of Complete (a worker), or of Pause, Cancel and Complete (a
\* request): whatever the job became in between, the copy replaces it.
WriteBack(p) ==
  /\ pc[p] = "writeback"
  /\ job' = WrittenBack(copy[p])
  /\ copy' = [copy EXCEPT ![p] = NoJob]
  /\ Goto(p, IF p \in Workers THEN "return" ELSE "idle")
  /\ UNCHANGED <<results, intact, locals>>

WorkerRelease(w) ==
  /\ pc[w] \in {"return", "error"}
  /\ job' = IF CanRelease(job, w) THEN Unleased(job) ELSE job
  /\ Goto(w, IF pc[w] = "error" THEN "fail" ELSE "done")
  /\ at' = [at EXCEPT ![w] = NoPlace]
  /\ objs' = [objs EXCEPT ![w] = NoObjs]
  /\ tries' = [tries EXCEPT ![w] = 0]
  /\ UNCHANGED <<results, intact, copy, page, snap>>

WorkerFail(w) ==
  /\ pc[w] = "fail"
  /\ job' = IF Exists(job) THEN Transition(job, "failed") ELSE job
  /\ Goto(w, "done")
  /\ UNCHANGED <<results, intact, copy, locals>>

-----------------------------------------------------------------------------
(* The HTTP handlers. *)

Queue ==
  /\ job.status = "none"
  /\ job' = NewJob
  /\ UNCHANGED <<results, intact, pc, copy, locals>>

\* Bound: a resume is taken up only while a worker identifier is left for it.
IdleWorkers == {w \in Workers : pc[w] = "idle"}
Resuming == {o \in Operators : pc[o] \in {"resume", "resumeRunning", "start"}}

\* The handler reads the status before it calls Resume, and starts a worker
\* only if it did not read "running".
ResumeGet(o) ==
  /\ pc[o] = "idle"
  /\ Exists(job)
  /\ Cardinality(Resuming) < Cardinality(IdleWorkers)
  /\ Goto(o, IF job.status = "running" THEN "resumeRunning" ELSE "resume")
  /\ UNCHANGED <<job, results, intact, copy, locals>>

ResumeStore(o) ==
  /\ pc[o] \in {"resume", "resumeRunning"}
  /\ \/ /\ ResumeRefused(job)
        /\ Goto(o, "idle")
        /\ UNCHANGED job
     \/ /\ ~ResumeRefused(job)
        /\ job' = Resumed(job)
        /\ Goto(o, IF pc[o] = "resume" THEN "start" ELSE "idle")
  /\ UNCHANGED <<results, intact, copy, locals>>

StartWorker(o, w) ==
  /\ pc[o] = "start"
  /\ pc[w] = "idle"
  /\ pc' = [pc EXCEPT ![o] = "idle", ![w] = "get"]
  /\ UNCHANGED <<job, results, intact, copy, locals>>

\* The first half of pause, cancel and complete.
Steer(o, request, status) ==
  /\ request \in Requests
  /\ pc[o] = "idle"
  /\ Exists(job)
  /\ job' = Transition(job, status)
  /\ copy' = [copy EXCEPT ![o] = Transition(job, status)]
  /\ intact' = (intact /\ status # "completed")
  /\ Goto(o, "writeback")
  /\ UNCHANGED <<results, locals>>

OperatorFail ==
  /\ "fail" \in Requests
  /\ Exists(job)
  /\ job' = Transition(job, "failed")
  /\ UNCHANGED <<results, intact, pc, copy, locals>>

\* The body of a checkpoint request is stored as it is.  Bound: it names the
\* first page of a segment or the end of the scan.
OperatorCheckpoint ==
  /\ "checkpoint" \in Requests
  /\ Exists(job)
  /\ \E s \in 1 .. Len(Listing) + 1 :
       job' = Checkpointed(job, [Start0 EXCEPT !.seg = s])
  /\ intact' = FALSE
  /\ UNCHANGED <<results, pc, copy, locals>>

Reclaim ==
  /\ "reclaim" \in Requests
  /\ Stale(job)
  /\ job' = Reclaimed(job)
  /\ UNCHANGED <<results, intact, pc, copy, locals>>

\* An administrator's reset clears the scopes it names, one after the other.
Reset ==
  /\ "reset" \in Requests
  /\ \/ /\ Exists(job)
        /\ job' = GoneJob
        /\ UNCHANGED <<results, intact>>
     \/ /\ inventory' = {}
        /\ intact' = FALSE
        /\ UNCHANGED <<job, artifact>>
     \/ /\ artifact' = NoRecords
        /\ intact' = FALSE
        /\ UNCHANGED <<job, inventory>>
  /\ UNCHANGED <<pc, copy, locals>>

-----------------------------------------------------------------------------
(* The environment. *)

Active(p) == pc[p] \notin {"idle", "done"}

\* A worker renews its lease before every page, so the lease expires only if
\* the worker is gone, or if a page takes longer than the lease.
LeaseExpires ==
  /\ job.live
  /\ "slow" \in Faults \/ ~Active(job.owner)
  /\ job' = [job EXCEPT !.live = FALSE]
  /\ UNCHANGED <<results, intact, pc, copy, locals>>

\* No goroutine and no request survives; the restarted server starts none.
ProcessesDie ==
  /\ {p \in Procs : Active(p)} # {}
  /\ pc' = [p \in Procs |-> IF p \in Workers /\ pc[p] # "idle" THEN "done" ELSE "idle"]
  /\ copy' = [p \in Procs |-> NoJob]
  /\ at' = [w \in Workers |-> NoPlace]
  /\ objs' = [w \in Workers |-> NoObjs]
  /\ page' = [w \in Workers |-> NoPage]
  /\ tries' = [w \in Workers |-> 0]
  /\ snap' = [w \in Workers |-> NoRecords]

\* The restarted server loads the job as its file has it.  The portal state also
\* ignores a failed save, so that its file may hold another list of blobs.
Crash ==
  /\ "crash" \in Faults
  /\ ProcessesDie
  /\ job' = jobFile
  /\ \/ UNCHANGED inventory
     \/ "unsaved" \in Faults /\ inventory' \in SUBSET Blobs
  /\ intact' = (intact /\ inventory' = inventory)
  /\ UNCHANGED <<jobFile, artifact>>

\* Where the next step of a process rewrites the job file.
SavesJob == {"resume", "resumeRunning", "acquire", "heartbeat", "record", "checkpoint",
             "advance", "complete", "writeback", "return", "error", "fail"}

\* The crash interrupts an os.WriteFile: load treats a file that it cannot
\* parse as an empty one, so the job, the blobs or the records are lost.
CrashTearsFile ==
  /\ "torn" \in Faults
  /\ \/ /\ \E p \in Procs : pc[p] \in SavesJob
        /\ jobFile' = GoneJob
        /\ UNCHANGED results
     \/ /\ \E w \in Workers : pc[w] = "persist"
        /\ inventory' = {}
        /\ UNCHANGED <<jobFile, artifact>>
     \/ /\ \E w \in Workers : pc[w] = "write"
        /\ artifact' = NoRecords
        /\ UNCHANGED <<jobFile, inventory>>
  /\ job' = jobFile'
  /\ intact' = FALSE
  /\ ProcessesDie

\* saveLocked ends every critical section of the store.  It ignores the error of
\* a write, which leaves the file as it was or truncated; a job that never
\* reached the file is not in it.
Saved ==
  IF job' = job THEN UNCHANGED jobFile
  ELSE \/ jobFile' = job'
       \/ "unsaved" \in Faults /\ jobFile' \in {GoneJob} \cup ({jobFile} \ {NoJob})

-----------------------------------------------------------------------------
Init ==
  /\ job = NoJob
  /\ jobFile = NoJob
  /\ inventory = {}
  /\ artifact = NoRecords
  /\ intact = TRUE
  /\ pc = [p \in Procs |-> "idle"]
  /\ copy = [p \in Procs |-> NoJob]
  /\ at = [w \in Workers |-> NoPlace]
  /\ objs = [w \in Workers |-> NoObjs]
  /\ page = [w \in Workers |-> NoPage]
  /\ tries = [w \in Workers |-> 0]
  /\ snap = [w \in Workers |-> NoRecords]

WorkerStep(w) ==
  \/ WorkerGet(w) \/ WorkerResume(w) \/ WorkerAcquire(w) \/ WorkerClient(w)
  \/ WorkerCheck(w) \/ WorkerHeartbeat(w)
  \/ WorkerList(w) \/ WorkerRetry(w) \/ WorkerListFails(w)
  \/ WorkerPersist(w) \/ WorkerRead(w) \/ WorkerWrite(w) \/ WorkerWriteFails(w)
  \/ WorkerRecord(w) \/ WorkerCheckpoint(w) \/ WorkerAdvance(w)
  \/ WorkerComplete(w) \/ WriteBack(w) \/ WorkerRelease(w) \/ WorkerFail(w)

\* What a request that was taken up still has to do.
Finish(o) ==
  \/ ResumeStore(o)
  \/ \E w \in Workers : StartWorker(o, w)
  \/ WriteBack(o)

Request(o) ==
  \/ ResumeGet(o)
  \/ Steer(o, "pause", "paused")
  \/ Steer(o, "cancel", "cancelled")
  \/ Steer(o, "complete", "completed")

Step ==
  \/ \E w \in Workers : WorkerStep(w)
  \/ \E o \in Operators : Request(o) \/ Finish(o)
  \/ Queue \/ OperatorFail \/ OperatorCheckpoint \/ Reclaim \/ Reset
  \/ LeaseExpires

Next == (Step /\ Saved) \/ Crash \/ CrashTearsFile

Spec == Init /\ [][Next]_vars

\* The Go scheduler runs every goroutine that can run and every request that
\* the server has taken up; nothing obliges an operator to send one.  A listing
\* has no deadline, so nothing obliges the account to answer it either.
WorkerRuns(w) == pc[w] # "list" /\ WorkerStep(w) /\ Saved

Fairness ==
  /\ \A w \in Workers : WF_vars(WorkerRuns(w))
  /\ \A o \in Operators : WF_vars(Finish(o) /\ Saved)

FairSpec == Spec /\ Fairness
=============================================================================
