------------------------- MODULE LeaseExecutionProofs -------------------------
(***************************************************************************)
(* Proofs of the safety properties of LeaseExecution, for any number of    *)
(* seconds, jobs, handlers and users, any plan and batch limit, any        *)
(* approvals and every set of faults.                                      *)
(***************************************************************************)
EXTENDS LeaseExecutionProperties, WellFoundedInduction, TLAPS

-----------------------------------------------------------------------------
(* The inductive invariant behind TypeOK. *)

\* What the handlers keep.  One that is idle works on nothing; one that is not
\* works on an execution of the control plane; one that has an outcome to mark
\* has the item it is about; and a user's own start is not reported.
LocalsOK ==
  /\ pc \in [Callers -> Labels]
  /\ work \in [Callers -> Work]
  /\ todo \in [Callers -> Seq(Item)]
  /\ snap \in [Callers -> [Files -> RowStatus]]
  /\ gone \in [Callers -> BOOLEAN]
  /\ \A c \in Callers :
       /\ pc[c] = "idle" => todo[c] = <<>> /\ snap[c] = NoResults
       /\ pc[c] # "idle" => work[c].execution \in Seconds
       /\ pc[c] \in {"completed", "failed"} => todo[c] # <<>>
       /\ pc[c] \in {"accepted", "scan", "finished", "aborted"} => work[c].kind # "start"

\* What the control plane and the agent's store keep.  A pending lease has a
\* request, and heartbeats only say running or how the lease ended.
LeasesOK ==
  /\ created \in [Seconds -> Seq(Requests)]
  /\ lease \in [Seconds -> LeaseStatus]
  /\ jobStatus \in [Seconds -> JobStatus]
  /\ beats \subseteq Beat
  /\ \A l \in Seconds : lease[l] = "PENDING" => created[l] # <<>>
  /\ \A b \in beats : b.status \in {"RUNNING"} \cup Ended

ResultsOK ==
  /\ manifests \subseteq Seconds
  /\ plan \in [Seconds -> Seq(Files)]
  /\ rows \in [Seconds -> [Files -> Row]]
  /\ evidence \in [Seconds -> [Files -> RowStatus]]
  /\ written \subseteq Write
  /\ grants \in [Seconds -> 0 .. 2]
  /\ started \in [Seconds -> Seq(Requests)]

PlatformOK == clock \in Seconds /\ approvals \in Seq(Approval)

IInv == LocalsOK /\ LeasesOK /\ ResultsOK /\ PlatformOK

-----------------------------------------------------------------------------
(* Facts about the constants and the operators. *)

LEMMA PlanFacts ==
  /\ Plan \in Seq(Files)
  /\ Batches \subseteq Seq(Files)
  /\ BatchLimit \in Nat
BY LeaseExecutionAssumption

LEMMA RequestFacts ==
  ASSUME NEW r \in Requests
  PROVE  r \in Request /\ r.mode \in {"dry_run", "apply"} /\ r.writeback \in BOOLEAN
BY ControlPlaneAssumption DEF Request

\* The items of a batch carry the manifest's decisions.
LEMMA ItemsFacts ==
  ASSUME rows \in [Seconds -> [Files -> Row]], plan \in [Seconds -> Seq(Files)],
         NEW e \in Seconds
  PROVE  /\ Items(e) \in Seq(Item)
         /\ \A i \in DOMAIN Items(e) :
              /\ Items(e)[i].file \in Files
              /\ Items(e)[i].guardian = rows[e][Items(e)[i].file].guardian
<1> DEFINE size == IF BatchLimit < Len(plan[e]) THEN BatchLimit ELSE Len(plan[e])
           item(i) == [file |-> plan[e][i], guardian |-> rows[e][plan[e][i]].guardian]
           batch == [i \in 1 .. size |-> item(i)]
<1>1. size \in Nat /\ \A i \in 1 .. size : plan[e][i] \in Files
  <2>1. plan[e] \in Seq(Files)
    OBVIOUS
  <2> QED BY <2>1, PlanFacts
<1>2. \A i \in 1 .. size : item(i) \in Item
  BY <1>1 DEF Item, Row
<1> HIDE DEF size
<1>3. batch \in Seq(Item) /\ DOMAIN batch = 1 .. size
  <2>1. batch \in [1 .. size -> Item]
    BY <1>2
  <2> QED BY <1>1, <2>1
<1>4. Items(e) = batch
  BY DEF Items, size
<1> QED BY <1>1, <1>3, <1>4

\* What is left of a list of items.
LEMMA HeadFacts ==
  ASSUME NEW s \in Seq(Item), s # <<>>
  PROVE  /\ Head(s) \in Item /\ Head(s).file \in Files /\ Head(s) = s[1] /\ 1 \in DOMAIN s
         /\ Tail(s) \in Seq(Item)
         /\ \A i \in DOMAIN Tail(s) : i + 1 \in DOMAIN s /\ Tail(s)[i] = s[i + 1]
<1>1. Head(s) = s[1] /\ 1 \in DOMAIN s /\ s[1] \in Item
  OBVIOUS
<1>2. Tail(s) \in Seq(Item) /\ \A i \in DOMAIN Tail(s) : i + 1 \in DOMAIN s /\ Tail(s)[i] = s[i + 1]
  OBVIOUS
<1>3. s[1].file \in Files
  BY <1>1 DEF Item
<1> QED BY <1>1, <1>2, <1>3

LEMMA NothingYet ==
  /\ NoWork \in Work /\ NoResults \in [Files -> RowStatus] /\ NoRows \in [Files -> Row]
  /\ <<>> \in Seq(Item)
<1>1. NoWork \in Work
  <2>1. <<>> \in Seq(Files)
    OBVIOUS
  <2> QED BY <2>1 DEF NoWork, Work, Kinds
<1>2. NoResults \in [Files -> RowStatus] /\ NoRows \in [Files -> Row]
  BY DEF NoResults, NoRows, RowStatus, Row
<1> QED BY <1>1, <1>2

\* Ending a handler, or its write-back, keeps the types.
LEMMA ReturnTyped ==
  ASSUME LocalsOK, NEW c \in Callers, Return(c)
  PROVE  LocalsOK'
BY NothingYet DEF LocalsOK, Return, Goto, Labels

LEMMA EndWritebackTyped ==
  ASSUME LocalsOK, NEW c \in Callers, pc[c] # "idle", EndWriteback(c)
  PROVE  LocalsOK'
<1>1. CASE work[c].kind # "auto"
  BY <1>1, ReturnTyped DEF EndWriteback
<1>2. CASE work[c].kind = "auto"
  <2>1. [work[c] EXCEPT !.kind = "run"] \in Work
        /\ [work[c] EXCEPT !.kind = "run"].execution = work[c].execution
    BY DEF LocalsOK, Work, Kinds
  <2> QED BY <1>2, <2>1, NothingYet DEF EndWriteback, LocalsOK, Goto, Labels
<1> QED BY <1>1, <1>2

LEMMA BeatsTyped ==
  ASSUME LeasesOK, NEW c \in Callers, NEW l \in Seconds, NEW s \in {"RUNNING"} \cup Ended,
         Beats(c, l, s), UNCHANGED created
  PROVE  LeasesOK'
<1>1. [lease |-> l, status |-> s] \in Beat
  BY DEF Beat, LeaseStatus, Ended
<1>2. CASE HeartbeatLease(l, s) /\ UNCHANGED beats
  <2>1. s \in LeaseStatus /\ s \in JobStatus /\ s # "PENDING"
    BY DEF LeaseStatus, JobStatus, Ended
  <2>2. lease' = [lease EXCEPT ![l] = s] /\ jobStatus' = [jobStatus EXCEPT ![l] = s]
    BY <1>2 DEF HeartbeatLease
  <2> QED BY <1>2, <2>1, <2>2 DEF LeasesOK
<1>3. CASE UNCHANGED <<lease, jobStatus>> /\ beats' \in {beats, beats \cup {[lease |-> l, status |-> s]}}
  BY <1>1, <1>3 DEF LeasesOK
<1> QED BY <1>2, <1>3 DEF Beats

-----------------------------------------------------------------------------
(* The invariant is inductive. *)

LEMMA InitTyped == Init => IInv
<1> SUFFICES ASSUME Init PROVE IInv
  OBVIOUS
<1> USE DEF Init, ControlPlaneInit
<1>1. LocalsOK
  BY NothingYet DEF LocalsOK, Labels
<1>2. LeasesOK
  BY DEF LeasesOK, LeaseStatus, JobStatus
<1>3. ResultsOK
  BY NothingYet DEF ResultsOK
<1>4. PlatformOK
  BY ControlPlaneAssumption DEF PlatformOK, Seconds
<1> QED BY <1>1, <1>2, <1>3, <1>4 DEF IInv

\* The handler's own state.
LEMMA StepLocals ==
  ASSUME IInv, NEW c \in Callers, Step(c)
  PROVE  LocalsOK'
<1> USE DEF IInv
<1>1. CASE Accept(c)
  BY <1>1 DEF Accept, Goto, LocalsOK, Labels
<1>2. CASE Scan(c) \/ ScanFails(c) \/ Start(c) \/ StartFails(c)
  BY <1>2, ReturnTyped DEF Scan, ScanFails, Start, StartFails, Goto, LocalsOK, Labels
<1>3. CASE ReportCompleted(c)
  <2> DEFINE kind == IF MayWrite(c) THEN "auto" ELSE "run"
  <2>1. [work[c] EXCEPT !.kind = kind] \in Work
        /\ [work[c] EXCEPT !.kind = kind].execution = work[c].execution
    BY DEF LocalsOK, Work, Kinds
  <2>2. work' = [work EXCEPT ![c] = [work[c] EXCEPT !.kind = kind]]
    BY <1>3 DEF ReportCompleted
  <2> HIDE DEF kind
  <2> QED BY <1>3, <2>1, <2>2 DEF ReportCompleted, Goto, LocalsOK, Labels
<1>4. CASE ReportFailed(c)
  BY <1>4, ReturnTyped DEF ReportFailed
<1>5. CASE Approve(c)
  BY <1>5 DEF Approve, Goto, LocalsOK, Labels
<1>6. CASE Block(c)
  BY <1>6, EndWritebackTyped DEF Block
<1>7. CASE ListActionPlan(c)
  <2>1. CASE StoreFails(c) /\ EndWriteback(c)
    BY <1>7, <2>1, EndWritebackTyped DEF ListActionPlan
  <2>2. CASE ~(StoreFails(c) /\ EndWriteback(c))
    <3>1. work[c].execution \in Seconds
      BY <1>7 DEF ListActionPlan, LocalsOK
    <3>2. Items(work[c].execution) \in Seq(Item)
      BY <3>1, ItemsFacts DEF ResultsOK
    <3> QED BY <1>7, <2>2, <3>2 DEF ListActionPlan, Goto, LocalsOK, Labels
  <2> QED BY <2>1, <2>2
<1>8. CASE Skip(c)
  BY <1>8 DEF Skip, LocalsOK
<1>9. CASE Apply(c)
  <2>1. /\ pc[c] = "apply" /\ todo[c] # <<>>
        /\ pc' = [pc EXCEPT ![c] = "completed"] \/ pc' = [pc EXCEPT ![c] = "failed"]
        /\ UNCHANGED <<work, todo, snap, gone>>
    BY <1>9 DEF Apply, Goto
  <2>2. pc' \in [Callers -> Labels]
    BY <2>1 DEF LocalsOK, Labels
  <2>3. \A d \in Callers \ {c} : pc'[d] = pc[d]
    BY <2>1 DEF LocalsOK
  <2>4. pc'[c] \in {"completed", "failed"}
    BY <2>1 DEF LocalsOK
  <2> QED BY <2>1, <2>2, <2>3, <2>4 DEF LocalsOK
<1>10. CASE Mark(c)
  BY <1>10 DEF Mark, Goto, LocalsOK, Labels
<1>11. CASE Applied(c)
  BY <1>11, ReturnTyped DEF Applied, Goto, LocalsOK, Labels
<1>12. CASE Collect(c)
  <2>1. CASE StoreFails(c) /\ EndWriteback(c)
    BY <1>12, <2>1, EndWritebackTyped DEF Collect
  <2>2. CASE ~(StoreFails(c) /\ EndWriteback(c))
    <3>1. work[c].execution \in Seconds
      BY <1>12 DEF Collect, LocalsOK
    <3>2. Results(work[c].execution) \in [Files -> RowStatus]
      BY <3>1 DEF Results, ResultsOK, Row
    <3> QED BY <1>12, <2>2, <3>2 DEF Collect, Goto, LocalsOK, Labels
  <2> QED BY <2>1, <2>2
<1>13. CASE Upload(c)
  BY <1>13, EndWritebackTyped DEF Upload
<1> QED BY <1>1, <1>2, <1>3, <1>4, <1>5, <1>6, <1>7, <1>8, <1>9, <1>10, <1>11, <1>12, <1>13
        DEF Step

\* What the step leaves in the stores.
LEMMA StepStores ==
  ASSUME IInv, NEW c \in Callers, Step(c)
  PROVE  (LeasesOK /\ ResultsOK /\ PlatformOK)'
<1> USE DEF IInv, platform
<1>0. pc[c] # "idle" => work[c].execution \in Seconds
  BY DEF LocalsOK
<1>1. PlatformOK'
  BY DEF Step, Accept, Scan, ScanFails, Start, StartFails, ReportCompleted, ReportFailed,
         Approve, Block, ListActionPlan, Skip, Apply, Mark, Applied, Collect, Upload, PlatformOK
<1>2. LeasesOK'
  <2>1. CASE Accept(c) \/ ReportCompleted(c) \/ ReportFailed(c)
    BY <1>0, <2>1, BeatsTyped DEF Accept, ReportCompleted, ReportFailed, Ended
  <2>2. CASE UNCHANGED <<created, lease, jobStatus, beats>>
    BY <2>2 DEF LeasesOK
  <2> QED BY <2>1, <2>2
          DEF Step, Scan, ScanFails, Start, StartFails, Approve, Block, ListActionPlan, Skip,
              Apply, Mark, Applied, Collect, Upload
<1>3. ResultsOK'
  <2>1. CASE Start(c)
    <3>1. Planned(c) \in [Files -> Row]
      <4>1. NoRows \in [Files -> Row]
        BY NothingYet
      <4> QED BY <4>1 DEF Planned, Row, RowStatus
    <3>2. work[c].files \in Seq(Files) /\ work[c].execution \in Seconds
      BY <1>0, <2>1 DEF Start, LocalsOK, Work
    <3> QED BY <2>1, <3>1, <3>2 DEF Start, ResultsOK, history
  <2>2. CASE Apply(c)
    <3>1. [execution |-> work[c].execution, file |-> Head(todo[c]).file,
           covers |-> work[c].covers, batch |-> work[c].kind # "action"] \in Write
      <4>1. Head(todo[c]).file \in Files /\ work[c] \in Work /\ work[c].execution \in Seconds
        BY <1>0, <2>2, HeadFacts DEF Apply, LocalsOK
      <4> QED BY <4>1 DEF Work, Write
    <3> QED BY <2>2, <3>1 DEF Apply, Writes, ResultsOK, store
  <2>3. CASE Mark(c)
    <3>1. Head(todo[c]).file \in Files /\ work[c].execution \in Seconds
      BY <1>0, <2>3, HeadFacts DEF Mark, LocalsOK
    <3> DEFINE e == work[c].execution  f == Head(todo[c]).file
               r == [rows[e][f] EXCEPT !.status = pc[c]]
    <3>2. r \in Row
      <4>1. rows[e][f] \in Row /\ pc[c] \in RowStatus
        BY <2>3, <3>1 DEF Mark, ResultsOK, RowStatus
      <4> QED BY <4>1 DEF Row
    <3>3. \/ rows' = rows
          \/ rows' = [rows EXCEPT ![e] = [rows[e] EXCEPT ![f] = r]]
      BY <2>3 DEF Mark
    <3>4. UNCHANGED <<manifests, plan, evidence, written, grants, started>>
      BY <2>3 DEF Mark, history
    <3> HIDE DEF e, f, r
    <3>5. rows' \in [Seconds -> [Files -> Row]]
      <4>1. rows \in [Seconds -> [Files -> Row]] /\ e \in Seconds /\ f \in Files
        BY <3>1 DEF ResultsOK, e, f
      <4>2. [rows[e] EXCEPT ![f] = r] \in [Files -> Row]
        BY <3>2, <4>1
      <4> QED BY <3>3, <4>1, <4>2
    <3> QED BY <3>4, <3>5 DEF ResultsOK
  <2>4. CASE Upload(c)
    BY <2>4 DEF Upload, ResultsOK, LocalsOK, store, history
  <2>5. CASE UNCHANGED <<store, evidence, history>>
    BY <2>5 DEF ResultsOK, store, history
  <2> QED BY <2>1, <2>2, <2>3, <2>4, <2>5
          DEF Step, Accept, Scan, ScanFails, StartFails, ReportCompleted, ReportFailed, Approve,
              Block, ListActionPlan, Skip, Applied, Collect
<1> QED BY <1>1, <1>2, <1>3

\* A lease is handed out, a user asks, a caller goes away.
LEMMA BeginTyped ==
  ASSUME IInv, NEW c \in Callers, NEW e \in Seconds,
         \/ NextLease(c, e)
         \/ \E r \in Requests : Batch(c, e, r)
         \/ \E r \in Requests, b \in Batches : StartExecution(c, e, r, b)
         \/ \E f \in Files, o \in Operations : Action(c, e, f, o)
  PROVE  IInv'
<1> USE DEF IInv, store, history
<1>0. TagOperations \in SUBSET Operations
  BY ControlPlaneAssumption
<1>1. CASE NextLease(c, e)
  <2>1. created[e] \in Seq(Requests) /\ created[e] # <<>>
    BY <1>1 DEF NextLease, IsNext, LeasesOK
  <2>2. RequestOf(e) \in Request
    BY <2>1, RequestFacts DEF RequestOf
  <2> DEFINE w == [kind |-> "run", execution |-> e, files |-> Plan, covers |-> TagOperations,
                   mode |-> RequestOf(e).mode, writeback |-> RequestOf(e).writeback]
  <2>3. w \in Work /\ w.execution = e
    BY <1>0, <2>2, PlanFacts DEF Work, Kinds, Request
  <2>4. LocalsOK'
    <3>1. \/ UNCHANGED <<pc, work>>
          \/ pc' = [pc EXCEPT ![c] = "accepted"] /\ work' = [work EXCEPT ![c] = w]
      BY <1>1 DEF NextLease, Goto
    <3>2. UNCHANGED <<todo, snap, gone>>
      BY <1>1 DEF NextLease
    <3>3. w.kind # "start"
      OBVIOUS
    <3> HIDE DEF w
    <3> QED BY <2>3, <3>1, <3>2, <3>3 DEF LocalsOK, Labels
  <2>5. LeasesOK'
    BY <1>1 DEF NextLease, Assigned, LeasesOK, LeaseStatus
  <2>6. ResultsOK'
    <3>1. grants[e] \in 0 .. 2
      BY DEF ResultsOK
    <3>2. (IF grants[e] < 2 THEN grants[e] + 1 ELSE 2) \in 0 .. 2
      BY <3>1
    <3>3. grants' = [grants EXCEPT ![e] = IF grants[e] < 2 THEN grants[e] + 1 ELSE 2]
      BY <1>1 DEF NextLease
    <3>4. grants' \in [Seconds -> 0 .. 2]
      BY <3>2, <3>3 DEF ResultsOK
    <3> QED BY <1>1, <3>4 DEF NextLease, ResultsOK
  <2> QED BY <1>1, <2>4, <2>5, <2>6 DEF NextLease, PlatformOK
<1>2. ASSUME NEW r \in Requests, Batch(c, e, r) PROVE IInv'
  <2>1. [kind |-> "batch", execution |-> e, files |-> <<>>, covers |-> TagOperations,
         mode |-> r.mode, writeback |-> r.writeback] \in Work
    BY <1>0, RequestFacts DEF Work, Kinds
  <2>2. LocalsOK'
    BY <1>2, <2>1 DEF Batch, Goto, LocalsOK, Labels
  <2> QED BY <1>2, <2>2 DEF Batch, platform, LeasesOK, ResultsOK, PlatformOK
<1>3. ASSUME NEW f \in Files, NEW o \in Operations, Action(c, e, f, o) PROVE IInv'
  <2> DEFINE covers == IF o \in TagOperations THEN TagOperations ELSE {o}
  <2>1. [kind |-> "action", execution |-> e, files |-> <<>>, covers |-> covers,
         mode |-> "apply", writeback |-> TRUE] \in Work
    BY <1>0 DEF Work, Kinds
  <2>2. <<[file |-> f, guardian |-> "allow"]>> \in Seq(Item)
        /\ <<[file |-> f, guardian |-> "allow"]>> # <<>>
    BY DEF Item
  <2>3. LocalsOK'
    BY <1>3, <2>1, <2>2 DEF Action, Goto, LocalsOK, Labels
  <2> QED BY <1>3, <2>3 DEF Action, platform, LeasesOK, ResultsOK, PlatformOK
<1>4. ASSUME NEW r \in Requests, NEW b \in Batches, StartExecution(c, e, r, b) PROVE IInv'
  <2>1. [kind |-> "start", execution |-> e, files |-> b, covers |-> {},
         mode |-> r.mode, writeback |-> r.writeback] \in Work
    BY PlanFacts, RequestFacts DEF Work, Kinds
  <2>2. LocalsOK'
    BY <1>4, <2>1 DEF StartExecution, Goto, LocalsOK, Labels
  <2>3. ResultsOK'
    <3>1. started[e] \in Seq(Requests)
      BY DEF ResultsOK
    <3>2. Append(started[e], r) \in Seq(Requests)
      BY <3>1
    <3> QED BY <1>4, <3>2 DEF StartExecution, ResultsOK
  <2> QED BY <1>4, <2>2, <2>3 DEF StartExecution, platform, LeasesOK, PlatformOK
<1> QED BY <1>1, <1>2, <1>3, <1>4

\* An update moves one approval to the end and keeps the others.
LEMMA UpdatedFacts ==
  ASSUME approvals \in Seq(Approval), NEW i \in DOMAIN approvals, NEW s \in ApprovalStatus
  PROVE  /\ Updated(i, s) \in Seq(Approval)
         /\ \A k \in DOMAIN approvals \ {i} : \E j \in DOMAIN Updated(i, s) :
              Updated(i, s)[j] = approvals[k]
<1> DEFINE last == [approvals[i] EXCEPT !.status = s]
<1>1. Len(approvals) \in Nat /\ DOMAIN approvals = 1 .. Len(approvals) /\ i \in 1 .. Len(approvals)
      /\ \A j \in 1 .. Len(approvals) : approvals[j] \in Approval
  OBVIOUS
<1>2. last \in Approval
  BY <1>1 DEF Approval
<1> HIDE DEF last
<1>3. Updated(i, s) = [j \in DOMAIN approvals |->
                         IF j < i THEN approvals[j]
                         ELSE IF j < Len(approvals) THEN approvals[j + 1] ELSE last]
  BY DEF Updated, last
<1>4. Updated(i, s) \in [1 .. Len(approvals) -> Approval]
  BY <1>1, <1>2, <1>3
<1>5. ASSUME NEW k \in DOMAIN approvals \ {i}
      PROVE  \E j \in DOMAIN Updated(i, s) : Updated(i, s)[j] = approvals[k]
  <2>1. CASE k < i
    BY <1>1, <1>3, <2>1
  <2>2. CASE k > i
    <3>1. k - 1 \in DOMAIN approvals /\ ~(k - 1 < i) /\ k - 1 < Len(approvals)
      BY <1>1, <2>2
    <3>2. Updated(i, s)[k - 1] = approvals[k]
      BY <1>1, <1>3, <3>1
    <3> QED BY <1>3, <3>1, <3>2
  <2> QED BY <1>1, <2>1, <2>2
<1>6. Updated(i, s) \in Seq(Approval)
  BY <1>1, <1>4
<1> QED BY <1>5, <1>6

\* What portal users do.
LEMMA UsersTyped ==
  ASSUME IInv, UserCreatesJob \/ UserApproves
  PROVE  IInv'
<1> USE DEF IInv, locals, store, history
<1>1. CASE UserCreatesJob
  <2>1. PICK r \in Requests : CreateJob(r)
    BY <1>1 DEF UserCreatesJob
  <2>2. LeasesOK'
    <3>1. created[clock] \in Seq(Requests) /\ clock \in Seconds
      BY DEF LeasesOK, PlatformOK
    <3>2. Append(created[clock], r) \in Seq(Requests) /\ Append(created[clock], r) # <<>>
      BY <3>1
    <3>3. /\ created' = [created EXCEPT ![clock] = Append(created[clock], r)]
          /\ lease' = [lease EXCEPT ![clock] = "PENDING"]
          /\ jobStatus' = [jobStatus EXCEPT ![clock] = "CREATED"]
          /\ beats' = beats
      BY <1>1, <2>1 DEF CreateJob, UserCreatesJob
    <3>4. /\ created' \in [Seconds -> Seq(Requests)]
          /\ lease' \in [Seconds -> LeaseStatus] /\ jobStatus' \in [Seconds -> JobStatus]
      BY <3>1, <3>2, <3>3 DEF LeasesOK, LeaseStatus, JobStatus
    <3>5. \A l \in Seconds : lease'[l] = "PENDING" => created'[l] # <<>>
      BY <3>1, <3>2, <3>3 DEF LeasesOK
    <3> QED BY <3>3, <3>4, <3>5 DEF LeasesOK
  <2> QED BY <1>1, <2>2 DEF UserCreatesJob, LocalsOK, ResultsOK, PlatformOK
<1>2. CASE UserApproves
  <2>1. approvals' \in Seq(Approval)
    <3>1. ASSUME NEW e \in Seconds, NEW r \in ApprovalRequests, CreateApproval(e, r)
          PROVE  approvals' \in Seq(Approval)
      <4>1. r \in ApprovalRequest
        BY ControlPlaneAssumption
      <4> QED BY <3>1, <4>1 DEF CreateApproval, Approval, ApprovalRequest, ApprovalStatus, PlatformOK
    <3>2. ASSUME NEW i \in DOMAIN approvals, ApprovalFallsDue(i)
          PROVE  approvals' \in Seq(Approval)
      <4>1. [approvals[i] EXCEPT !.status = "LATE"] \in Approval
        <5>1. approvals[i] \in Approval
          BY DEF PlatformOK
        <5> QED BY <5>1 DEF Approval, ApprovalStatus
      <4>2. approvals' = [approvals EXCEPT ![i] = [approvals[i] EXCEPT !.status = "LATE"]]
        BY <3>2 DEF ApprovalFallsDue
      <4> HIDE DEF IInv
      <4> QED BY <4>1, <4>2 DEF PlatformOK, IInv
    <3>3. ASSUME NEW i \in DOMAIN approvals, NEW s \in ApprovalStatus, approvals' = Updated(i, s)
          PROVE  approvals' \in Seq(Approval)
      BY <3>3, UpdatedFacts DEF PlatformOK
    <3> QED BY <1>2, <3>1, <3>2, <3>3
            DEF UserApproves, GetApproval, DecideApproval, ApprovalStatus
  <2> QED BY <1>2, <2>1 DEF UserApproves, LocalsOK, LeasesOK, ResultsOK, PlatformOK
<1> QED BY <1>1, <1>2

\* The environment.
LEMMA EnvironmentTyped ==
  ASSUME IInv, \/ \E c \in Callers : HangUp(c)
               \/ \E b \in beats : LateBeat(b)
               \/ Crash \/ Tick
  PROVE  IInv'
<1> USE DEF IInv, locals, platform, store, history
<1>1. ASSUME NEW c \in Callers, HangUp(c) PROVE IInv'
  BY <1>1 DEF HangUp, LocalsOK, LeasesOK, ResultsOK, PlatformOK
<1>2. ASSUME NEW b \in beats, LateBeat(b) PROVE IInv'
  <2>1. b.lease \in Seconds /\ b.status \in {"RUNNING"} \cup Ended
    BY DEF LeasesOK, Beat
  <2>2. LeasesOK'
    BY <1>2, <2>1 DEF LateBeat, HeartbeatLease, LeasesOK, LeaseStatus, JobStatus, Ended
  <2> QED BY <1>2, <2>2 DEF LateBeat, LocalsOK, ResultsOK, PlatformOK
<1>3. CASE Crash
  <2>1. LocalsOK'
    BY <1>3, NothingYet DEF Crash, LocalsOK, Labels
  <2> QED BY <1>3, <2>1 DEF Crash, LeasesOK, ResultsOK, PlatformOK
<1>4. CASE Tick
  <2>1. clock' \in Seconds
    BY <1>4, ControlPlaneAssumption DEF Tick, PlatformOK, Seconds
  <2> QED BY <1>4, <2>1 DEF Tick, LocalsOK, LeasesOK, ResultsOK, PlatformOK
<1> QED BY <1>1, <1>2, <1>3, <1>4

LEMMA NextTyped == IInv /\ [Next]_vars => IInv'
<1> SUFFICES ASSUME IInv, [Next]_vars PROVE IInv'
  OBVIOUS
<1>1. CASE UNCHANGED vars
  BY <1>1 DEF vars, platform, locals, store, history, IInv, LocalsOK, LeasesOK, ResultsOK, PlatformOK
<1>2. CASE Next
  BY <1>2, StepLocals, StepStores, BeginTyped, UsersTyped, EnvironmentTyped
     DEF Next, Callers, IInv
<1> QED BY <1>1, <1>2

\* Every variable keeps its type, whatever is lost, late or refused.
THEOREM LeasesTypeCorrect == Spec => []TypeOK
<1>1. IInv => TypeOK
  BY DEF IInv, LocalsOK, LeasesOK, ResultsOK, PlatformOK, TypeOK, ControlPlaneTypeOK
<1> QED BY <1>1, InitTyped, NextTyped, PTL DEF Spec

-----------------------------------------------------------------------------
(* Who changes what. *)

\* A handler is taken up.
Begins(c) ==
  \E e \in Seconds :
    \/ c \in Runners /\ NextLease(c, e)
    \/ \E r \in Requests : Batch(c, e, r)
    \/ \E r \in Requests, b \in Batches : StartExecution(c, e, r, b)
    \/ \E f \in Files, o \in Operations : Action(c, e, f, o)

Own(c) == <<pc[c], work[c], todo[c], snap[c]>>

Reports(c) == Accept(c) \/ ReportCompleted(c) \/ ReportFailed(c)

\* A handler's state is its own, but for a crash.
LEMMA StepFrame ==
  ASSUME IInv, NEW c \in Callers, Step(c), NEW d \in Callers, d # c
  PROVE  UNCHANGED Own(d)
<1> USE DEF IInv, LocalsOK, Own, Goto, Return, EndWriteback
<1>1. CASE Accept(c) \/ Scan(c) \/ ScanFails(c) \/ Start(c) \/ StartFails(c)
  BY <1>1 DEF Accept, Scan, ScanFails, Start, StartFails
<1>2. CASE ReportCompleted(c) \/ ReportFailed(c)
  BY <1>2 DEF ReportCompleted, ReportFailed
<1>3. CASE Approve(c) \/ Block(c) \/ ListActionPlan(c) \/ Skip(c)
  BY <1>3 DEF Approve, Block, ListActionPlan, Skip
<1>4. CASE Apply(c) \/ Mark(c) \/ Applied(c) \/ Collect(c) \/ Upload(c)
  BY <1>4 DEF Apply, Mark, Applied, Collect, Upload
<1> QED BY <1>1, <1>2, <1>3, <1>4 DEF Step

LEMMA LocalsFrame ==
  ASSUME IInv, [Next]_vars, NEW d \in Callers
  PROVE  UNCHANGED Own(d) \/ Step(d) \/ Begins(d) \/ Crash
<1> USE DEF Own
<1>1. ASSUME NEW c \in Callers, Step(c) PROVE UNCHANGED Own(d) \/ Step(d)
  BY <1>1, StepFrame
<1>2. ASSUME NEW c \in Callers, Begins(c) PROVE UNCHANGED Own(d) \/ Begins(d)
  <2> USE DEF Goto, IInv, LocalsOK
  <2>1. ASSUME NEW e \in Seconds, NextLease(c, e), d # c PROVE UNCHANGED Own(d)
    BY <2>1 DEF NextLease
  <2>2. ASSUME NEW e \in Seconds, NEW r \in Requests, Batch(c, e, r), d # c PROVE UNCHANGED Own(d)
    BY <2>2 DEF Batch
  <2>3. ASSUME NEW e \in Seconds, NEW f \in Files, NEW o \in Operations, Action(c, e, f, o), d # c
        PROVE  UNCHANGED Own(d)
    BY <2>3 DEF Action
  <2>4. ASSUME NEW e \in Seconds, NEW r \in Requests, NEW b \in Batches,
               StartExecution(c, e, r, b), d # c
        PROVE  UNCHANGED Own(d)
    BY <2>4 DEF StartExecution
  <2> QED BY <1>2, <2>1, <2>2, <2>3, <2>4 DEF Begins
<1>3. ASSUME NEW c \in Callers, HangUp(c) PROVE UNCHANGED Own(d)
  BY <1>3 DEF HangUp
<1>4. ASSUME NEW b \in beats, LateBeat(b) PROVE UNCHANGED Own(d)
  BY <1>4 DEF LateBeat, locals
<1>5. CASE Tick \/ UserCreatesJob \/ UserApproves \/ UNCHANGED vars
  BY <1>5 DEF Tick, UserCreatesJob, UserApproves, vars, locals
<1> QED BY <1>1, <1>2, <1>3, <1>4, <1>5 DEF Next, Begins, Callers

\* Each store has few writers.
LEMMA StoresFrame ==
  ASSUME [Next]_vars
  PROVE  /\ UNCHANGED rows \/ \E c \in Callers : Start(c) \/ Mark(c)
         /\ UNCHANGED <<manifests, plan>> \/ \E c \in Callers : Start(c)
         /\ \/ UNCHANGED started
            \/ \E c \in Users, e \in Seconds, r \in Requests, b \in Batches :
                 StartExecution(c, e, r, b)
         /\ UNCHANGED written \/ \E c \in Callers : Apply(c)
         /\ UNCHANGED evidence \/ \E c \in Callers : Upload(c)
         /\ UNCHANGED approvals \/ UserApproves
         /\ UNCHANGED created \/ UserCreatesJob
         /\ UNCHANGED grants \/ \E c \in Runners, l \in Seconds : NextLease(c, l)
         /\ \/ UNCHANGED <<lease, jobStatus, beats>>
            \/ \E c \in Callers : Reports(c)
            \/ \E b \in beats : LateBeat(b)
            \/ \E c \in Runners, l \in Seconds : NextLease(c, l)
            \/ UserCreatesJob
<1> USE DEF store, history
<1>1. ASSUME NEW c \in Callers, Step(c)
      PROVE  /\ UNCHANGED <<approvals, created, grants, started>>
             /\ UNCHANGED rows \/ Start(c) \/ Mark(c)
             /\ UNCHANGED <<manifests, plan>> \/ Start(c)
             /\ UNCHANGED written \/ Apply(c)
             /\ UNCHANGED evidence \/ Upload(c)
             /\ UNCHANGED <<lease, jobStatus, beats>> \/ Reports(c)
  <2>1. CASE Reports(c)
    BY <2>1 DEF Reports, Accept, ReportCompleted, ReportFailed
  <2>2. CASE Scan(c) \/ ScanFails(c) \/ Start(c) \/ StartFails(c) \/ Approve(c) \/ Block(c)
    BY <2>2 DEF Scan, ScanFails, Start, StartFails, Approve, Block, platform
  <2>3. CASE ListActionPlan(c) \/ Skip(c) \/ Apply(c) \/ Mark(c)
    BY <2>3 DEF ListActionPlan, Skip, Apply, Mark, platform
  <2>4. CASE Applied(c) \/ Collect(c) \/ Upload(c)
    BY <2>4 DEF Applied, Collect, Upload, platform
  <2> QED BY <1>1, <2>1, <2>2, <2>3, <2>4 DEF Step, Reports
<1>2. ASSUME NEW c \in Runners, NEW l \in Seconds, NextLease(c, l)
      PROVE  UNCHANGED <<store, written, started, evidence, approvals, created>>
  BY <1>2 DEF NextLease
<1>3. ASSUME NEW c \in Users, NEW e \in Seconds,
             \/ \E r \in Requests : Batch(c, e, r)
             \/ \E f \in Files, o \in Operations : Action(c, e, f, o)
      PROVE  UNCHANGED <<store, history, evidence, platform, beats>>
  BY <1>3 DEF Batch, Action
<1>9. ASSUME NEW c \in Users, NEW e \in Seconds, NEW r \in Requests, NEW b \in Batches,
             StartExecution(c, e, r, b)
      PROVE  UNCHANGED <<store, written, grants, evidence, platform, beats>>
  BY <1>9 DEF StartExecution
<1>4. ASSUME NEW c \in Callers, HangUp(c)
      PROVE  UNCHANGED <<store, history, evidence, platform, beats>>
  BY <1>4 DEF HangUp
<1>5. ASSUME NEW b \in beats, LateBeat(b)
      PROVE  UNCHANGED <<store, history, evidence, approvals, created>>
  BY <1>5 DEF LateBeat
<1>6. CASE Crash \/ Tick \/ UNCHANGED vars
  BY <1>6 DEF Crash, Tick, vars, platform
<1>7. CASE UserCreatesJob
  BY <1>7 DEF UserCreatesJob
<1>8. CASE UserApproves
  BY <1>8 DEF UserApproves
<1> QED BY <1>1, <1>2, <1>3, <1>4, <1>5, <1>6, <1>7, <1>8, <1>9 DEF Next, platform

-----------------------------------------------------------------------------
(* Approvals. *)

Approved(execution, covers) ==
  \E i \in DOMAIN approvals :
    /\ approvals[i].status = "APPROVED"
    /\ approvals[i].execution = execution
    /\ {approvals[i].operation, approvals[i].actionType} \cap covers # {}

\* A handler that may write and is past the gate has an approval.
Authorized(c) ==
  MayWrite(c) /\ pc[c] \in {"list", "apply", "completed", "failed"} =>
    Approved(work[c].execution, work[c].covers)

AInv == WritesAreApproved /\ \A c \in Callers : Authorized(c)

\* What was approved stays approved: approvals move in the list, but none is
\* taken back.
LEMMA ApprovalStands ==
  ASSUME IInv, [Next]_vars, NEW e, NEW covers, Approved(e, covers)
  PROVE  Approved(e, covers)'
<1>1. PICK k \in DOMAIN approvals : /\ approvals[k].status = "APPROVED"
                                    /\ approvals[k].execution = e
                                    /\ {approvals[k].operation, approvals[k].actionType} \cap covers # {}
  BY DEF Approved
<1>2. SUFFICES \E j \in DOMAIN approvals' : approvals'[j] = approvals[k]
  BY <1>1 DEF Approved
<1>3. approvals \in Seq(Approval)
  BY DEF IInv, PlatformOK
<1>4. CASE UNCHANGED approvals
  BY <1>4
<1>5. ASSUME NEW f \in Seconds, NEW r \in ApprovalRequests, CreateApproval(f, r)
      PROVE  \E j \in DOMAIN approvals' : approvals'[j] = approvals[k]
  <2> DEFINE new == [execution |-> f, operation |-> r.operation,
                     actionType |-> r.actionType, status |-> "PENDING"]
  <2>1. approvals' = Append(approvals, new)
    BY <1>5 DEF CreateApproval
  <2> HIDE DEF new
  <2>2. k \in DOMAIN approvals' /\ approvals'[k] = approvals[k]
    BY <1>3, <2>1
  <2> QED BY <2>2
<1>6. ASSUME NEW i \in DOMAIN approvals, ApprovalFallsDue(i)
      PROVE  \E j \in DOMAIN approvals' : approvals'[j] = approvals[k]
  BY <1>1, <1>3, <1>6 DEF ApprovalFallsDue
<1>7. ASSUME NEW i \in DOMAIN approvals, NEW s \in ApprovalStatus,
             approvals[i].status # "APPROVED", approvals' = Updated(i, s)
      PROVE  \E j \in DOMAIN approvals' : approvals'[j] = approvals[k]
  BY <1>1, <1>3, <1>7, UpdatedFacts
<1>8. CASE UserApproves
  BY <1>5, <1>6, <1>7, <1>8 DEF UserApproves, GetApproval, DecideApproval, ApprovalStatus
<1> QED BY <1>4, <1>8, StoresFrame

LEMMA StepAuthorized ==
  ASSUME IInv, [Next]_vars, NEW c \in Callers, Authorized(c), Step(c)
  PROVE  Authorized(c)'
<1> USE DEF IInv, LocalsOK
<1>0. \A e, covers : Approved(e, covers) => Approved(e, covers)'
  BY ApprovalStands
<1>1. CASE \/ Accept(c) \/ Scan(c) \/ ScanFails(c) \/ Start(c) \/ StartFails(c)
           \/ ReportCompleted(c) \/ ReportFailed(c) \/ Block(c) \/ Applied(c) \/ Collect(c)
           \/ Upload(c)
  <2>1. pc'[c] \in {"scan", "start", "finished", "aborted", "approve", "collect", "idle", "upload"}
    BY <1>1 DEF Accept, Scan, ScanFails, Start, StartFails, ReportCompleted, ReportFailed,
                Block, Applied, Collect, Upload, Goto, Return, EndWriteback
  <2> QED BY <2>1 DEF Authorized
<1>2. CASE Approve(c)
  <2>1. Approved(work[c].execution, work[c].covers)
    BY <1>2 DEF Approve, HasApproval, Listed, Covered, Approved
  <2> QED BY <1>0, <1>2, <2>1 DEF Approve, Authorized
<1>3. CASE ListActionPlan(c)
  <2>1. CASE StoreFails(c) /\ EndWriteback(c)
    <3>1. pc'[c] \in {"collect", "idle"}
      BY <2>1 DEF EndWriteback, Return, Goto
    <3> QED BY <3>1 DEF Authorized
  <2>2. CASE UNCHANGED work
    BY <1>0, <1>3, <2>2 DEF ListActionPlan, Authorized, MayWrite
  <2> QED BY <1>3, <2>1, <2>2 DEF ListActionPlan
<1>4. CASE Skip(c) \/ Apply(c) \/ Mark(c)
  BY <1>0, <1>4 DEF Skip, Apply, Mark, Authorized, MayWrite
<1> QED BY <1>1, <1>2, <1>3, <1>4 DEF Step

LEMMA NextAuthorized == IInv /\ AInv /\ [Next]_vars => AInv'
<1> SUFFICES ASSUME IInv, AInv, [Next]_vars PROVE AInv'
  OBVIOUS
<1>1. ASSUME NEW c \in Callers PROVE Authorized(c)'
  <2>0. Authorized(c)
    BY DEF AInv
  <2>1. CASE UNCHANGED Own(c)
    BY <2>0, <2>1, ApprovalStands DEF Own, Authorized, MayWrite
  <2>2. CASE Step(c)
    BY <2>0, <2>2, StepAuthorized
  <2>3. CASE Begins(c)
    <3>1. ASSUME NEW e \in Seconds, NextLease(c, e) PROVE Authorized(c)'
      <4>1. pc'[c] \in {"idle", "accepted"}
        BY <3>1 DEF NextLease, Goto, IInv, LocalsOK
      <4> QED BY <4>1 DEF Authorized
    <3>2. ASSUME NEW e \in Seconds, NEW r \in Requests, Batch(c, e, r) PROVE Authorized(c)'
      BY <3>2 DEF Batch, Goto, IInv, LocalsOK, Authorized, MayWrite
    <3>3. ASSUME NEW e \in Seconds, NEW f \in Files, NEW o \in Operations, Action(c, e, f, o)
          PROVE  Authorized(c)'
      <4>1. pc'[c] = "approve"
        BY <3>3 DEF Action, Goto, IInv, LocalsOK
      <4> QED BY <4>1 DEF Authorized
    <3>4. ASSUME NEW e \in Seconds, NEW r \in Requests, NEW b \in Batches, StartExecution(c, e, r, b)
          PROVE  Authorized(c)'
      <4>1. pc'[c] = "start"
        BY <3>4 DEF StartExecution, Goto, IInv, LocalsOK
      <4> QED BY <4>1 DEF Authorized
    <3> QED BY <2>3, <3>1, <3>2, <3>3, <3>4 DEF Begins
  <2>4. CASE Crash
    BY <2>4 DEF Crash, Authorized
  <2> QED BY <2>1, <2>2, <2>3, <2>4, LocalsFrame
<1>2. WritesAreApproved'
  <2>1. \A w \in written' : Approved(w.execution, w.covers)
    <3>1. CASE UNCHANGED written
      BY <3>1 DEF AInv, WritesAreApproved, Approved
    <3>2. ASSUME NEW c \in Callers, Apply(c)
          PROVE  \A w \in written' : Approved(w.execution, w.covers)
      <4>1. Approved(work[c].execution, work[c].covers)
        BY <3>2 DEF Apply, CanApplyWriteback, AInv, Authorized
      <4>2. \A w \in written' \ written : w.execution = work[c].execution /\ w.covers = work[c].covers
        BY <3>2 DEF Apply, Writes
      <4> QED BY <4>1, <4>2 DEF AInv, WritesAreApproved, Approved
    <3> QED BY <3>1, <3>2, StoresFrame
  <2>2. \A w \in written' : Approved(w.execution, w.covers)'
    BY <2>1, ApprovalStands
  <2> QED BY <2>2 DEF WritesAreApproved, Approved
<1> QED BY <1>1, <1>2 DEF AInv

\* No blob is written without an approval that still stands.
THEOREM NoUnapprovedWrites == Spec => []WritesAreApproved
<1>1. Init => AInv
  BY DEF Init, AInv, WritesAreApproved, Authorized
<1>2. AInv => WritesAreApproved
  BY DEF AInv
<1> QED BY <1>1, <1>2, InitTyped, NextTyped, NextAuthorized, PTL DEF Spec

-----------------------------------------------------------------------------
(* Batches. *)

Running == {"accepted", "scan", "start", "finished", "aborted"}
Early == {"accepted", "scan", "start"}

\* The handler of a lease works in the lease's mode, and what a batch or a lease
\* is allowed to apply, the lease wanted.
Faithful(c) ==
  /\ pc[c] \in Running => work[c].kind # "action"
  /\ pc[c] \in Early /\ MayWrite(c) => Wanted(work[c].execution)
  /\ \A i \in DOMAIN todo[c] :
       work[c].kind # "action" /\ todo[c][i].guardian = "allow" => Wanted(work[c].execution)

RowsWanted == \A e \in Seconds, f \in Files : rows[e][f].guardian = "allow" => Wanted(e)

BInv == BatchWasWanted /\ RowsWanted /\ \A c \in Callers : Faithful(c)

\* Requests are only added to a second, or to what users asked for.
LEMMA WantedStands ==
  ASSUME IInv, [Next]_vars, NEW l \in Seconds, Wanted(l)
  PROVE  Wanted(l)'
<1>0. \A s \in Seq(Requests), r \in Requests :
        /\ Append(s, r) \in Seq(Requests)
        /\ \A i \in DOMAIN s : i \in DOMAIN Append(s, r) /\ Append(s, r)[i] = s[i]
  OBVIOUS
<1>1. \A i \in DOMAIN created[l] : i \in DOMAIN created'[l] /\ created'[l][i] = created[l][i]
  <2>0. CASE UNCHANGED created
    BY <2>0
  <2>1. ASSUME NEW r \in Requests, CreateJob(r)
        PROVE  \A i \in DOMAIN created[l] : i \in DOMAIN created'[l] /\ created'[l][i] = created[l][i]
    <3>1. created \in [Seconds -> Seq(Requests)] /\ created[clock] \in Seq(Requests)
      BY DEF IInv, LeasesOK, PlatformOK
    <3>2. created'[l] = IF l = clock THEN Append(created[clock], r) ELSE created[l]
      BY <2>1, <3>1 DEF CreateJob
    <3> QED BY <1>0, <3>1, <3>2
  <2> QED BY <2>0, <2>1, StoresFrame DEF UserCreatesJob
<1>2. \A i \in DOMAIN started[l] : i \in DOMAIN started'[l] /\ started'[l][i] = started[l][i]
  <2>0. CASE UNCHANGED started
    BY <2>0
  <2>1. ASSUME NEW c \in Users, NEW e \in Seconds, NEW r \in Requests, NEW b \in Batches,
               StartExecution(c, e, r, b)
        PROVE  \A i \in DOMAIN started[l] : i \in DOMAIN started'[l] /\ started'[l][i] = started[l][i]
    <3>1. started \in [Seconds -> Seq(Requests)] /\ started[e] \in Seq(Requests)
      BY DEF IInv, ResultsOK
    <3>2. started'[l] = IF l = e THEN Append(started[e], r) ELSE started[l]
      BY <2>1, <3>1 DEF StartExecution
    <3> QED BY <1>0, <3>1, <3>2
  <2> QED BY <2>0, <2>1, StoresFrame
<1> QED BY <1>1, <1>2 DEF Wanted

LEMMA StepFaithful ==
  ASSUME IInv, RowsWanted, [Next]_vars, NEW c \in Callers, Faithful(c), Step(c)
  PROVE  Faithful(c)'
<1> USE DEF IInv, LocalsOK
<1>0. /\ pc[c] # "idle" => work[c].execution \in Seconds
      /\ \A l \in Seconds : Wanted(l) => Wanted(l)'
  BY WantedStands
<1>1. CASE /\ Accept(c) \/ Scan(c) \/ ScanFails(c) \/ Start(c) \/ StartFails(c)
           /\ ~Return(c)
  <2>1. UNCHANGED <<work, todo>> /\ pc[c] \in Early
    BY <1>1 DEF Accept, Scan, ScanFails, Start, StartFails, Early
  <2>2. pc'[c] \in Running
    BY <1>1 DEF Accept, Scan, ScanFails, Start, StartFails, Goto, Running
  <2> QED BY <1>0, <2>1, <2>2 DEF Faithful, MayWrite, Early, Running
<1>2. CASE ReportCompleted(c)
  <2>1. /\ pc[c] = "finished" /\ pc'[c] \in {"approve", "collect"}
        /\ work'[c].kind # "action" /\ work'[c].execution = work[c].execution /\ todo' = todo
    BY <1>2 DEF ReportCompleted, Goto
  <2> QED BY <1>0, <2>1 DEF Faithful, Early, Running
<1>3. CASE EndWriteback(c)
  <2>1. pc'[c] \in {"collect", "idle"} /\ todo'[c] = <<>>
    BY <1>3 DEF EndWriteback, Return, Goto
  <2> QED BY <2>1 DEF Faithful, Early, Running
<1>4. CASE Return(c)
  <2>1. pc'[c] = "idle" /\ todo'[c] = <<>>
    BY <1>4 DEF Return, Goto
  <2> QED BY <2>1 DEF Faithful, Early, Running
<1>5. CASE ListActionPlan(c) /\ ~EndWriteback(c)
  <2>1. /\ pc[c] = "list" /\ pc'[c] = "apply" /\ work' = work
        /\ todo'[c] = Items(work[c].execution)
    BY <1>5 DEF ListActionPlan, Goto
  <2>2. ASSUME NEW e \in Seconds, NEW i \in DOMAIN Items(e), Items(e)[i].guardian = "allow"
        PROVE  Wanted(e)
    <3>1. Items(e)[i].file \in Files /\ rows[e][Items(e)[i].file].guardian = "allow"
      BY <2>2, ItemsFacts DEF ResultsOK
    <3> QED BY <3>1 DEF RowsWanted
  <2> QED BY <1>0, <2>1, <2>2 DEF Faithful, Early, Running
<1>6. CASE Skip(c) \/ Mark(c)
  <2>1. /\ pc'[c] = "apply" /\ work' = work /\ todo[c] # <<>> /\ todo'[c] = Tail(todo[c])
        /\ pc[c] # "idle"
    BY <1>6 DEF Skip, Mark, Goto
  <2>2. \A i \in DOMAIN todo'[c] : i + 1 \in DOMAIN todo[c] /\ todo'[c][i] = todo[c][i + 1]
    BY <2>1, HeadFacts
  <2> QED BY <1>0, <2>1, <2>2 DEF Faithful, Early, Running
<1>7. CASE Approve(c) \/ Apply(c) \/ (Collect(c) /\ ~EndWriteback(c))
  <2>1. /\ pc[c] # "idle" /\ pc'[c] \notin Running /\ work' = work /\ todo' = todo
    BY <1>7 DEF Approve, Apply, Collect, Goto, Running
  <2> QED BY <1>0, <2>1 DEF Faithful, Early, Running
<1>8. CASE Applied(c) /\ ~Return(c)
  BY <1>0, <1>8 DEF Applied, Goto, Faithful, Early, Running
<1> QED BY <1>1, <1>2, <1>3, <1>4, <1>5, <1>6, <1>7, <1>8 DEF Step, Block, Upload, ReportFailed

LEMMA BeginFaithful ==
  ASSUME IInv, [Next]_vars, NEW c \in Callers, Faithful(c), Begins(c)
  PROVE  Faithful(c)'
<1> USE DEF IInv, LocalsOK
<1>1. ASSUME NEW e \in Seconds, NextLease(c, e) PROVE Faithful(c)'
  <2>1. todo'[c] = <<>> /\ created' = created
    BY <1>1 DEF NextLease
  <2>2. CASE UNCHANGED <<pc, work>>
    BY <1>1, <2>1, <2>2 DEF NextLease, Faithful, Running, Early
  <2>3. CASE ~UNCHANGED <<pc, work>>
    <3>1. /\ work'[c].kind = "run" /\ work'[c].execution = e
          /\ work'[c].mode = RequestOf(e).mode /\ work'[c].writeback = RequestOf(e).writeback
      BY <1>1, <2>3 DEF NextLease
    <3>2. created[e] \in Seq(Requests) /\ created[e] # <<>>
      BY <1>1 DEF NextLease, IsNext, LeasesOK
    <3>3. Len(created[e]) \in DOMAIN created[e] /\ RequestOf(e) \in Requests
      BY <3>2 DEF RequestOf
    <3>4. RequestOf(e) \in Request
      BY <3>3, RequestFacts
    <3>5. RequestOf(e).mode = "apply" /\ RequestOf(e).writeback => AsksToWrite(RequestOf(e))
      BY <3>4 DEF Request, AsksToWrite
    <3>6. MayWrite(c)' => Wanted(e)'
      BY <2>1, <3>1, <3>3, <3>5 DEF MayWrite, Wanted, RequestOf
    <3> QED BY <2>1, <3>1, <3>6 DEF Faithful
  <2> QED BY <2>2, <2>3
<1>2. ASSUME NEW e \in Seconds, NEW r \in Requests, Batch(c, e, r) PROVE Faithful(c)'
  <2>1. pc'[c] \in {"approve", "list"} /\ todo'[c] = <<>>
    BY <1>2 DEF Batch, Goto
  <2> QED BY <2>1 DEF Faithful, Running, Early
<1>3. ASSUME NEW e \in Seconds, NEW f \in Files, NEW o \in Operations, Action(c, e, f, o)
      PROVE  Faithful(c)'
  <2>1. pc'[c] = "approve" /\ work'[c].kind = "action"
    BY <1>3 DEF Action, Goto
  <2> QED BY <2>1 DEF Faithful, Running, Early
<1>4. ASSUME NEW e \in Seconds, NEW r \in Requests, NEW b \in Batches, StartExecution(c, e, r, b)
      PROVE  Faithful(c)'
  <2>1. /\ todo'[c] = <<>> /\ created' = created /\ started' = [started EXCEPT ![e] = Append(started[e], r)]
        /\ work'[c].kind = "start" /\ work'[c].execution = e
        /\ work'[c].mode = r.mode /\ work'[c].writeback = r.writeback
    BY <1>4 DEF StartExecution, platform
  <2>2. r.mode = "apply" /\ r.writeback => AsksToWrite(r)
    BY RequestFacts DEF Request, AsksToWrite
  <2>3. /\ Len(started[e]) + 1 \in DOMAIN Append(started[e], r)
        /\ Append(started[e], r)[Len(started[e]) + 1] = r
    <3>1. started[e] \in Seq(Requests)
      BY DEF ResultsOK
    <3> QED BY <3>1
  <2>4. started'[e] = Append(started[e], r)
    BY <2>1 DEF ResultsOK
  <2>5. AsksToWrite(r) => Wanted(e)'
    <3>1. \E i \in DOMAIN started'[e] : started'[e][i] = r
      BY <2>3, <2>4
    <3> QED BY <3>1 DEF Wanted
  <2>6. MayWrite(c)' => Wanted(e)'
    BY <2>1, <2>2, <2>5 DEF MayWrite
  <2> QED BY <2>1, <2>6 DEF Faithful
<1> QED BY <1>1, <1>2, <1>3, <1>4 DEF Begins

\* A mark changes the status of one row.
LEMMA MarkFacts ==
  ASSUME IInv, NEW c \in Callers, Mark(c)
  PROVE  \/ UNCHANGED rows
         \/ /\ ~gone[c]
            /\ pc[c] \in {"completed", "failed"}
            /\ work[c].execution \in Seconds /\ Head(todo[c]).file \in Files
            /\ \A e \in Seconds, f \in Files :
                 /\ rows'[e][f].guardian = rows[e][f].guardian
                 /\ rows'[e][f].status = IF e = work[c].execution /\ f = Head(todo[c]).file
                                         THEN pc[c] ELSE rows[e][f].status
<1> SUFFICES ASSUME ~UNCHANGED rows
             PROVE  /\ ~gone[c]
                    /\ pc[c] \in {"completed", "failed"}
                    /\ work[c].execution \in Seconds /\ Head(todo[c]).file \in Files
                    /\ \A e \in Seconds, f \in Files :
                         /\ rows'[e][f].guardian = rows[e][f].guardian
                         /\ rows'[e][f].status =
                              IF e = work[c].execution /\ f = Head(todo[c]).file
                              THEN pc[c] ELSE rows[e][f].status
  OBVIOUS
<1> DEFINE x == work[c].execution  h == Head(todo[c]).file
           r == [rows[x][h] EXCEPT !.status = pc[c]]
<1>1. ~gone[c] /\ pc[c] \in {"completed", "failed"} /\ x \in Seconds /\ todo[c] # <<>>
      /\ todo[c] \in Seq(Item) /\ rows \in [Seconds -> [Files -> Row]]
  BY DEF Mark, IInv, LocalsOK, ResultsOK
<1>2. h \in Files
  BY <1>1, HeadFacts
<1>3. r.status = pc[c] /\ r.guardian = rows[x][h].guardian
  <2>1. rows[x][h] \in Row
    BY <1>1, <1>2
  <2> QED BY <2>1 DEF Row
<1>4. rows' = [rows EXCEPT ![x] = [rows[x] EXCEPT ![h] = r]]
  BY DEF Mark
<1> HIDE DEF x, h, r
<1>5. \A e \in Seconds, f \in Files :
        rows'[e][f] = IF e = x /\ f = h THEN r ELSE rows[e][f]
  BY <1>1, <1>2, <1>4
<1>6. \A e \in Seconds, f \in Files :
        /\ rows'[e][f].guardian = rows[e][f].guardian
        /\ rows'[e][f].status = IF e = x /\ f = h THEN pc[c] ELSE rows[e][f].status
  BY <1>3, <1>5
<1> QED BY <1>1, <1>2, <1>6 DEF x, h

LEMMA NextFaithful == IInv /\ BInv /\ [Next]_vars => BInv'
<1> SUFFICES ASSUME IInv, BInv, [Next]_vars PROVE BInv'
  OBVIOUS
<1> USE DEF BInv
<1>0. \A l \in Seconds : Wanted(l) => Wanted(l)'
  BY WantedStands
<1>1. ASSUME NEW c \in Callers PROVE Faithful(c)'
  <2>1. CASE UNCHANGED Own(c)
    <3>1. CASE pc[c] = "idle"
      BY <2>1, <3>1 DEF Own, Faithful, IInv, LocalsOK, Running, Early
    <3>2. CASE pc[c] # "idle"
      <4>1. work[c].execution \in Seconds
        BY <3>2 DEF IInv, LocalsOK
      <4> QED BY <1>0, <2>1, <4>1 DEF Own, Faithful, MayWrite
    <3> QED BY <3>1, <3>2
  <2>2. CASE Step(c)
    BY <2>2, StepFaithful
  <2>3. CASE Begins(c)
    BY <2>3, BeginFaithful
  <2>4. CASE Crash
    BY <2>4 DEF Crash, Faithful, Running, Early
  <2> QED BY <2>1, <2>2, <2>3, <2>4, LocalsFrame
<1>2. RowsWanted'
  <2>1. \A e \in Seconds, f \in Files : rows'[e][f].guardian = "allow" => Wanted(e)
    <3>1. CASE UNCHANGED rows
      BY <3>1 DEF RowsWanted
    <3>2. ASSUME NEW c \in Callers, Start(c)
          PROVE  \A e \in Seconds, f \in Files : rows'[e][f].guardian = "allow" => Wanted(e)
      <4>1. rows' = [rows EXCEPT ![work[c].execution] = Planned(c)] /\ pc[c] = "start"
        BY <3>2 DEF Start
      <4>2. \A f \in Files : Planned(c)[f].guardian = "allow" => MayWrite(c)
        BY DEF Planned, NoRows
      <4>3. MayWrite(c) => Wanted(work[c].execution)
        BY <4>1 DEF Faithful, Early
      <4> QED BY <4>1, <4>2, <4>3 DEF RowsWanted, IInv, ResultsOK
    <3>3. ASSUME NEW c \in Callers, Mark(c)
          PROVE  \A e \in Seconds, f \in Files : rows'[e][f].guardian = "allow" => Wanted(e)
      <4> QED BY <3>3, MarkFacts DEF RowsWanted
    <3> QED BY <3>1, <3>2, <3>3, StoresFrame
  <2> QED BY <1>0, <2>1 DEF RowsWanted
<1>3. BatchWasWanted'
  <2>1. \A w \in written' : w.execution \in Seconds /\ (w.batch => Wanted(w.execution))
    <3>1. CASE UNCHANGED written
      BY <3>1 DEF BatchWasWanted, Wanted, IInv, ResultsOK, Write
    <3>2. ASSUME NEW c \in Callers, Apply(c)
          PROVE  \A w \in written' : w.execution \in Seconds /\ (w.batch => Wanted(w.execution))
      <4>1. work[c].execution \in Seconds /\ todo[c] \in Seq(Item) /\ todo[c] # <<>>
        BY <3>2 DEF Apply, IInv, LocalsOK
      <4>2. work[c].kind # "action" => Wanted(work[c].execution)
        BY <3>2, <4>1, HeadFacts DEF Apply, CanApplyWriteback, Faithful
      <4>3. \A w \in written' \ written :
              w.execution = work[c].execution /\ w.batch = (work[c].kind # "action")
        BY <3>2 DEF Apply, Writes
      <4> QED BY <4>1, <4>2, <4>3 DEF BatchWasWanted, Wanted, IInv, ResultsOK, Write
    <3> QED BY <3>1, <3>2, StoresFrame
  <2>2. \A w \in written' : w.batch => Wanted(w.execution)'
    BY <1>0, <2>1
  <2> QED BY <2>2 DEF BatchWasWanted, Wanted
<1> QED BY <1>1, <1>2, <1>3

\* A batch writes only for an execution that was asked for, for apply with
\* write-back, by the request of its job or by a user who started it.
THEOREM BatchesWereWanted == Spec => []BatchWasWanted
<1>1. Init => BInv
  BY DEF Init, BInv, BatchWasWanted, RowsWanted, NoRows, Faithful, Running, Early
<1>2. BInv => BatchWasWanted
  BY DEF BInv
<1> QED BY <1>1, <1>2, InitTyped, NextTyped, NextFaithful, PTL DEF Spec

-----------------------------------------------------------------------------
(* Evidence. *)

Wrote(execution, file) == \E w \in written : w.execution = execution /\ w.file = file

\* What a handler is about to mark or to upload as completed was written.
Truthful(c) ==
  /\ \A f \in Files : snap[c][f] = "completed" => Wrote(work[c].execution, f)
  /\ pc[c] = "completed" => Wrote(work[c].execution, Head(todo[c]).file)

RowsTrue == \A e \in Seconds, f \in Files : rows[e][f].status = "completed" => Wrote(e, f)

EInv == EvidenceIsTrue /\ RowsTrue /\ \A c \in Callers : Truthful(c)

\* Nothing is unwritten.
LEMMA WroteStands ==
  ASSUME [Next]_vars, NEW e, NEW f, Wrote(e, f)
  PROVE  Wrote(e, f)'
<1>1. written \subseteq written'
  BY StoresFrame DEF Apply, Writes
<1> QED BY <1>1 DEF Wrote

\* A connector's call that went well wrote the item.
LEMMA AppliedIsWritten ==
  ASSUME IInv, NEW c \in Callers, Apply(c), pc'[c] = "completed"
  PROVE  Wrote(work[c].execution, Head(todo[c]).file)'
<1>1. Writes(c)
  BY DEF Apply, Goto, IInv, LocalsOK
<1> DEFINE w == [execution |-> work[c].execution, file |-> Head(todo[c]).file,
                 covers |-> work[c].covers, batch |-> work[c].kind # "action"]
<1>2. w \in written' /\ w.execution = work[c].execution /\ w.file = Head(todo[c]).file
  BY <1>1 DEF Writes
<1>3. UNCHANGED <<work, todo>>
  BY DEF Apply
<1> HIDE DEF w
<1> QED BY <1>2, <1>3 DEF Wrote

LEMMA StepTruthful ==
  ASSUME IInv, RowsTrue, [Next]_vars, NEW c \in Callers, Truthful(c), Step(c)
  PROVE  Truthful(c)'
<1> USE DEF IInv, LocalsOK
<1>0. \A e, f : Wrote(e, f) => Wrote(e, f)'
  BY WroteStands
<1>1. CASE EndWriteback(c) \/ Return(c)
  <2>1. pc'[c] \in {"collect", "idle"} /\ snap'[c] = NoResults
    BY <1>1 DEF EndWriteback, Return, Goto
  <2> QED BY <2>1 DEF Truthful, NoResults
<1>2. CASE Collect(c) /\ ~EndWriteback(c)
  <2>1. /\ pc[c] = "collect" /\ pc'[c] = "upload" /\ work' = work
        /\ snap'[c] = Results(work[c].execution)
    BY <1>2 DEF Collect, Goto
  <2>2. \A e \in Seconds, f \in Files : Results(e)[f] = "completed" => Wrote(e, f)'
    BY <1>0 DEF Results, RowsTrue
  <2>3. work[c].execution \in Seconds
    BY <2>1
  <2> QED BY <2>1, <2>2, <2>3 DEF Truthful
<1>3. CASE Apply(c)
  <2>1. UNCHANGED <<work, todo, snap>>
    BY <1>3 DEF Apply
  <2> QED BY <1>0, <1>3, <2>1, AppliedIsWritten DEF Truthful
<1>4. CASE \/ Accept(c) \/ Scan(c) \/ ScanFails(c) \/ ReportCompleted(c)
           \/ ((Start(c) \/ StartFails(c)) /\ ~Return(c))
           \/ Approve(c) \/ (ListActionPlan(c) /\ ~EndWriteback(c)) \/ Skip(c) \/ Mark(c)
           \/ (Applied(c) /\ ~Return(c))
  <2>1. work'[c].execution = work[c].execution /\ snap' = snap
    <3>1. CASE ReportCompleted(c)
      BY <3>1 DEF ReportCompleted
    <3>2. CASE ~ReportCompleted(c)
      <4>1. UNCHANGED <<work, snap>>
        BY <1>4, <3>2 DEF Accept, Scan, ScanFails, Start, StartFails, Approve, ListActionPlan,
                          Skip, Mark, Applied
      <4> QED BY <4>1
    <3> QED BY <3>1, <3>2
  <2>2. pc'[c] # "completed"
    BY <1>4 DEF Accept, Scan, ScanFails, Start, StartFails, ReportCompleted, Approve,
                ListActionPlan, Skip, Mark, Applied, Goto
  <2> QED BY <1>0, <2>1, <2>2 DEF Truthful
<1> QED BY <1>1, <1>2, <1>3, <1>4 DEF Step, Block, Upload, ReportFailed

LEMMA NextTruthful == IInv /\ EInv /\ [Next]_vars => EInv'
<1> SUFFICES ASSUME IInv, EInv, [Next]_vars PROVE EInv'
  OBVIOUS
<1> USE DEF EInv
<1>0. \A e, f : Wrote(e, f) => Wrote(e, f)'
  BY WroteStands
<1>1. ASSUME NEW c \in Callers PROVE Truthful(c)'
  <2>1. CASE UNCHANGED Own(c)
    BY <1>0, <2>1 DEF Own, Truthful
  <2>2. CASE Step(c)
    BY <2>2, StepTruthful
  <2>3. CASE Begins(c)
    <3>1. pc[c] = "idle" /\ pc'[c] # "completed" /\ snap' = snap
      BY <2>3 DEF Begins, NextLease, Batch, StartExecution, Action, Goto, IInv, LocalsOK
    <3>2. snap'[c] = NoResults
      BY <3>1 DEF IInv, LocalsOK
    <3> QED BY <3>1, <3>2 DEF Truthful, NoResults
  <2>4. CASE Crash
    BY <2>4 DEF Crash, Truthful, NoResults
  <2> QED BY <2>1, <2>2, <2>3, <2>4, LocalsFrame
<1>2. RowsTrue'
  <2>1. \A e \in Seconds, f \in Files : rows'[e][f].status = "completed" => Wrote(e, f)
    <3>1. CASE UNCHANGED rows
      BY <3>1 DEF RowsTrue
    <3>2. ASSUME NEW c \in Callers, Start(c)
          PROVE  \A e \in Seconds, f \in Files : rows'[e][f].status = "completed" => Wrote(e, f)
      <4>1. rows' = [rows EXCEPT ![work[c].execution] = Planned(c)]
        BY <3>2 DEF Start
      <4>2. \A f \in Files : Planned(c)[f].status # "completed"
        BY DEF Planned, NoRows
      <4> QED BY <4>1, <4>2 DEF RowsTrue, IInv, ResultsOK
    <3>3. ASSUME NEW c \in Callers, Mark(c)
          PROVE  \A e \in Seconds, f \in Files : rows'[e][f].status = "completed" => Wrote(e, f)
      BY <3>3, MarkFacts DEF RowsTrue, Truthful
    <3> QED BY <3>1, <3>2, <3>3, StoresFrame
  <2> QED BY <1>0, <2>1 DEF RowsTrue
<1>3. EvidenceIsTrue'
  <2>1. \A e \in Seconds, f \in Files : evidence'[e][f] = "completed" => Wrote(e, f)
    <3>1. CASE UNCHANGED evidence
      BY <3>1 DEF EvidenceIsTrue, Wrote
    <3>2. ASSUME NEW c \in Callers, Upload(c)
          PROVE  \A e \in Seconds, f \in Files : evidence'[e][f] = "completed" => Wrote(e, f)
      <4>1. UNCHANGED evidence \/ evidence' = [evidence EXCEPT ![work[c].execution] = snap[c]]
        BY <3>2 DEF Upload
      <4>2. \A e \in Seconds, f \in Files : evidence[e][f] = "completed" => Wrote(e, f)
        BY DEF EvidenceIsTrue, Wrote
      <4> QED BY <4>1, <4>2 DEF Truthful, IInv, ResultsOK
    <3> QED BY <3>1, <3>2, StoresFrame
  <2>2. \A e \in Seconds, f \in Files : evidence'[e][f] = "completed" => Wrote(e, f)'
    BY <1>0, <2>1
  <2> QED BY <2>2 DEF EvidenceIsTrue, Wrote
<1> QED BY <1>1, <1>2, <1>3

\* What the control plane shows as completed reached the storage account.
THEOREM NoFalseEvidence == Spec => []EvidenceIsTrue
<1>1. Init => EInv
  BY DEF Init, EInv, EvidenceIsTrue, RowsTrue, NoRows, Truthful, NoResults
<1>2. EInv => EvidenceIsTrue
  BY DEF EInv
<1> QED BY <1>1, <1>2, InitTyped, NextTyped, NextTruthful, PTL DEF Spec

-----------------------------------------------------------------------------
(* Completion. *)

Executed(l) == l \in manifests

Stored(c) == pc[c] = "finished" => Executed(work[c].execution)

\* Whatever says completed, or will, is about an execution with a manifest.
SaidIsExecuted ==
  /\ \A l \in Seconds : "COMPLETED" \in {lease[l], jobStatus[l]} => Executed(l)
  /\ \A b \in beats : b.status = "COMPLETED" => Executed(b.lease)

CInv == SaidIsExecuted /\ \A c \in Callers : Stored(c)

\* A manifest is replaced, but not removed.
LEMMA ExecutedStands ==
  ASSUME IInv, [Next]_vars, NEW l \in Seconds, Executed(l)
  PROVE  Executed(l)'
BY StoresFrame DEF Executed, Start

LEMMA BeatsSayWhatIsExecuted ==
  ASSUME IInv, SaidIsExecuted, NEW c \in Callers, NEW l \in Seconds, NEW s,
         s = "COMPLETED" => Executed(l), Beats(c, l, s)
  PROVE  /\ \A k \in Seconds : "COMPLETED" \in {lease'[k], jobStatus'[k]} => Executed(k)
         /\ \A b \in beats' : b.status = "COMPLETED" => Executed(b.lease)
<1>1. CASE HeartbeatLease(l, s) /\ UNCHANGED beats
  BY <1>1 DEF HeartbeatLease, SaidIsExecuted, IInv, LeasesOK
<1>2. CASE /\ UNCHANGED <<lease, jobStatus>>
           /\ beats' \in {beats, beats \cup {[lease |-> l, status |-> s]}}
  BY <1>2 DEF SaidIsExecuted
<1> QED BY <1>1, <1>2 DEF Beats

LEMMA NextExecuted == IInv /\ CInv /\ [Next]_vars => CInv'
<1> SUFFICES ASSUME IInv, CInv, [Next]_vars PROVE CInv'
  OBVIOUS
<1> USE DEF CInv
<1>0. \A l \in Seconds : Executed(l) => Executed(l)'
  BY ExecutedStands
<1>1. ASSUME NEW c \in Callers PROVE Stored(c)'
  <2>0. pc[c] # "idle" => work[c].execution \in Seconds
    BY DEF IInv, LocalsOK
  <2>1. CASE UNCHANGED Own(c)
    BY <1>0, <2>0, <2>1 DEF Own, Stored
  <2>2. CASE Start(c)
    <3>1. work[c].execution \in manifests'
      BY <2>2 DEF Start
    <3>2. pc'[c] = "idle" \/ work' = work
      BY <2>2 DEF Start, Return, Goto, IInv, LocalsOK
    <3> QED BY <3>1, <3>2 DEF Stored, Executed
  <2>3. CASE Step(c) /\ ~Start(c)
    <3>1. pc'[c] # "finished"
      <4> USE DEF IInv, LocalsOK, Goto, Return, EndWriteback
      <4>1. CASE Accept(c) \/ Scan(c) \/ ScanFails(c) \/ StartFails(c) \/ ReportCompleted(c)
                 \/ ReportFailed(c) \/ Approve(c) \/ Block(c)
        BY <4>1 DEF Accept, Scan, ScanFails, StartFails, ReportCompleted, ReportFailed, Approve,
                    Block
      <4>2. CASE ListActionPlan(c) \/ Skip(c) \/ Apply(c) \/ Mark(c) \/ Applied(c)
                 \/ Collect(c) \/ Upload(c)
        BY <4>2 DEF ListActionPlan, Skip, Apply, Mark, Applied, Collect, Upload
      <4> QED BY <2>3, <4>1, <4>2 DEF Step
    <3> QED BY <3>1 DEF Stored
  <2>4. CASE Begins(c)
    <3>1. pc'[c] # "finished"
      BY <2>4 DEF Begins, NextLease, Batch, StartExecution, Action, Goto, IInv, LocalsOK
    <3> QED BY <3>1 DEF Stored
  <2>5. CASE Crash
    BY <2>5 DEF Crash, Stored
  <2> QED BY <2>1, <2>2, <2>3, <2>4, <2>5, LocalsFrame
<1>2. /\ \A l \in Seconds : "COMPLETED" \in {lease'[l], jobStatus'[l]} => Executed(l)
      /\ \A b \in beats' : b.lease \in Seconds /\ (b.status = "COMPLETED" => Executed(b.lease))
  <2>0. \A b \in beats' : b.lease \in Seconds
    <3>1. beats' \subseteq Beat
      BY NextTyped DEF IInv, LeasesOK
    <3> QED BY <3>1 DEF Beat
  <2> SUFFICES /\ \A l \in Seconds : "COMPLETED" \in {lease'[l], jobStatus'[l]} => Executed(l)
               /\ \A b \in beats' : b.status = "COMPLETED" => Executed(b.lease)
    BY <2>0
  <2>1. CASE UNCHANGED <<lease, jobStatus, beats>>
    BY <2>1 DEF SaidIsExecuted
  <2>2. ASSUME NEW c \in Callers, Reports(c)
        PROVE  /\ \A l \in Seconds : "COMPLETED" \in {lease'[l], jobStatus'[l]} => Executed(l)
               /\ \A b \in beats' : b.status = "COMPLETED" => Executed(b.lease)
    <3>1. work[c].execution \in Seconds
      BY <2>2 DEF Reports, Accept, ReportCompleted, ReportFailed, IInv, LocalsOK
    <3>2. PICK s \in {"RUNNING", "COMPLETED", "FAILED"} :
            Beats(c, work[c].execution, s) /\ (s = "COMPLETED" => pc[c] = "finished")
      BY <2>2 DEF Reports, Accept, ReportCompleted, ReportFailed
    <3>3. s = "COMPLETED" => Executed(work[c].execution)
      BY <3>2 DEF Stored
    <3> QED BY <3>1, <3>2, <3>3, BeatsSayWhatIsExecuted
  <2>3. ASSUME NEW b \in beats, LateBeat(b)
        PROVE  /\ \A l \in Seconds : "COMPLETED" \in {lease'[l], jobStatus'[l]} => Executed(l)
               /\ \A d \in beats' : d.status = "COMPLETED" => Executed(d.lease)
    BY <2>3 DEF LateBeat, HeartbeatLease, SaidIsExecuted, IInv, LeasesOK
  <2>4. ASSUME NEW c \in Runners, NEW l \in Seconds, NextLease(c, l)
        PROVE  /\ \A k \in Seconds : "COMPLETED" \in {lease'[k], jobStatus'[k]} => Executed(k)
               /\ \A b \in beats' : b.status = "COMPLETED" => Executed(b.lease)
    BY <2>4 DEF NextLease, Assigned, SaidIsExecuted, IInv, LeasesOK
  <2>5. CASE UserCreatesJob
    BY <2>5 DEF UserCreatesJob, CreateJob, SaidIsExecuted, IInv, LeasesOK
  <2> QED BY <2>1, <2>2, <2>3, <2>4, <2>5, StoresFrame
<1>3. SaidIsExecuted'
  BY <1>0, <1>2 DEF SaidIsExecuted
<1> QED BY <1>1, <1>3

\* A lease or a job that is shown as completed has its manifest stored.
THEOREM CompletionIsExecution == Spec => []CompletedWasExecuted
<1>1. Init => CInv
  BY DEF Init, ControlPlaneInit, CInv, SaidIsExecuted, Stored
<1>2. CInv => CompletedWasExecuted
  BY DEF CInv, SaidIsExecuted, CompletedWasExecuted, Executed
<1> QED BY <1>1, <1>2, InitTyped, NextTyped, NextExecuted, PTL DEF Spec

-----------------------------------------------------------------------------
(* Leases that are handed out at most once. *)

\* The handler executes the lease: from its acceptance to its final heartbeat.
RunningOn(c, l) == pc[c] \in Running /\ work[c].kind # "start" /\ work[c].execution = l

\* Nobody has ever been at work on the lease.
Untouched(l) ==
  /\ lease[l] \in {"none", "PENDING"}
  /\ \A b \in beats : b.lease # l
  /\ \A c \in Callers : ~RunningOn(c, l)

\* The handler is the only one that executes the lease, which has not ended
\* nor will by a heartbeat that is late.
Alone(c, l) ==
  /\ lease[l] \notin Ended
  /\ \A b \in beats : b.lease = l => b.status \notin Ended
  /\ \A d \in Callers : RunningOn(d, l) => d = c

Exclusive(l) ==
  /\ grants[l] = 0 => Untouched(l)
  /\ grants[l] <= 1 => \A c \in Callers : RunningOn(c, l) => Alone(c, l)

GInv == \A l \in Seconds : Exclusive(l)

\* A handler comes to a lease by polling.
LEMMA RunFrame ==
  ASSUME IInv, [Next]_vars, NEW l \in Seconds, NEW c \in Callers, RunningOn(c, l)'
  PROVE  \/ RunningOn(c, l)
         \/ c \in Runners /\ NextLease(c, l)
<1> USE DEF RunningOn, IInv, LocalsOK
<1>1. CASE UNCHANGED Own(c)
  BY <1>1 DEF Own
<1>2. CASE Step(c)
  <2>1. CASE Accept(c) \/ Scan(c) \/ ScanFails(c) \/ Start(c) \/ StartFails(c)
    <3>1. pc[c] \in Early /\ (work' = work \/ pc'[c] = "idle")
      BY <2>1 DEF Accept, Scan, ScanFails, Start, StartFails, Return, Goto, Early
    <3> QED BY <3>1 DEF Early, Running
  <2>2. CASE ~(Accept(c) \/ Scan(c) \/ ScanFails(c) \/ Start(c) \/ StartFails(c))
    <3> USE DEF Goto, Return, EndWriteback, Running
    <3>1. CASE ReportCompleted(c) \/ ReportFailed(c) \/ Approve(c) \/ Block(c)
      BY <3>1 DEF ReportCompleted, ReportFailed, Approve, Block
    <3>2. CASE ListActionPlan(c) \/ Skip(c) \/ Apply(c) \/ Mark(c)
      BY <3>2 DEF ListActionPlan, Skip, Apply, Mark
    <3>3. CASE Applied(c) \/ Collect(c) \/ Upload(c)
      BY <3>3 DEF Applied, Collect, Upload
    <3> QED BY <1>2, <2>2, <3>1, <3>2, <3>3 DEF Step
  <2> QED BY <2>1, <2>2
<1>3. CASE Begins(c)
  <2>1. ASSUME NEW e \in Seconds, c \in Runners, NextLease(c, e), ~NextLease(c, l)
        PROVE  RunningOn(c, l)
    <3>1. CASE UNCHANGED <<pc, work>>
      BY <3>1
    <3>2. CASE ~UNCHANGED <<pc, work>>
      <4>1. work'[c].execution = e
        BY <2>1, <3>2 DEF NextLease
      <4> QED BY <2>1, <4>1
    <3> QED BY <3>1, <3>2
  <2>2. ASSUME NEW e \in Seconds, \/ \E r \in Requests : Batch(c, e, r)
                                  \/ \E f \in Files, o \in Operations : Action(c, e, f, o)
        PROVE  FALSE
    <3>1. pc'[c] \in {"approve", "list"}
      BY <2>2 DEF Batch, Action, Goto
    <3> QED BY <3>1 DEF Running
  <2>3. ASSUME NEW e \in Seconds, NEW r \in Requests, NEW b \in Batches, StartExecution(c, e, r, b)
        PROVE  FALSE
    BY <2>3 DEF StartExecution
  <2> QED BY <1>3, <2>1, <2>2, <2>3 DEF Begins
<1>4. CASE Crash
  BY <1>4 DEF Crash, Running
<1> QED BY <1>1, <1>2, <1>3, <1>4, LocalsFrame

\* Only polling counts.
LEMMA GrantFrame ==
  ASSUME IInv, [Next]_vars, NEW l \in Seconds
  PROVE  \/ grants'[l] = grants[l] /\ ~\E c \in Runners : NextLease(c, l)
         \/ /\ \E c \in Runners : NextLease(c, l)
            /\ grants'[l] \in {1, 2} /\ (grants'[l] = 1 => grants[l] = 0)
<1>1. grants \in [Seconds -> 0 .. 2]
  BY DEF IInv, ResultsOK
<1>2. ASSUME NEW c \in Runners, NEW k \in Seconds, NextLease(c, k)
      PROVE  grants' = [grants EXCEPT ![k] = IF grants[k] < 2 THEN grants[k] + 1 ELSE 2]
  BY <1>2 DEF NextLease
<1>3. CASE \E c \in Runners : NextLease(c, l)
  BY <1>1, <1>2, <1>3
<1>4. CASE ~\E c \in Runners : NextLease(c, l)
  <2>1. \/ UNCHANGED grants
        \/ \E k \in Seconds : /\ k # l
                              /\ grants' = [grants EXCEPT ![k] = IF grants[k] < 2 THEN grants[k] + 1 ELSE 2]
    BY <1>2, <1>4, StoresFrame
  <2> QED BY <1>1, <1>4, <2>1
<1> QED BY <1>3, <1>4

\* Who changes a lease, or sends heartbeats about it.
LEMMA LeaseFrame ==
  ASSUME IInv, [Next]_vars, NEW l \in Seconds
  PROVE  \/ lease'[l] = lease[l] /\ \A b \in beats' : b.lease = l => b \in beats
         \/ \E c \in Callers : Reports(c) /\ RunningOn(c, l)
         \/ \E b \in beats : b.lease = l /\ lease'[l] = b.status /\ beats' \subseteq beats
         \/ \E c \in Runners : NextLease(c, l)
         \/ /\ lease'[l] = "PENDING" /\ beats' = beats
            /\ created'[l] # created[l]
<1> USE DEF IInv, LeasesOK
<1>1. CASE UNCHANGED <<lease, jobStatus, beats>>
  BY <1>1
<1>2. ASSUME NEW c \in Callers, Reports(c), ~RunningOn(c, l)
      PROVE  lease'[l] = lease[l] /\ \A b \in beats' : b.lease = l => b \in beats
  <2>0. work[c].kind # "start"
    BY <1>2 DEF Reports, Accept, ReportCompleted, ReportFailed, LocalsOK
  <2>1. PICK s \in {"RUNNING", "COMPLETED", "FAILED"} :
          Beats(c, work[c].execution, s) /\ work[c].execution # l
    BY <1>2, <2>0 DEF Reports, Accept, ReportCompleted, ReportFailed, RunningOn, Running
  <2>2. CASE HeartbeatLease(work[c].execution, s) /\ UNCHANGED beats
    BY <2>1, <2>2 DEF HeartbeatLease
  <2>3. CASE /\ UNCHANGED <<lease, jobStatus>>
             /\ beats' \in {beats, beats \cup {[lease |-> work[c].execution, status |-> s]}}
    BY <2>1, <2>3
  <2> QED BY <2>1, <2>2, <2>3 DEF Beats
<1>3. ASSUME NEW b \in beats, LateBeat(b)
      PROVE  \/ lease'[l] = lease[l] /\ \A d \in beats' : d.lease = l => d \in beats
             \/ b.lease = l /\ lease'[l] = b.status /\ beats' \subseteq beats
  BY <1>3 DEF LateBeat, HeartbeatLease
<1>4. ASSUME NEW c \in Runners, NEW k \in Seconds, NextLease(c, k), k # l
      PROVE  lease'[l] = lease[l] /\ beats' = beats
  BY <1>4 DEF NextLease, Assigned
<1>5. CASE UserCreatesJob
  <2>1. PICK r \in Requests : CreateJob(r) /\ beats' = beats
    BY <1>5 DEF UserCreatesJob
  <2>2. created[clock] \in Seq(Requests) /\ clock \in Seconds
    BY DEF PlatformOK
  <2>3. Append(created[clock], r) # created[clock]
    <3>1. Len(Append(created[clock], r)) # Len(created[clock])
      BY <2>2
    <3> QED BY <3>1
  <2>4. /\ created' = [created EXCEPT ![clock] = Append(created[clock], r)]
        /\ lease' = [lease EXCEPT ![clock] = "PENDING"]
    BY <2>1 DEF CreateJob
  <2>5. CASE l = clock
    <3>1. created'[l] = Append(created[clock], r) /\ lease'[l] = "PENDING"
      BY <2>4, <2>5
    <3> QED BY <2>1, <2>3, <2>5, <3>1
  <2>6. CASE l # clock
    <3>1. lease'[l] = lease[l]
      BY <2>4, <2>6
    <3> QED BY <2>1, <3>1
  <2> QED BY <2>5, <2>6
<1> QED BY <1>1, <1>2, <1>3, <1>4, <1>5, StoresFrame

\* Being handed out for the first time.
LEMMA FirstGrant ==
  ASSUME IInv, [Next]_vars, NEW l \in Seconds, Untouched(l), NEW c \in Runners, NextLease(c, l),
         NEW d \in Callers, RunningOn(d, l)'
  PROVE  Alone(d, l)'
<1>1. \A k \in Callers : RunningOn(k, l)' => k = c
  <2> SUFFICES ASSUME NEW k \in Callers, RunningOn(k, l)', k # c PROVE FALSE
    OBVIOUS
  <2>1. pc'[k] = pc[k] /\ work'[k] = work[k]
    BY DEF NextLease, Goto, IInv, LocalsOK, Callers
  <2> QED BY <2>1 DEF RunningOn, Untouched
<1>2. lease'[l] \notin Ended /\ UNCHANGED beats
  BY DEF NextLease, IsNext, Assigned, Ended, IInv, LeasesOK
<1> QED BY <1>1, <1>2 DEF Alone, Untouched

\* A handler stays alone with its lease.
LEMMA AloneStands ==
  ASSUME IInv, [Next]_vars, NEW l \in Seconds, NEW d \in Callers, RunningOn(d, l), Alone(d, l),
         RunningOn(d, l)', ~\E c \in Runners : NextLease(c, l)
  PROVE  Alone(d, l)'
<1>1. \A c \in Callers : RunningOn(c, l)' => c = d
  <2> SUFFICES ASSUME NEW c \in Callers, RunningOn(c, l)' PROVE c = d
    OBVIOUS
  <2>1. RunningOn(c, l)
    BY RunFrame
  <2> QED BY <2>1 DEF Alone
<1>2. /\ lease'[l] \notin Ended
      /\ \A b \in beats' : b.lease = l => b.status \notin Ended
  <2> USE DEF Alone
  <2>1. CASE lease'[l] = lease[l] /\ \A b \in beats' : b.lease = l => b \in beats
    BY <2>1
  <2>2. ASSUME NEW c \in Callers, Reports(c), RunningOn(c, l)
        PROVE  /\ lease'[l] \notin Ended
               /\ \A b \in beats' : b.lease = l => b.status \notin Ended
    <3>1. c = d
      BY <2>2
    <3>2. ~ReportCompleted(d) /\ ~ReportFailed(d)
      BY DEF ReportCompleted, ReportFailed, Return, Goto, RunningOn, Running, IInv, LocalsOK
    <3>3. Beats(d, l, "RUNNING")
      BY <2>2, <3>1, <3>2 DEF Reports, Accept, RunningOn
    <3>4. CASE HeartbeatLease(l, "RUNNING") /\ UNCHANGED beats
      BY <3>4 DEF HeartbeatLease, Ended, IInv, LeasesOK
    <3>5. CASE /\ UNCHANGED <<lease, jobStatus>>
               /\ beats' \in {beats, beats \cup {[lease |-> l, status |-> "RUNNING"]}}
      BY <3>5 DEF Ended
    <3> QED BY <3>3, <3>4, <3>5 DEF Beats
  <2>3. ASSUME NEW b \in beats, b.lease = l, lease'[l] = b.status, beats' \subseteq beats
        PROVE  /\ lease'[l] \notin Ended
               /\ \A k \in beats' : k.lease = l => k.status \notin Ended
    BY <2>3
  <2>4. CASE lease'[l] = "PENDING" /\ beats' = beats
    BY <2>4 DEF Ended
  <2> QED BY <2>1, <2>2, <2>3, <2>4, LeaseFrame
<1> QED BY <1>1, <1>2 DEF Alone

\* Nobody comes to a lease but by its being handed out.
LEMMA UntouchedStands ==
  ASSUME IInv, [Next]_vars, NEW l \in Seconds, Untouched(l), ~\E c \in Runners : NextLease(c, l)
  PROVE  Untouched(l)'
<1> USE DEF Untouched
<1>1. ASSUME NEW c \in Callers, RunningOn(c, l)' PROVE FALSE
  BY <1>1, RunFrame
<1>2. lease'[l] \in {"none", "PENDING"} /\ \A b \in beats' : b.lease # l
  BY LeaseFrame
<1> QED BY <1>1, <1>2

LEMMA NextExclusive == IInv /\ GInv /\ [Next]_vars => GInv'
<1> SUFFICES ASSUME IInv, GInv, [Next]_vars, NEW l \in Seconds PROVE Exclusive(l)'
  BY DEF GInv
<1>1. Exclusive(l)
  BY DEF GInv
<1>2. CASE \E c \in Runners : NextLease(c, l)
  <2>1. grants'[l] # 0 /\ (grants'[l] <= 1 => grants[l] = 0)
    BY <1>2, GrantFrame
  <2>2. ASSUME grants[l] = 0, NEW d \in Callers, RunningOn(d, l)' PROVE Alone(d, l)'
    BY <1>1, <1>2, <2>2, FirstGrant DEF Exclusive
  <2> QED BY <2>1, <2>2 DEF Exclusive
<1>3. CASE ~\E c \in Runners : NextLease(c, l)
  <2>1. grants'[l] = grants[l]
    BY <1>3, GrantFrame
  <2>2. grants[l] = 0 => Untouched(l)'
    BY <1>1, <1>3, UntouchedStands DEF Exclusive
  <2>3. ASSUME grants[l] <= 1, NEW d \in Callers, RunningOn(d, l)' PROVE Alone(d, l)'
    <3>1. RunningOn(d, l)
      BY <1>3, <2>3, RunFrame
    <3>2. Alone(d, l)
      BY <1>1, <2>3, <3>1 DEF Exclusive
    <3> QED BY <1>3, <2>3, <3>1, <3>2, AloneStands
  <2> QED BY <2>1, <2>2, <2>3 DEF Exclusive
<1> QED BY <1>2, <1>3

LEMMA InitExclusive == Init => GInv
BY DEF Init, ControlPlaneInit, GInv, Exclusive, Untouched, RunningOn, Running

\* A lease that ended stays as it ended.
THEOREM EndsAreFinal == Spec => EndIsFinal
<1>1. ASSUME IInv, GInv, [Next]_vars, NEW l \in Seconds, lease[l] \in Ended, grants[l] <= 1,
             created'[l] = created[l], \A b \in beats : b.lease # l
      PROVE  lease'[l] = lease[l]
  <2>1. ASSUME NEW c \in Callers, RunningOn(c, l) PROVE FALSE
    BY <1>1, <2>1 DEF GInv, Exclusive, Alone
  <2>2. ASSUME NEW c \in Runners, NextLease(c, l) PROVE FALSE
    BY <1>1, <2>2 DEF NextLease, IsNext, Ended
  <2> QED BY <1>1, <2>1, <2>2, LeaseFrame
<1>2. IInv /\ GInv /\ [Next]_vars =>
        [\A l \in Seconds :
           /\ lease[l] \in Ended
           /\ grants[l] <= 1
           /\ created'[l] = created[l]
           /\ \A b \in beats : b.lease # l
           => lease'[l] = lease[l]]_vars
  BY <1>1
<1> QED BY <1>2, InitTyped, InitExclusive, NextTyped, NextExclusive, PTL DEF Spec, EndIsFinal

-----------------------------------------------------------------------------
(* Executions that are started at most once, by a lease or by a user. *)

Turns(e) == grants[e] + Len(started[e])

\* The handler is going to store the execution's manifest.
PlansFor(c, e) == pc[c] \in Early /\ work[c].execution = e

Blank(e) == \A f \in Files : rows[e][f].status = "none"

\* As long as the manifest can be stored only once, nothing is there before.
Planless(e) ==
  /\ Turns(e) = 0 => Blank(e) /\ \A c \in Callers : ~PlansFor(c, e)
  /\ Turns(e) <= 1 =>
       \A c \in Callers :
         PlansFor(c, e) => Blank(e) /\ \A d \in Callers : PlansFor(d, e) => d = c

KInv == \A e \in Seconds : Planless(e)

\* An execution is started.
Starts(c, e) ==
  \/ c \in Runners /\ NextLease(c, e)
  \/ \E r \in Requests, b \in Batches : StartExecution(c, e, r, b)

LEMMA PlansFrame ==
  ASSUME IInv, [Next]_vars, NEW e \in Seconds, NEW c \in Callers, PlansFor(c, e)'
  PROVE  (PlansFor(c, e) /\ ~Start(c)) \/ Starts(c, e)
<1> USE DEF PlansFor, IInv, LocalsOK
<1>1. CASE UNCHANGED Own(c)
  <2>1. Start(c) => pc'[c] # pc[c]
    BY DEF Start, Return, Goto
  <2> QED BY <1>1, <2>1 DEF Own
<1>2. CASE Step(c)
  <2>1. CASE Accept(c) \/ Scan(c)
    BY <2>1 DEF Accept, Scan, Start, Early
  <2>2. CASE ~(Accept(c) \/ Scan(c))
    <3> USE DEF Goto, Return, EndWriteback, Early
    <3>1. CASE ScanFails(c) \/ Start(c) \/ StartFails(c)
      BY <3>1 DEF ScanFails, Start, StartFails
    <3>2. CASE ReportCompleted(c) \/ ReportFailed(c) \/ Approve(c) \/ Block(c)
      BY <3>2 DEF ReportCompleted, ReportFailed, Approve, Block
    <3>3. CASE ListActionPlan(c) \/ Skip(c) \/ Apply(c) \/ Mark(c)
      BY <3>3 DEF ListActionPlan, Skip, Apply, Mark
    <3>4. CASE Applied(c) \/ Collect(c) \/ Upload(c)
      BY <3>4 DEF Applied, Collect, Upload
    <3> QED BY <1>2, <2>2, <3>1, <3>2, <3>3, <3>4 DEF Step
  <2> QED BY <2>1, <2>2
<1>3. CASE Begins(c)
  <2>1. ASSUME NEW k \in Seconds, c \in Runners, NextLease(c, k), ~NextLease(c, e)
        PROVE  PlansFor(c, e) /\ ~Start(c)
    <3>1. CASE UNCHANGED <<pc, work>>
      BY <2>1, <3>1 DEF NextLease, Early
    <3>2. CASE ~UNCHANGED <<pc, work>>
      <4>1. work'[c].execution = k
        BY <2>1, <3>2 DEF NextLease
      <4> QED BY <2>1, <4>1
    <3> QED BY <3>1, <3>2
  <2>2. ASSUME NEW k \in Seconds, \/ \E r \in Requests : Batch(c, k, r)
                                  \/ \E f \in Files, o \in Operations : Action(c, k, f, o)
        PROVE  FALSE
    <3>1. pc'[c] \in {"approve", "list"}
      BY <2>2 DEF Batch, Action, Goto
    <3> QED BY <3>1 DEF Early
  <2>3. ASSUME NEW k \in Seconds, NEW r \in Requests, NEW b \in Batches, StartExecution(c, k, r, b)
        PROVE  k = e
    BY <2>3 DEF StartExecution
  <2> QED BY <1>3, <2>1, <2>2, <2>3 DEF Begins, Starts
<1>4. CASE Crash
  BY <1>4 DEF Crash, Early
<1> QED BY <1>1, <1>2, <1>3, <1>4, LocalsFrame

\* A start is counted, and is of one handler.
LEMMA TurnFrame ==
  ASSUME IInv, [Next]_vars, NEW e \in Seconds
  PROVE  /\ Turns(e) \in Nat /\ Turns(e)' \in Nat
         /\ \/ Turns(e)' = Turns(e) /\ ~\E c \in Callers : Starts(c, e)
            \/ /\ Turns(e)' # 0 /\ (Turns(e)' <= 1 => Turns(e) = 0)
               /\ UNCHANGED rows
               /\ \E c \in Callers : Starts(c, e) /\ \A d \in Callers \ {c} : UNCHANGED Own(d)
<1> USE DEF Turns, IInv, LocalsOK, ResultsOK
<1>0. /\ grants[e] \in 0 .. 2 /\ Len(started[e]) \in Nat
      /\ grants'[e] \in 0 .. 2 /\ Len(started'[e]) \in Nat
  <2>1. ResultsOK'
    BY NextTyped
  <2> QED BY <2>1
<1>1. CASE \E c \in Runners : NextLease(c, e)
  <2>1. PICK c \in Runners : NextLease(c, e)
    BY <1>1
  <2>2. /\ grants'[e] \in {1, 2} /\ (grants'[e] = 1 => grants[e] = 0) /\ started' = started
        /\ UNCHANGED rows
    BY <1>1, <2>1, GrantFrame DEF NextLease, store
  <2>3. \A d \in Callers \ {c} : UNCHANGED Own(d)
    BY <2>1 DEF NextLease, Goto, Own, Callers
  <2> QED BY <1>0, <2>1, <2>2, <2>3 DEF Starts, Callers
<1>2. CASE \E c \in Callers, r \in Requests, b \in Batches : StartExecution(c, e, r, b)
  <2>1. PICK c \in Callers, r \in Requests, b \in Batches : StartExecution(c, e, r, b)
    BY <1>2
  <2>2. /\ grants' = grants /\ started' = [started EXCEPT ![e] = Append(started[e], r)]
        /\ UNCHANGED rows
    BY <2>1 DEF StartExecution, store
  <2>3. Len(started'[e]) = Len(started[e]) + 1
    <3>1. started[e] \in Seq(Requests) /\ started'[e] = Append(started[e], r)
      BY <2>2
    <3> QED BY <3>1
  <2>4. \A d \in Callers \ {c} : UNCHANGED Own(d)
    BY <2>1 DEF StartExecution, Goto, Own
  <2>5. /\ Turns(e)' = Turns(e) + 1 /\ Turns(e) \in Nat
    BY <1>0, <2>2, <2>3
  <2>6. Starts(c, e)
    BY <2>1 DEF Starts
  <2> HIDE DEF Turns
  <2> QED BY <2>2, <2>4, <2>5, <2>6
<1>3. CASE ~\E c \in Callers : Starts(c, e)
  <2>1. grants'[e] = grants[e]
    BY <1>3, GrantFrame DEF Starts, Callers
  <2>2. started'[e] = started[e]
    <3>1. ASSUME NEW c \in Users, NEW k \in Seconds, NEW r \in Requests, NEW b \in Batches,
                 StartExecution(c, k, r, b)
          PROVE  started'[e] = started[e]
      <4>1. k # e
        BY <1>3, <3>1 DEF Starts, Callers
      <4> QED BY <3>1, <4>1 DEF StartExecution
    <3> QED BY <3>1, StoresFrame
  <2> QED BY <1>0, <1>3, <2>1, <2>2
<1> QED BY <1>1, <1>2, <1>3 DEF Starts

\* The first to store a manifest was going to.
LEMMA BlankFrame ==
  ASSUME IInv, [Next]_vars, NEW e \in Seconds, Blank(e)
  PROVE  \/ Blank(e)'
         \/ \E c \in Callers : Start(c) /\ PlansFor(c, e)
<1> USE DEF Blank
<1>1. CASE UNCHANGED rows
  BY <1>1
<1>2. ASSUME NEW c \in Callers, Start(c), ~PlansFor(c, e) PROVE Blank(e)'
  <2>1. work[c].execution # e /\ rows' = [rows EXCEPT ![work[c].execution] = Planned(c)]
    BY <1>2 DEF Start, PlansFor, Early
  <2> QED BY <2>1 DEF IInv, ResultsOK
<1>3. ASSUME NEW c \in Callers, Mark(c) PROVE Blank(e)'
  <2>1. CASE UNCHANGED rows
    BY <2>1
  <2>2. CASE ~UNCHANGED rows
    <3>1. rows[work[c].execution][Head(todo[c]).file].status # "none"
      BY <1>3, <2>2 DEF Mark
    <3>2. Head(todo[c]).file \in Files /\ \A f \in Files :
            rows'[e][f].status = IF e = work[c].execution /\ f = Head(todo[c]).file
                                 THEN pc[c] ELSE rows[e][f].status
      BY <1>3, <2>2, MarkFacts
    <3> QED BY <3>1, <3>2
  <2> QED BY <2>1, <2>2
<1> QED BY <1>1, <1>2, <1>3, StoresFrame

LEMMA NextPlanless == IInv /\ KInv /\ [Next]_vars => KInv'
<1> SUFFICES ASSUME IInv, KInv, [Next]_vars, NEW e \in Seconds PROVE Planless(e)'
  BY DEF KInv
<1>0. Planless(e)
  BY DEF KInv
<1>1. CASE Turns(e)' = Turns(e) /\ ~\E c \in Callers : Starts(c, e)
  <2>1. \A c \in Callers : PlansFor(c, e)' => PlansFor(c, e) /\ ~Start(c)
    BY <1>1, PlansFrame
  <2>3. ASSUME Turns(e) <= 1, NEW c \in Callers, PlansFor(c, e)'
        PROVE  Blank(e)' /\ \A d \in Callers : PlansFor(d, e)' => d = c
    <3>1. PlansFor(c, e) /\ ~Start(c)
      BY <2>1, <2>3
    <3>2. Blank(e) /\ \A d \in Callers : PlansFor(d, e) => d = c
      BY <1>0, <2>3, <3>1 DEF Planless
    <3>3. Blank(e)'
      BY <3>1, <3>2, BlankFrame
    <3> QED BY <2>1, <3>2, <3>3
  <2>4. ASSUME Turns(e) = 0 PROVE Blank(e)' /\ \A c \in Callers : ~PlansFor(c, e)'
    <3>1. Blank(e)'
      BY <1>0, <2>4, BlankFrame DEF Planless
    <3> QED BY <1>0, <2>1, <2>4, <3>1 DEF Planless
  <2> QED BY <1>1, <2>3, <2>4 DEF Planless
<1>2. CASE /\ Turns(e)' # 0 /\ (Turns(e)' <= 1 => Turns(e) = 0)
           /\ UNCHANGED rows
           /\ \E c \in Callers : Starts(c, e) /\ \A d \in Callers \ {c} : UNCHANGED Own(d)
  <2>1. PICK c \in Callers : Starts(c, e) /\ \A d \in Callers \ {c} : UNCHANGED Own(d)
    BY <1>2
  <2> SUFFICES ASSUME Turns(e)' <= 1, NEW d \in Callers, PlansFor(d, e)'
               PROVE  Blank(e)' /\ \A k \in Callers : PlansFor(k, e)' => k = d
    BY <1>2 DEF Planless
  <2>2. Blank(e) /\ \A k \in Callers : ~PlansFor(k, e)
    BY <1>0, <1>2 DEF Planless
  <2>3. \A k \in Callers : PlansFor(k, e)' => k = c
    BY <2>1, <2>2 DEF Own, PlansFor
  <2>4. Blank(e)'
    BY <1>2, <2>2 DEF Blank
  <2> QED BY <2>3, <2>4
<1> QED BY <1>1, <1>2, TurnFrame

LEMMA InitPlanless == Init => KInv
BY DEF Init, KInv, Planless, PlansFor, Early, Blank, NoRows

\* What was applied is not planned anew: the manifest is stored once for a lease
\* that was handed out once, or for an execution that one user started.
THEOREM PlansAreKept == Spec => PlanKept
<1>1. ASSUME IInv, KInv, [Next]_vars, NEW e \in Seconds, NEW f \in Files,
             rows[e][f].status \in {"completed", "failed"}, grants[e] + Len(started[e]) <= 1
      PROVE  rows'[e][f].status \in {"completed", "failed"}
  <2>1. CASE UNCHANGED rows
    BY <1>1, <2>1
  <2>2. ASSUME NEW c \in Callers, Mark(c) PROVE rows'[e][f].status \in {"completed", "failed"}
    BY <1>1, <2>2, MarkFacts
  <2>3. ASSUME NEW c \in Callers, Start(c) PROVE rows'[e][f].status \in {"completed", "failed"}
    <3>1. CASE work[c].execution = e
      <4>1. PlansFor(c, e)
        BY <2>3, <3>1 DEF Start, PlansFor, Early
      <4>2. Blank(e)
        BY <1>1, <4>1 DEF KInv, Planless, Turns
      <4> QED BY <1>1, <4>2 DEF Blank
    <3>2. CASE work[c].execution # e
      <4>1. rows'[e] = rows[e]
        BY <2>3, <3>2 DEF Start, IInv, ResultsOK
      <4> QED BY <1>1, <4>1
    <3> QED BY <3>1, <3>2
  <2> QED BY <1>1, <2>1, <2>2, <2>3, StoresFrame
<1>2. IInv /\ KInv /\ [Next]_vars =>
        [\A e \in Seconds, f \in Files :
           /\ rows[e][f].status \in {"completed", "failed"}
           /\ grants[e] + Len(started[e]) <= 1
           => rows'[e][f].status \in {"completed", "failed"}]_vars
  BY <1>1
<1> QED BY <1>2, InitTyped, InitPlanless, NextTyped, NextPlanless, PTL DEF Spec, PlanKept

-----------------------------------------------------------------------------
(* The abstract write-back. *)

\* A plan is there only with its manifest, and the items of a lease or of a batch
\* come from one.
Itemized(c) == todo[c] # <<>> /\ work[c].kind # "action" => Executed(work[c].execution)

PInv ==
  /\ \A l \in Seconds : plan[l] # <<>> => Executed(l)
  /\ \A c \in Callers : Itemized(c)

LEMMA StepItemized ==
  ASSUME IInv, PInv, [Next]_vars, NEW c \in Callers, Faithful(c), Step(c)
  PROVE  Itemized(c)'
<1> USE DEF IInv, LocalsOK
<1>0. /\ pc[c] # "idle" => work[c].execution \in Seconds
      /\ \A l \in Seconds : Executed(l) => Executed(l)'
      /\ Itemized(c)
  BY ExecutedStands DEF PInv
<1>1. CASE EndWriteback(c) \/ Return(c)
  <2>1. todo'[c] = <<>>
    BY <1>1 DEF EndWriteback, Return
  <2> QED BY <2>1 DEF Itemized
<1>2. CASE \/ Accept(c) \/ Scan(c) \/ ScanFails(c) \/ Approve(c)
           \/ ((Start(c) \/ StartFails(c)) /\ ~Return(c))
           \/ Apply(c) \/ (Applied(c) /\ ~Return(c)) \/ (Collect(c) /\ ~EndWriteback(c))
  <2>1. UNCHANGED <<work, todo>> /\ pc[c] # "idle"
    BY <1>2 DEF Accept, Scan, ScanFails, Start, StartFails, Approve, Apply, Applied, Collect
  <2> QED BY <1>0, <2>1 DEF Itemized
<1>3. CASE ReportCompleted(c)
  <2>1. /\ todo' = todo /\ work'[c].execution = work[c].execution /\ pc[c] # "idle"
        /\ pc[c] \in Running
    BY <1>3 DEF ReportCompleted, Running
  <2>2. work[c].kind # "action"
    BY <2>1 DEF Faithful
  <2> QED BY <1>0, <2>1, <2>2 DEF Itemized
<1>4. CASE ListActionPlan(c) /\ ~EndWriteback(c)
  <2>1. /\ pc[c] # "idle" /\ work' = work /\ todo'[c] = Items(work[c].execution)
    BY <1>4 DEF ListActionPlan
  <2>2. Items(work[c].execution) # <<>> => plan[work[c].execution] # <<>>
    BY PlanFacts DEF Items
  <2>3. Items(work[c].execution) # <<>> => Executed(work[c].execution)
    BY <1>0, <2>1, <2>2 DEF PInv
  <2> QED BY <1>0, <2>1, <2>3 DEF Itemized
<1>5. CASE Skip(c) \/ Mark(c)
  <2>1. pc[c] # "idle" /\ work' = work /\ todo[c] # <<>>
    BY <1>5 DEF Skip, Mark
  <2> QED BY <1>0, <2>1 DEF Itemized
<1> QED BY <1>1, <1>2, <1>3, <1>4, <1>5 DEF Step, Block, Upload, ReportFailed

LEMMA NextItemized == IInv /\ BInv /\ PInv /\ [Next]_vars => PInv'
<1> SUFFICES ASSUME IInv, BInv, PInv, [Next]_vars PROVE PInv'
  OBVIOUS
<1>1. ASSUME NEW l \in Seconds, plan'[l] # <<>> PROVE Executed(l)'
  <2>1. CASE UNCHANGED <<manifests, plan>>
    BY <1>1, <2>1 DEF PInv, Executed
  <2>2. ASSUME NEW c \in Callers, Start(c) PROVE Executed(l)'
    BY <1>1, <2>2 DEF Start, PInv, Executed, IInv, ResultsOK
  <2> QED BY <2>1, <2>2, StoresFrame
<1>2. ASSUME NEW c \in Callers PROVE Itemized(c)'
  <2>1. CASE UNCHANGED Own(c)
    <3>1. CASE pc[c] = "idle"
      BY <2>1, <3>1 DEF Own, Itemized, IInv, LocalsOK
    <3>2. CASE pc[c] # "idle"
      <4>1. work[c].execution \in Seconds /\ Itemized(c)
        BY <3>2 DEF IInv, LocalsOK, PInv
      <4> QED BY <2>1, <4>1, ExecutedStands DEF Own, Itemized
    <3> QED BY <3>1, <3>2
  <2>2. CASE Step(c)
    BY <2>2, StepItemized DEF BInv
  <2>3. CASE Begins(c)
    <3>1. todo' = todo \/ work'[c].kind = "action"
      <4>1. ASSUME NEW e \in Seconds, NEW f \in Files, NEW o \in Operations, Action(c, e, f, o)
            PROVE  work'[c].kind = "action"
        BY <4>1 DEF Action, IInv, LocalsOK
      <4> QED BY <2>3, <4>1 DEF Begins, NextLease, Batch, StartExecution
    <3>2. todo[c] = <<>>
      BY <2>3 DEF Begins, NextLease, Batch, StartExecution, Action, IInv, LocalsOK
    <3> QED BY <3>1, <3>2 DEF Itemized
  <2>4. CASE Crash
    BY <2>4 DEF Crash, Itemized
  <2> QED BY <2>1, <2>2, <2>3, <2>4, LocalsFrame
<1> QED BY <1>1, <1>2 DEF PInv

\* What is seen from outside.
Seen == <<WantedExecutions, ApprovedOperations, manifests, written, ShownFiles, EndedLeases>>

LEMMA SeenFrame ==
  /\ UNCHANGED <<created, started>> => UNCHANGED WantedExecutions
  /\ UNCHANGED approvals => UNCHANGED ApprovedOperations
  /\ UNCHANGED evidence => UNCHANGED ShownFiles
  /\ UNCHANGED <<lease, jobStatus>> => UNCHANGED EndedLeases
BY DEF WantedExecutions, Wanted, ApprovedOperations, ShownFiles, EndedLeases

\* A write of the connector.
LEMMA ApplySeen ==
  ASSUME IInv, AInv, BInv, PInv, [Next]_vars, NEW c \in Callers, Apply(c)
  PROVE  UNCHANGED Seen \/ \E w \in Governed!Writes : Governed!Write(w)
<1> DEFINE w == [execution |-> work[c].execution, file |-> Head(todo[c]).file,
                 covers |-> work[c].covers, batch |-> work[c].kind # "action"]
<1>0. UNCHANGED <<WantedExecutions, ApprovedOperations, manifests, ShownFiles, EndedLeases>>
  BY SeenFrame DEF Apply, platform, store
<1>1. CASE UNCHANGED written
  BY <1>0, <1>1 DEF Seen
<1>2. CASE written' = written \cup {w}
  <2>1. /\ work[c].execution \in Seconds /\ todo[c] \in Seq(Item) /\ todo[c] # <<>>
        /\ work[c].covers \subseteq Operations
    BY DEF Apply, IInv, LocalsOK, Work
  <2>2. w \in Governed!Writes
    BY <2>1, HeadFacts DEF Governed!Writes
  <2>3. Approved(work[c].execution, work[c].covers)
    BY DEF Apply, CanApplyWriteback, AInv, Authorized
  <2>4. \E o \in w.covers : <<w.execution, o>> \in ApprovedOperations
    <3>1. PICK i \in DOMAIN approvals :
            /\ approvals[i].status = "APPROVED" /\ approvals[i].execution = w.execution
            /\ {approvals[i].operation, approvals[i].actionType} \cap w.covers # {}
      BY <2>3 DEF Approved
    <3>2. PICK o \in w.covers : o \in Covered(approvals[i])
      BY <2>1, <3>1 DEF Covered
    <3>3. <<w.execution, o>> \in {approvals[i].execution} \X Covered(approvals[i])
      BY <3>1, <3>2
    <3> QED BY <3>1, <3>3 DEF ApprovedOperations
  <2>5. work[c].kind # "action" => Wanted(work[c].execution)
    BY <2>1, HeadFacts DEF Apply, CanApplyWriteback, Faithful, BInv
  <2>6. work[c].kind # "action" => Executed(work[c].execution)
    BY <2>1 DEF PInv, Itemized
  <2>7. w.batch => w.execution \in WantedExecutions \cap manifests
    BY <2>1, <2>5, <2>6 DEF WantedExecutions, Executed
  <2> HIDE DEF w
  <2>8. Governed!Write(w)
    BY <1>0, <1>2, <2>4, <2>7 DEF Governed!Write
  <2> QED BY <2>2, <2>8
<1> QED BY <1>1, <1>2 DEF Apply, Writes

LEMMA RowsSeen ==
  ASSUME IInv, NEW c \in Callers, Start(c) \/ Mark(c)
  PROVE  UNCHANGED Seen \/ \E e \in Seconds : Governed!MakePlan(e)
<1>1. UNCHANGED <<WantedExecutions, ApprovedOperations, written, ShownFiles, EndedLeases>>
  BY SeenFrame DEF Start, Mark, platform, history
<1>2. CASE Start(c)
  <2>1. work[c].execution \in Seconds /\ manifests' = manifests \cup {work[c].execution}
    BY <1>2 DEF Start, IInv, LocalsOK
  <2> QED BY <1>1, <2>1 DEF Governed!MakePlan
<1>3. CASE Mark(c)
  BY <1>1, <1>3 DEF Mark, Seen
<1> QED BY <1>2, <1>3

LEMMA UploadSeen ==
  ASSUME IInv, EInv, NEW c \in Callers, Upload(c)
  PROVE  UNCHANGED Seen \/ \E e \in Seconds, files \in SUBSET Files : Governed!Show(e, files)
<1> DEFINE e == work[c].execution
           files == {f \in Files : snap[c][f] = "completed"}
<1>0. UNCHANGED <<WantedExecutions, ApprovedOperations, manifests, written, EndedLeases>>
  BY SeenFrame DEF Upload, platform, store, history
<1>1. CASE UNCHANGED evidence
  BY <1>0, <1>1, SeenFrame DEF Seen
<1>2. CASE evidence' = [evidence EXCEPT ![e] = snap[c]]
  <2>1. e \in Seconds /\ evidence \in [Seconds -> [Files -> RowStatus]]
    BY DEF Upload, IInv, LocalsOK, ResultsOK
  <2>2. ShownFiles' = [ShownFiles EXCEPT ![e] = files]
    BY <1>2, <2>1 DEF ShownFiles
  <2>3. \A f \in files : \E w \in written : w.execution = e /\ w.file = f
    BY DEF EInv, Truthful, Wrote
  <2>4. files \in SUBSET Files
    OBVIOUS
  <2> HIDE DEF e, files
  <2>5. Governed!Show(e, files)
    BY <1>0, <2>2, <2>3 DEF Governed!Show
  <2> QED BY <2>1, <2>4, <2>5
<1> QED BY <1>1, <1>2 DEF Upload

LEMMA HeartbeatSeen ==
  ASSUME IInv, NEW l \in Seconds, NEW s, HeartbeatLease(l, s), s = "COMPLETED" => Executed(l),
         UNCHANGED <<created, started, approvals, manifests, written, evidence>>
  PROVE  Governed!End(l) \/ Governed!Reopen(l)
<1>0. UNCHANGED <<WantedExecutions, ApprovedOperations, manifests, written, ShownFiles>>
  BY SeenFrame
<1>1. /\ lease' = [lease EXCEPT ![l] = s] /\ jobStatus' = [jobStatus EXCEPT ![l] = s]
      /\ lease \in [Seconds -> LeaseStatus] /\ jobStatus \in [Seconds -> JobStatus]
  BY DEF HeartbeatLease, IInv, LeasesOK
<1>2. CASE s = "COMPLETED"
  <2>1. EndedLeases' = EndedLeases \cup {l}
    BY <1>1, <1>2 DEF EndedLeases
  <2>2. l \in manifests
    BY <1>2 DEF Executed
  <2> QED BY <1>0, <2>1, <2>2 DEF Governed!End
<1>3. CASE s # "COMPLETED"
  <2>1. EndedLeases' = EndedLeases \ {l}
    BY <1>1, <1>3 DEF EndedLeases
  <2> QED BY <1>0, <2>1 DEF Governed!Reopen
<1> QED BY <1>2, <1>3

LEMMA ReportsSeen ==
  ASSUME IInv, CInv, NEW c \in Callers, Reports(c)
  PROVE  UNCHANGED Seen \/ \E e \in Seconds : Governed!End(e) \/ Governed!Reopen(e)
<1>1. /\ work[c].execution \in Seconds
      /\ UNCHANGED <<created, started, approvals, manifests, written, evidence>>
  BY DEF Reports, Accept, ReportCompleted, ReportFailed, IInv, LocalsOK, store, history
<1>2. PICK s \in {"RUNNING", "COMPLETED", "FAILED"} :
        Beats(c, work[c].execution, s) /\ (s = "COMPLETED" => pc[c] = "finished")
  BY DEF Reports, Accept, ReportCompleted, ReportFailed
<1>3. CASE UNCHANGED <<lease, jobStatus>>
  BY <1>1, <1>3, SeenFrame DEF Seen
<1>4. CASE HeartbeatLease(work[c].execution, s)
  <2>1. s = "COMPLETED" => Executed(work[c].execution)
    BY <1>2 DEF CInv, Stored
  <2> QED BY <1>1, <1>4, <2>1, HeartbeatSeen
<1> QED BY <1>2, <1>3, <1>4 DEF Beats

LEMMA LateBeatSeen ==
  ASSUME IInv, CInv, NEW b \in beats, LateBeat(b)
  PROVE  \E e \in Seconds : Governed!End(e) \/ Governed!Reopen(e)
<1>1. b.lease \in Seconds /\ (b.status = "COMPLETED" => Executed(b.lease))
  BY DEF CInv, SaidIsExecuted, IInv, LeasesOK, Beat
<1>2. /\ HeartbeatLease(b.lease, b.status)
      /\ UNCHANGED <<created, started, approvals, manifests, written, evidence>>
  BY DEF LateBeat, store, history
<1> QED BY <1>1, <1>2, HeartbeatSeen

LEMMA JobSeen ==
  ASSUME IInv, [Next]_vars, UserCreatesJob
  PROVE  \E e \in Seconds : Governed!Ask(e)
<1>0. UNCHANGED <<ApprovedOperations, manifests, written, ShownFiles>>
  BY SeenFrame DEF UserCreatesJob, store, history
<1>1. PICK r \in Requests : CreateJob(r)
  BY DEF UserCreatesJob
<1>2. /\ clock \in Seconds /\ lease \in [Seconds -> LeaseStatus] /\ jobStatus \in [Seconds -> JobStatus]
      /\ created \in [Seconds -> Seq(Requests)]
  BY DEF IInv, PlatformOK, LeasesOK
<1>3. EndedLeases' = EndedLeases \ {clock}
  BY <1>1, <1>2 DEF CreateJob, EndedLeases
<1>4. \A l \in Seconds \ {clock} : Wanted(l)' <=> Wanted(l)
  <2>1. (\A l \in Seconds \ {clock} : created'[l] = created[l]) /\ started' = started
    BY <1>1, <1>2 DEF CreateJob, UserCreatesJob, history
  <2> QED BY <2>1 DEF Wanted
<1>5. \A l \in Seconds : Wanted(l) => Wanted(l)'
  BY WantedStands
<1>6. WantedExecutions' \in {WantedExecutions, WantedExecutions \cup {clock}}
  <2>1. /\ WantedExecutions \subseteq WantedExecutions'
        /\ WantedExecutions' \subseteq WantedExecutions \cup {clock}
        /\ WantedExecutions \subseteq Seconds
    BY <1>2, <1>4, <1>5 DEF WantedExecutions
  <2> QED BY <2>1
<1>7. Governed!Ask(clock)
  BY <1>0, <1>3, <1>6 DEF Governed!Ask
<1> QED BY <1>2, <1>7

LEMMA StartSeen ==
  ASSUME IInv, [Next]_vars, NEW c \in Users, NEW e \in Seconds, NEW r \in Requests,
         NEW b \in Batches, StartExecution(c, e, r, b)
  PROVE  Governed!Ask(e)
<1>1. UNCHANGED <<ApprovedOperations, manifests, written, ShownFiles, EndedLeases>>
  BY SeenFrame DEF StartExecution, platform, store
<1>2. \A l \in Seconds \ {e} : Wanted(l)' <=> Wanted(l)
  <2>1. \A l \in Seconds \ {e} : started'[l] = started[l] /\ created'[l] = created[l]
    BY DEF StartExecution, platform, IInv, ResultsOK
  <2> QED BY <2>1 DEF Wanted
<1>3. \A l \in Seconds : Wanted(l) => Wanted(l)'
  BY WantedStands
<1>4. WantedExecutions' \in {WantedExecutions, WantedExecutions \cup {e}}
  <2>1. /\ WantedExecutions \subseteq WantedExecutions'
        /\ WantedExecutions' \subseteq WantedExecutions \cup {e}
    BY <1>2, <1>3 DEF WantedExecutions
  <2> QED BY <2>1
<1> QED BY <1>1, <1>4 DEF Governed!Ask

\* An update adds nothing but the approval that it changes.
LEMMA UpdatedIsOldOrNew ==
  ASSUME approvals \in Seq(Approval), NEW i \in DOMAIN approvals, NEW s
  PROVE  \A j \in DOMAIN Updated(i, s) :
           \/ \E k \in DOMAIN approvals : Updated(i, s)[j] = approvals[k]
           \/ /\ Updated(i, s)[j].execution = approvals[i].execution
              /\ Covered(Updated(i, s)[j]) = Covered(approvals[i])
<1> DEFINE last == [approvals[i] EXCEPT !.status = s]
<1>1. approvals[i] \in Approval /\ DOMAIN approvals = 1 .. Len(approvals) /\ Len(approvals) \in Nat
  OBVIOUS
<1>2. last.execution = approvals[i].execution /\ Covered(last) = Covered(approvals[i])
  BY <1>1 DEF Approval, Covered
<1> HIDE DEF last
<1>3. Updated(i, s) = [j \in DOMAIN approvals |->
                         IF j < i THEN approvals[j]
                         ELSE IF j < Len(approvals) THEN approvals[j + 1] ELSE last]
  BY DEF Updated, last
<1> SUFFICES ASSUME NEW j \in DOMAIN approvals
    PROVE  \/ \E k \in DOMAIN approvals : Updated(i, s)[j] = approvals[k]
           \/ Updated(i, s)[j] = last
  BY <1>2, <1>3
<1>4. j < Len(approvals) => j + 1 \in DOMAIN approvals
  BY <1>1
<1> QED BY <1>3, <1>4

\* Approvals only become more, one at a time.
LEMMA ApprovalsSeen ==
  ASSUME IInv, [Next]_vars, UserApproves
  PROVE  UNCHANGED Seen \/ \E e \in Seconds, ops \in SUBSET Operations : Governed!Decide(e, ops)
<1>0. UNCHANGED <<WantedExecutions, manifests, written, ShownFiles, EndedLeases>>
  BY SeenFrame DEF UserApproves, store, history
<1>1. \A p : p \in ApprovedOperations <=>
        \E i \in DOMAIN approvals : /\ approvals[i].status = "APPROVED"
                                    /\ p \in {approvals[i].execution} \X Covered(approvals[i])
  BY DEF ApprovedOperations
<1>2. \A p : p \in ApprovedOperations' <=>
        \E i \in DOMAIN approvals' : /\ approvals'[i].status = "APPROVED"
                                     /\ p \in {approvals'[i].execution} \X Covered(approvals'[i])
  BY DEF ApprovedOperations, Covered
<1>3. approvals \in Seq(Approval)
  BY DEF IInv, PlatformOK
<1>4. ASSUME NEW i \in DOMAIN approvals
      PROVE  approvals[i].execution \in Seconds /\ Covered(approvals[i]) \in SUBSET Operations
  <2>1. approvals[i] \in Approval
    BY <1>3
  <2> QED BY <2>1 DEF Approval, Covered
\* What was approved stays approved, so a change can only add to it.
<1>5. ApprovedOperations \subseteq ApprovedOperations'
  <2> SUFFICES ASSUME NEW p \in ApprovedOperations PROVE p \in ApprovedOperations'
    OBVIOUS
  <2>1. PICK i \in DOMAIN approvals : /\ approvals[i].status = "APPROVED"
                                      /\ p \in {approvals[i].execution} \X Covered(approvals[i])
    BY <1>1
  <2>2. PICK e, o : p = <<e, o>> /\ e = approvals[i].execution /\ o \in Covered(approvals[i])
    BY <2>1
  <2>3. Approved(e, {o})
    BY <2>1, <2>2 DEF Approved, Covered
  <2>4. Approved(e, {o})'
    BY <2>3, ApprovalStands
  <2>5. o \in Operations
    BY <2>2 DEF Covered
  <2>6. PICK j \in DOMAIN approvals' : /\ approvals'[j].status = "APPROVED"
                                       /\ approvals'[j].execution = e
                                       /\ {approvals'[j].operation, approvals'[j].actionType} \cap {o} # {}
    BY <2>4 DEF Approved
  <2>7. o \in Covered(approvals'[j])
    BY <2>5, <2>6 DEF Covered
  <2> QED BY <1>2, <2>2, <2>6, <2>7
<1>6. ASSUME NEW e \in Seconds, NEW ops \in SUBSET Operations,
             \A j \in DOMAIN approvals' : approvals'[j].status = "APPROVED" =>
               \/ \E k \in DOMAIN approvals : approvals'[j] = approvals[k]
               \/ approvals'[j].execution = e /\ Covered(approvals'[j]) = ops
      PROVE  UNCHANGED Seen \/ Governed!Decide(e, ops)
  <2> DEFINE new == {<<e, o>> : o \in ops}
  <2>1. \A p \in {e} \X ops : p \in new
    OBVIOUS
  <2>2. ApprovedOperations' \subseteq ApprovedOperations \cup new
    BY <1>1, <1>2, <1>6, <2>1
  <2>3. CASE \E j \in DOMAIN approvals' :
               approvals'[j].status = "APPROVED" /\ approvals'[j].execution = e /\ Covered(approvals'[j]) = ops
    <3>1. new \subseteq ApprovedOperations'
      BY <1>2, <2>3
    <3>2. ApprovedOperations' = ApprovedOperations \cup new
      BY <1>5, <2>2, <3>1
    <3> QED BY <1>0, <3>2 DEF Governed!Decide
  <2>4. CASE ~\E j \in DOMAIN approvals' :
               approvals'[j].status = "APPROVED" /\ approvals'[j].execution = e /\ Covered(approvals'[j]) = ops
    <3>1. ApprovedOperations' \subseteq ApprovedOperations
      BY <1>1, <1>2, <1>6, <2>4
    <3> QED BY <1>0, <1>5, <3>1 DEF Seen
  <2> QED BY <2>3, <2>4
<1>7. ASSUME NEW e \in Seconds, NEW r \in ApprovalRequests, CreateApproval(e, r)
      PROVE  UNCHANGED Seen \/ Governed!Decide(e, {})
  <2> DEFINE new == [execution |-> e, operation |-> r.operation,
                     actionType |-> r.actionType, status |-> "PENDING"]
  <2>1. approvals' = Append(approvals, new) /\ new.status # "APPROVED"
    BY <1>7 DEF CreateApproval
  <2> HIDE DEF new
  <2>2. \A j \in DOMAIN approvals' : approvals'[j] = new \/ \E k \in DOMAIN approvals : approvals'[j] = approvals[k]
    BY <1>3, <2>1
  <2> QED BY <1>6, <2>1, <2>2
<1>8. ASSUME NEW i \in DOMAIN approvals, ApprovalFallsDue(i)
      PROVE  UNCHANGED Seen \/ Governed!Decide(approvals[i].execution, Covered(approvals[i]))
  <2>1. \A j \in DOMAIN approvals' : approvals'[j].status = "APPROVED" =>
          j \in DOMAIN approvals /\ approvals'[j] = approvals[j]
    BY <1>3, <1>8 DEF ApprovalFallsDue, Approval
  <2> QED BY <1>4, <1>6, <2>1
<1>9. ASSUME NEW i \in DOMAIN approvals, NEW s, approvals' = Updated(i, s)
      PROVE  UNCHANGED Seen \/ Governed!Decide(approvals[i].execution, Covered(approvals[i]))
  <2>1. \A j \in DOMAIN approvals' :
          \/ \E k \in DOMAIN approvals : approvals'[j] = approvals[k]
          \/ /\ approvals'[j].execution = approvals[i].execution
             /\ Covered(approvals'[j]) = Covered(approvals[i])
    BY <1>3, <1>9, UpdatedIsOldOrNew
  <2> QED BY <1>4, <1>6, <2>1
<1> QED BY <1>4, <1>7, <1>8, <1>9 DEF UserApproves, GetApproval, DecideApproval

LEMMA NextSeen ==
  IInv /\ AInv /\ BInv /\ EInv /\ CInv /\ PInv /\ [Next]_vars => [Governed!Next]_(Governed!vars)
<1> SUFFICES ASSUME IInv, AInv, BInv, EInv, CInv, PInv, [Next]_vars
    PROVE  Governed!Next \/ UNCHANGED Seen
  BY DEF Seen, Governed!vars
<1>1. CASE UNCHANGED vars
  BY <1>1, SeenFrame DEF vars, platform, store, history, Seen
<1>2. ASSUME NEW c \in Callers, Step(c) PROVE Governed!Next \/ UNCHANGED Seen
  <2>1. CASE Apply(c)
    BY <2>1, ApplySeen DEF Governed!Next
  <2>2. CASE Start(c) \/ Mark(c)
    BY <2>2, RowsSeen DEF Governed!Next
  <2>3. CASE Upload(c)
    BY <2>3, UploadSeen DEF Governed!Next
  <2>4. CASE Reports(c)
    BY <2>4, ReportsSeen DEF Governed!Next
  <2>5. CASE \/ Scan(c) \/ ScanFails(c) \/ StartFails(c) \/ Approve(c) \/ Block(c)
             \/ ListActionPlan(c) \/ Skip(c) \/ Applied(c) \/ Collect(c)
    <3>1. UNCHANGED <<created, started, approvals, manifests, written, evidence, lease, jobStatus>>
      BY <2>5 DEF Scan, ScanFails, StartFails, Approve, Block, ListActionPlan, Skip, Applied,
                  Collect, platform, store, history
    <3> QED BY <3>1, SeenFrame DEF Seen
  <2> QED BY <1>2, <2>1, <2>2, <2>3, <2>4, <2>5 DEF Step, Reports
<1>3. ASSUME NEW c \in Runners, NEW l \in Seconds, NextLease(c, l) PROVE UNCHANGED Seen
  <2>1. UNCHANGED <<created, started, approvals, manifests, written, evidence, jobStatus>>
    BY <1>3 DEF NextLease, store
  <2>2. \A k \in Seconds : lease'[k] = "COMPLETED" <=> lease[k] = "COMPLETED"
    BY <1>3 DEF NextLease, IsNext, Assigned, IInv, LeasesOK
  <2>3. UNCHANGED EndedLeases
    BY <2>1, <2>2 DEF EndedLeases
  <2> QED BY <2>1, <2>3, SeenFrame DEF Seen
<1>4. ASSUME NEW c \in Users, NEW e \in Seconds,
             \/ \E r \in Requests : Batch(c, e, r)
             \/ \E f \in Files, o \in Operations : Action(c, e, f, o)
      PROVE  UNCHANGED Seen
  BY <1>4, SeenFrame DEF Batch, Action, platform, store, history, Seen
<1>10. ASSUME NEW c \in Users, NEW e \in Seconds, NEW r \in Requests, NEW b \in Batches,
              StartExecution(c, e, r, b)
       PROVE  Governed!Next
  BY <1>10, StartSeen DEF Governed!Next
<1>5. ASSUME NEW c \in Callers, HangUp(c) PROVE UNCHANGED Seen
  BY <1>5, SeenFrame DEF HangUp, platform, store, history, Seen
<1>6. ASSUME NEW b \in beats, LateBeat(b) PROVE Governed!Next
  BY <1>6, LateBeatSeen DEF Governed!Next
<1>7. CASE Crash \/ Tick
  BY <1>7, SeenFrame DEF Crash, Tick, platform, store, history, Seen
<1>8. CASE UserCreatesJob
  BY <1>8, JobSeen DEF Governed!Next
<1>9. CASE UserApproves
  BY <1>9, ApprovalsSeen DEF Governed!Next
<1> QED BY <1>1, <1>2, <1>3, <1>4, <1>5, <1>6, <1>7, <1>8, <1>9, <1>10 DEF Next

\* The handlers, stores and calls implement the abstract write-back.
THEOREM WritebackIsGoverned == Spec => WritebackGoverned
<1>1. Init => AInv /\ BInv /\ EInv /\ CInv
  <2> USE DEF Init, ControlPlaneInit
  <2>1. Init => AInv
    BY DEF AInv, WritesAreApproved, Authorized
  <2>2. Init => BInv
    BY DEF BInv, BatchWasWanted, RowsWanted, NoRows, Faithful, Running, Early
  <2>3. Init => EInv
    BY DEF EInv, EvidenceIsTrue, RowsTrue, Truthful, NoRows, NoResults
  <2>4. Init => CInv
    BY DEF CInv, SaidIsExecuted, Stored
  <2> QED BY <2>1, <2>2, <2>3, <2>4
<1>2. Init => PInv
  BY DEF Init, PInv, Itemized
<1>3. Init => Governed!Init
  <2> SUFFICES ASSUME Init PROVE Governed!Init
    OBVIOUS
  <2> USE DEF Init, ControlPlaneInit
  <2>1. WantedExecutions = {} /\ ApprovedOperations = {} /\ written = {} /\ EndedLeases = {}
    BY DEF WantedExecutions, Wanted, ApprovedOperations, EndedLeases
  <2>2. manifests = {}
    OBVIOUS
  <2>3. ShownFiles = [l \in Seconds |-> {}]
    BY DEF ShownFiles, NoResults
  <2> QED BY <2>1, <2>2, <2>3 DEF Governed!Init
<1> QED BY <1>1, <1>2, <1>3, NextSeen, InitTyped, NextTyped, NextAuthorized, NextFaithful,
           NextTruthful, NextExecuted, NextItemized, PTL DEF Spec, WritebackGoverned, Governed!Spec

-----------------------------------------------------------------------------
(* Why a handler ends: every step brings it closer to its end. *)

Applying == {"apply", "completed", "failed"}

\* Where it stands in Step, with the items of a write-back as one phase.  The
\* automatic write-back uploads its results, and its lease uploads them again.
Phase(c) ==
  CASE pc[c] = "accepted" -> 12
    [] pc[c] = "scan"     -> 11
    [] pc[c] = "start"    -> 10
    [] pc[c] \in {"finished", "aborted"} -> 9
    [] pc[c] = "approve"  -> 8
    [] pc[c] = "list"     -> 7
    [] pc[c] \in Applying -> 6
    [] pc[c] = "collect" /\ work[c].kind = "auto" -> 5
    [] pc[c] = "upload" /\ work[c].kind = "auto"  -> 4
    [] pc[c] = "collect" /\ work[c].kind # "auto" -> 3
    [] pc[c] = "upload" /\ work[c].kind # "auto"  -> 2
    [] OTHER              -> 1

\* The items that are left, and whether the first of them is still to be written.
ItemsLeft(c) == IF pc[c] \in Applying THEN Len(todo[c]) ELSE 0
WritesLeft(c) == IF pc[c] = "apply" THEN 1 ELSE 0

Rank(c) ==
  [i \in 1 .. 3 |-> CASE i = 1 -> Phase(c) [] i = 2 -> ItemsLeft(c) [] i = 3 -> WritesLeft(c)]

Ranks == [1 .. 3 -> Nat]

\* The lexicographic order of ranks.
Below == {p \in Nat \X Nat : p[1] < p[2]}
Closer == LexProductOrdering(Below, Nat, 3)

RankOK == \A c \in Callers : Rank(c) \in Ranks

LEMMA RankType ==
  ASSUME IInv, NEW c \in Callers
  PROVE  Phase(c) \in Nat /\ ItemsLeft(c) \in Nat /\ WritesLeft(c) \in Nat /\ Rank(c) \in Ranks
<1>1. Phase(c) \in Nat
  BY DEF Phase
<1>2. ItemsLeft(c) \in Nat
  BY DEF ItemsLeft, IInv, LocalsOK
<1>3. WritesLeft(c) \in Nat
  BY DEF WritesLeft
<1>4. \A i \in 1 .. 3 : Rank(c)[i] \in Nat
  BY <1>1, <1>2, <1>3 DEF Rank
<1>5. Rank(c) \in Ranks
  BY <1>4 DEF Rank, Ranks
<1> QED BY <1>1, <1>2, <1>3, <1>5

LEMMA CloserWellFounded == IsWellFoundedOn(Closer, Ranks)
<1>1. IsWellFoundedOn(Below, Nat)
  BY NatLessThanWellFounded DEF OpToRel, Below
<1>2. 3 \in Nat
  OBVIOUS
<1> QED BY <1>1, <1>2, WFLexProductOrdering DEF Closer, Ranks

\* A rank that is lower at one place, and the same before it, is closer.
LEMMA CloserAt ==
  ASSUME NEW r \in Ranks, NEW s \in Ranks, NEW j \in 1 .. 3,
         \A i \in 1 .. 3 : i < j => r[i] = s[i], r[j] < s[j]
  PROVE  <<r, s>> \in Closer
<1>1. <<r[j], s[j]>> \in Below
  BY DEF Below, Ranks
<1>2. \A i \in 1 .. (j - 1) : r[i] = s[i]
  OBVIOUS
<1>3. <<r, s>> \in Ranks \X Ranks
  OBVIOUS
<1> QED BY <1>1, <1>2, <1>3 DEF Closer, LexProductOrdering, Ranks

\* The same, part by part.
Drops(c) ==
  \/ Phase(c)' < Phase(c)
  \/ /\ Phase(c)' = Phase(c)
     /\ \/ ItemsLeft(c)' < ItemsLeft(c)
        \/ ItemsLeft(c)' = ItemsLeft(c) /\ WritesLeft(c)' < WritesLeft(c)

LEMMA DropsCloser ==
  ASSUME NEW c \in Callers, Rank(c) \in Ranks, Rank(c)' \in Ranks, Drops(c)
  PROVE  <<Rank(c)', Rank(c)>> \in Closer
<1>1. Rank(c)[1] = Phase(c) /\ Rank(c)[2] = ItemsLeft(c) /\ Rank(c)[3] = WritesLeft(c)
  BY DEF Rank
<1>2. Rank(c)'[1] = Phase(c)' /\ Rank(c)'[2] = ItemsLeft(c)' /\ Rank(c)'[3] = WritesLeft(c)'
  BY DEF Rank
<1> PICK r \in Ranks, s \in Ranks : r = Rank(c)' /\ s = Rank(c)
  OBVIOUS
<1>3. \/ r[1] < s[1]
      \/ r[1] = s[1] /\ r[2] < s[2]
      \/ r[1] = s[1] /\ r[2] = s[2] /\ r[3] < s[3]
  BY <1>1, <1>2 DEF Drops
<1>4. \E j \in 1 .. 3 : (\A i \in 1 .. 3 : i < j => r[i] = s[i]) /\ r[j] < s[j]
  BY <1>3
<1> QED BY <1>4, CloserAt

LEMMA StepDrops ==
  ASSUME IInv, NEW c \in Callers, Step(c)
  PROVE  Drops(c)
<1>1. /\ pc \in [Callers -> Labels] /\ work \in [Callers -> Work]
      /\ todo \in [Callers -> Seq(Item)]
      /\ pc[c] \in {"completed", "failed"} => todo[c] # <<>>
  BY DEF IInv, LocalsOK
<1>2. work[c] \in Work /\ todo[c] \in Seq(Item)
  BY <1>1
<1>3. todo[c] # <<>> => Len(Tail(todo[c])) < Len(todo[c])
  BY <1>2
<1> USE <1>1 DEF Goto
<1>4. ASSUME pc[c] \in {"approve", "list", "collect", "upload"}, EndWriteback(c),
             pc[c] \in {"collect", "upload"} => work[c].kind # "auto" \/ pc'[c] = "collect"
      PROVE  Drops(c)
  <2>1. \/ pc'[c] = "idle"
        \/ pc'[c] = "collect" /\ work'[c].kind = "run" /\ work[c].kind = "auto"
    BY <1>2, <1>4 DEF EndWriteback, Return, Work
  <2> QED BY <1>4, <2>1 DEF Drops, Phase, Applying
<1>5. CASE Accept(c) \/ Scan(c) \/ ScanFails(c) \/ Start(c) \/ StartFails(c)
  BY <1>5 DEF Accept, Scan, ScanFails, Start, StartFails, Return, Drops, Phase, Applying
<1>6. CASE ReportCompleted(c) \/ ReportFailed(c) \/ Approve(c)
  BY <1>6 DEF ReportCompleted, ReportFailed, Return, Approve, Drops, Phase, Applying
<1>7. CASE Block(c) \/ ListActionPlan(c) \/ Collect(c) \/ Upload(c)
  <2>1. CASE EndWriteback(c)
    <3>1. pc[c] \in {"approve", "list", "collect", "upload"}
      BY <1>7 DEF Block, ListActionPlan, Collect, Upload
    <3>2. work[c].kind = "auto" => pc'[c] = "collect"
      BY <2>1 DEF EndWriteback
    <3> QED BY <1>4, <2>1, <3>1, <3>2
  <2>2. CASE ~EndWriteback(c)
    <3>1. \/ pc[c] = "list" /\ pc'[c] = "apply"
          \/ pc[c] = "collect" /\ pc'[c] = "upload" /\ work' = work
      BY <1>7, <2>2 DEF Block, ListActionPlan, Collect, Upload
    <3> QED BY <3>1 DEF Drops, Phase, Applying
  <2> QED BY <2>1, <2>2
<1>8. CASE Skip(c) \/ Mark(c)
  <2>1. /\ pc[c] \in Applying /\ pc'[c] \in Applying
        /\ todo[c] # <<>> /\ todo'[c] = Tail(todo[c])
    BY <1>8 DEF Skip, Mark, Applying
  <2>2. ItemsLeft(c)' < ItemsLeft(c)
    BY <1>3, <2>1 DEF ItemsLeft
  <2>3. Phase(c)' = Phase(c)
    BY <2>1 DEF Phase, Applying
  <2> QED BY <2>2, <2>3 DEF Drops
<1>9. CASE Apply(c)
  <2>1. pc[c] = "apply" /\ pc'[c] \in {"completed", "failed"} /\ todo' = todo
    BY <1>9 DEF Apply
  <2>2. Phase(c)' = Phase(c) /\ ItemsLeft(c)' = ItemsLeft(c)
    BY <2>1 DEF Phase, ItemsLeft, Applying
  <2>3. WritesLeft(c)' < WritesLeft(c)
    BY <2>1 DEF WritesLeft
  <2> QED BY <2>2, <2>3 DEF Drops
<1>10. CASE Applied(c)
  <2>1. pc[c] = "apply" /\ pc'[c] \in {"idle", "collect"}
    BY <1>10 DEF Applied, Return
  <2> QED BY <2>1 DEF Drops, Phase, Applying
<1> QED BY <1>5, <1>6, <1>7, <1>8, <1>9, <1>10 DEF Step

\* A step that is not a handler's own takes it up, ends it in a crash, or leaves
\* its rank alone.
LEMMA OthersDrop ==
  ASSUME IInv, [Next]_vars, NEW c \in Callers, ~Step(c), pc[c] # "idle"
  PROVE  Rank(c)' = Rank(c) \/ Drops(c)
<1>1. ASSUME UNCHANGED Own(c) PROVE Rank(c)' = Rank(c)
  <2>1. Phase(c)' = Phase(c)
    BY <1>1 DEF Own, Phase
  <2>2. ItemsLeft(c)' = ItemsLeft(c) /\ WritesLeft(c)' = WritesLeft(c)
    BY <1>1 DEF Own, ItemsLeft, WritesLeft
  <2> QED BY <2>1, <2>2 DEF Rank
<1>2. ~Begins(c)
  BY DEF Begins, NextLease, Batch, StartExecution, Action
<1>3. CASE Crash
  <2>1. pc'[c] = "idle"
    BY <1>3 DEF Crash
  <2>2. Phase(c)' = 1
    BY <2>1 DEF Phase, Applying
  <2>3. Phase(c) > 1
    BY DEF Phase, IInv, LocalsOK, Labels, Applying
  <2> QED BY <2>2, <2>3 DEF Drops
<1> QED BY <1>1, <1>2, <1>3, LocalsFrame

\* A handler ends: in a well-founded order, each of its steps lowers its rank,
\* whatever is lost, late or refused, and until it is idle no step of anyone
\* raises it.  So a lease, a batch and an action take finitely many steps.
THEOREM HandlersWearOff ==
  /\ IsWellFoundedOn(Closer, Ranks)
  /\ Spec => [][\A c \in Callers :
                  /\ pc[c] # "idle"
                  /\ Step(c) \/ Rank(c)' # Rank(c)
                  => <<Rank(c)', Rank(c)>> \in Closer]_vars
<1>1. IInv => RankOK
  <2> SUFFICES ASSUME IInv PROVE RankOK
    OBVIOUS
  <2>1. ASSUME NEW c \in Callers PROVE Rank(c) \in Ranks
    BY RankType
  <2> QED BY <2>1, Zenon DEF RankOK
<1>2. IInv /\ RankOK /\ RankOK' /\ [Next]_vars =>
        [\A c \in Callers :
           /\ pc[c] # "idle"
           /\ Step(c) \/ Rank(c)' # Rank(c)
           => <<Rank(c)', Rank(c)>> \in Closer]_vars
  <2> SUFFICES ASSUME IInv, RankOK, RankOK', [Next]_vars, NEW c \in Callers, pc[c] # "idle",
                      Step(c) \/ Rank(c)' # Rank(c)
               PROVE  <<Rank(c)', Rank(c)>> \in Closer
    OBVIOUS
  <2>1. Drops(c)
    BY StepDrops, OthersDrop
  <2>2. Rank(c) \in Ranks /\ Rank(c)' \in Ranks
    BY DEF RankOK
  <2> QED BY <2>1, <2>2, DropsCloser
<1>3. Spec => [](IInv /\ RankOK)
  BY <1>1, InitTyped, NextTyped, PTL DEF Spec
<1>4. Spec => [][\A c \in Callers :
                   /\ pc[c] # "idle"
                   /\ Step(c) \/ Rank(c)' # Rank(c)
                   => <<Rank(c)', Rank(c)>> \in Closer]_vars
  BY <1>2, <1>3, PTL DEF Spec
<1> QED BY <1>4, CloserWellFounded

=============================================================================
