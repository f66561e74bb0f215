--------------------------- MODULE AsyncScanProofs ---------------------------
(***************************************************************************)
(* Proofs of the properties of AsyncScan, for every account, page size,    *)
(* limit and number of workers and requests, and every set of requests and *)
(* faults that a theorem does not exclude.                                 *)
(***************************************************************************)
EXTENDS ScanStop, FiniteSetTheorems, WellFoundedInduction, TLAPS

USE DEF Checkpoints, Statuses

-----------------------------------------------------------------------------
(* The inductive invariant behind TypeOK: places are inside the listing. *)

Placed(c) == c.seg >= 1 /\ (c.seg \in Segments => c.mark <= Len(Listing[c.seg]))

Looping == {"check", "heartbeat", "list", "persist", "read", "write", "record",
            "checkpoint", "advance"}

Paged == {"persist", "read", "write", "record", "checkpoint"}

\* A worker in its loops is in a segment, and has listed a page of it that
\* starts at its marker.
WorkerPlaced(w) ==
  /\ Placed(at[w])
  /\ pc[w] \in Looping => at[w].seg \in Segments
  /\ pc[w] = "advance" => at[w].seg < Len(Listing)
  /\ pc[w] \in Paged => /\ at[w].mark <= page[w].to
                        /\ page[w].to <= Len(Listing[at[w].seg])
                        /\ page[w].next \in {0, page[w].to}

AllPlaced ==
  /\ Placed(job.cp)
  /\ Placed(jobFile.cp)
  /\ \A p \in Procs : Placed(copy[p].cp)
  /\ \A w \in Workers : WorkerPlaced(w)

\* What a step does to the job, the save after it does to the file.
FileFollows ==
  /\ job' \in Jobs => jobFile' \in Jobs
  /\ Placed(job'.cp) => Placed(jobFile'.cp)

IInv == TypeOK /\ AllPlaced

-----------------------------------------------------------------------------
(* Facts about the constants and the operators. *)

\* The listing is a non-empty sequence of sequences of blobs.
LEMMA ListingFacts ==
  /\ Len(Listing) \in Nat \ {0}
  /\ Segments = 1 .. Len(Listing)
  /\ \A s \in Segments : /\ Listing[s] \in Seq(Nat)
                         /\ Len(Listing[s]) \in Nat
                         /\ DOMAIN Listing[s] = 1 .. Len(Listing[s])
                         /\ \A i \in 1 .. Len(Listing[s]) : Listing[s][i] \in Blobs
BY ScanAssumption DEF Segments, Blobs

\* The operators of the store map job records to job records, and only
\* Checkpointed touches the checkpoint.
LEMMA InitialJobs ==
  /\ NoJob \in Jobs /\ NoJob.cp = Start0
  /\ NewJob \in Jobs /\ NewJob.cp = Start0
  /\ GoneJob \in Jobs /\ GoneJob.cp = Start0
BY DEF Jobs, NoJob, NewJob, GoneJob, Start0

LEMMA KeepCheckpoint ==
  ASSUME NEW j \in Jobs
  PROVE  /\ Resumed(j) \in Jobs /\ Resumed(j).cp = j.cp
         /\ Unleased(j) \in Jobs /\ Unleased(j).cp = j.cp
         /\ WrittenBack(j) \in Jobs /\ WrittenBack(j).cp = j.cp
         /\ Reclaimed(j) \in Jobs /\ Reclaimed(j).cp = j.cp
<1>1. Resumed(j) \in Jobs /\ Resumed(j).cp = j.cp
  BY DEF Jobs, Resumed
<1>2. Unleased(j) \in Jobs /\ Unleased(j).cp = j.cp
  BY DEF Jobs, Unleased
<1>3. WrittenBack(j) \in Jobs /\ WrittenBack(j).cp = j.cp
  BY DEF Jobs, WrittenBack, Unleased
<1>4. Reclaimed(j) \in Jobs /\ Reclaimed(j).cp = j.cp
  BY DEF Jobs, Reclaimed, Transition, Unleased
<1> QED BY <1>1, <1>2, <1>3, <1>4

LEMMA TransitionKeeps ==
  ASSUME NEW j \in Jobs, NEW s \in Statuses
  PROVE  Transition(j, s) \in Jobs /\ Transition(j, s).cp = j.cp
BY DEF Jobs, Transition

LEMMA LeasedKeeps ==
  ASSUME NEW j \in Jobs, NEW w \in Workers
  PROVE  Leased(j, w) \in Jobs /\ Leased(j, w).cp = j.cp
BY DEF Jobs, Leased

LEMMA NormalizedWrittenKeeps ==
  ASSUME NEW j \in Jobs, NEW n \in Nat
  PROVE  NormalizedWritten(j, n) \in Jobs /\ NormalizedWritten(j, n).cp = j.cp
BY DEF Jobs, NormalizedWritten

LEMMA CheckpointedSets ==
  ASSUME NEW j \in Jobs, NEW cp \in Checkpoints
  PROVE  Checkpointed(j, cp) \in Jobs /\ Checkpointed(j, cp).cp = cp
BY DEF Jobs, Checkpointed

\* What a page holds: it starts at the marker, stays inside the segment, and its
\* next marker is its end or empty; without a limit, the empty marker is the end.
LEMMA ListedPageFacts ==
  ASSUME NEW place \in [seg : Nat, mark : Nat], NEW scanned \in Nat,
         place.seg \in Segments, Placed(place)
  PROVE  LET listed == ListedPage(place, scanned)
         IN  /\ listed \in [to : Nat, next : Nat]
             /\ place.mark <= listed.to
             /\ listed.to <= Len(Listing[place.seg])
             /\ listed.next \in {0, listed.to}
             /\ Limit = 0 /\ listed.next = 0 => listed.to = Len(Listing[place.seg])
BY ListingFacts, ScanAssumption DEF ListedPage, Remaining, Placed

\* What a worker lists are blobs, finitely many.
LEMMA ItemFacts ==
  ASSUME IInv, NEW w \in Workers, pc[w] \in Paged
  PROVE  /\ Items(w) \subseteq Blobs
         /\ Unseen(w) \subseteq Items(w)
         /\ Cardinality(Unseen(w)) \in Nat
         /\ Appended(w) \in [Blobs -> Nat]
<1>1. Items(w) \subseteq Blobs
  BY ListingFacts DEF IInv, TypeOK, AllPlaced, WorkerPlaced, Items, Paged, Looping
<1>2. Unseen(w) \subseteq Items(w)
  BY DEF Unseen
<1>3. IsFiniteSet(Unseen(w))
  BY <1>1, <1>2, FS_Subset, ScanAssumption
<1>4. Appended(w) \in [Blobs -> Nat]
  BY DEF IInv, TypeOK, Appended
<1> QED BY <1>1, <1>2, <1>3, <1>4, FS_CardinalityType

\* The portal state keeps a subset of what it is given.
LEMMA KeptSubset == ASSUME NEW S PROVE Kept(S) \subseteq S
BY DEF Kept

-----------------------------------------------------------------------------
(* The invariant is inductive. *)

LEMMA InitIInv == Init => IInv
<1> SUFFICES ASSUME Init PROVE IInv
  OBVIOUS
<1> USE DEF Init
<1>1. job \in Jobs /\ NoJob \in Jobs /\ NoJob.cp = Start0
  BY InitialJobs
<1>2. TypeOK
  BY <1>1, ScanAssumption DEF TypeOK, Labels, NoRecords, NoPlace, NoObjs, NoPage
<1>3. AllPlaced
  BY <1>1, ListingFacts
     DEF AllPlaced, WorkerPlaced, Placed, NoPlace, Looping, Paged, Start0, Procs
<1> QED BY <1>2, <1>3 DEF IInv

\* A save, failed or not, leaves a file that is as good as the job.
LEMMA SavedFollows == IInv /\ Saved => FileFollows
BY InitialJobs, ListingFacts DEF IInv, TypeOK, AllPlaced, Saved, FileFollows, Placed, Start0

\* The second half of a request, or of a worker's Complete.
LEMMA WriteBackIInv ==
  ASSUME IInv, FileFollows, NEW p \in Procs, WriteBack(p)
  PROVE  IInv'
<1> USE DEF IInv, Procs, FileFollows
<1>1. job' \in Jobs /\ Placed(job'.cp)
  BY KeepCheckpoint DEF WriteBack, TypeOK, AllPlaced
<1>2. copy' \in [Procs -> Jobs] /\ (\A q \in Procs : Placed(copy'[q].cp))
  BY InitialJobs, ListingFacts DEF WriteBack, TypeOK, AllPlaced, Placed, Start0
<1>3. TypeOK'
  BY <1>1, <1>2 DEF WriteBack, TypeOK, Labels, Goto, results, locals
<1>4. \A v \in Workers : WorkerPlaced(v)'
  BY DEF WriteBack, TypeOK, AllPlaced, WorkerPlaced, Looping, Paged, Goto, results, locals
<1> QED BY <1>1, <1>2, <1>3, <1>4 DEF IInv, AllPlaced

\* Every step of a worker preserves the invariant.
LEMMA WorkerStepIInv ==
  ASSUME IInv, FileFollows, NEW w \in Workers, WorkerStep(w)
  PROVE  IInv'
<1> USE DEF IInv, Procs, FileFollows
<1>1. CASE WorkerGet(w)
  <2>1. job' \in Jobs /\ Placed(job'.cp)
    BY <1>1 DEF WorkerGet, TypeOK, AllPlaced
  <2>2. TypeOK'
    BY <1>1, <2>1 DEF WorkerGet, TypeOK, Labels, Goto, results, locals
  <2>3. \A p \in Procs : Placed(copy'[p].cp)
    BY <1>1 DEF WorkerGet, TypeOK, AllPlaced, results, locals
  <2>4. \A v \in Workers : WorkerPlaced(v)'
    BY <1>1 DEF WorkerGet, TypeOK, AllPlaced, WorkerPlaced, Looping, Paged, Goto, results, locals
  <2> QED BY <2>1, <2>2, <2>3, <2>4 DEF IInv, AllPlaced
<1>2. CASE WorkerResume(w)
  <2>1. job' \in Jobs /\ Placed(job'.cp)
    BY <1>2, KeepCheckpoint DEF WorkerResume, TypeOK, AllPlaced
  <2>2. TypeOK'
    BY <1>2, <2>1 DEF WorkerResume, TypeOK, Labels, Goto, results, locals
  <2>3. \A p \in Procs : Placed(copy'[p].cp)
    BY <1>2 DEF WorkerResume, TypeOK, AllPlaced, results, locals
  <2>4. \A v \in Workers : WorkerPlaced(v)'
    BY <1>2 DEF WorkerResume, TypeOK, AllPlaced, WorkerPlaced, Looping, Paged, Goto, results, locals
  <2> QED BY <2>1, <2>2, <2>3, <2>4 DEF IInv, AllPlaced
<1>3. CASE WorkerAcquire(w)
  <2>1. job' \in Jobs /\ Placed(job'.cp)
    BY <1>3, LeasedKeeps DEF WorkerAcquire, TypeOK, AllPlaced
  <2>2. /\ at' \in [Workers -> [seg : Nat, mark : Nat]]
       /\ objs' \in [Workers -> [job : Nat, current : Nat]]
    <3> DEFINE place == [seg |-> job.cp.seg, mark |-> job.cp.mark]
               count == [job |-> job.cp.objs, current |-> 0]
    <3>1. place \in [seg : Nat, mark : Nat] /\ count \in [job : Nat, current : Nat]
      BY DEF TypeOK, Jobs
    <3>2. \/ at' = at /\ objs' = objs
          \/ at' = [at EXCEPT ![w] = place] /\ objs' = [objs EXCEPT ![w] = count]
      BY <1>3 DEF WorkerAcquire
    <3>3. at \in [Workers -> [seg : Nat, mark : Nat]]
          /\ objs \in [Workers -> [job : Nat, current : Nat]]
      BY DEF TypeOK
    <3> HIDE DEF place, count, IInv
    <3>4. at' \in [Workers -> [seg : Nat, mark : Nat]]
      BY <3>1, <3>2, <3>3
    <3>5. objs' \in [Workers -> [job : Nat, current : Nat]]
      BY <3>1, <3>2, <3>3
    <3> QED BY <3>4, <3>5
  <2>3. TypeOK'
    BY <1>3, <2>1, <2>2 DEF WorkerAcquire, TypeOK, Labels, Goto, results
  <2>4. \A p \in Procs : Placed(copy'[p].cp)
    BY <1>3 DEF WorkerAcquire, TypeOK, AllPlaced
  <2>5. Placed(at'[w])
    BY <1>3 DEF WorkerAcquire, TypeOK, AllPlaced, WorkerPlaced, Placed
  <2>6. \A v \in Workers : WorkerPlaced(v)'
    BY <1>3, <2>5 DEF WorkerAcquire, TypeOK, AllPlaced, WorkerPlaced, Looping, Paged, Goto, results, locals
  <2> QED BY <2>1, <2>2, <2>3, <2>4, <2>5, <2>6 DEF IInv, AllPlaced
<1>4. CASE WorkerClient(w)
  <2>1. job' \in Jobs /\ Placed(job'.cp)
    BY <1>4 DEF WorkerClient, TypeOK, AllPlaced
  <2>2. TypeOK'
    BY <1>4, <2>1 DEF WorkerClient, TypeOK, Labels, Goto, results, locals
  <2>3. \A p \in Procs : Placed(copy'[p].cp)
    BY <1>4 DEF WorkerClient, TypeOK, AllPlaced, results, locals
  <2>4. \A v \in Workers : WorkerPlaced(v)'
    BY <1>4 DEF WorkerClient, TypeOK, AllPlaced, WorkerPlaced, Looping, Paged, Goto, results, locals
  <2> QED BY <2>1, <2>2, <2>3, <2>4 DEF IInv, AllPlaced
<1>5. CASE WorkerCheck(w)
  <2>1. job' \in Jobs /\ Placed(job'.cp)
    BY <1>5 DEF WorkerCheck, TypeOK, AllPlaced
  <2>2. objs' \in [Workers -> [job : Nat, current : Nat]]
    BY <1>5 DEF WorkerCheck, TypeOK, Jobs
  <2>3. TypeOK'
    BY <1>5, <2>1, <2>2 DEF WorkerCheck, TypeOK, Labels, Goto, results
  <2>4. \A p \in Procs : Placed(copy'[p].cp)
    BY <1>5 DEF WorkerCheck, TypeOK, AllPlaced
  <2>5. \A v \in Workers : WorkerPlaced(v)'
    BY <1>5 DEF WorkerCheck, TypeOK, AllPlaced, WorkerPlaced, Looping, Paged, Goto, results, locals
  <2> QED BY <2>1, <2>2, <2>3, <2>4, <2>5 DEF IInv, AllPlaced
<1>6. CASE WorkerHeartbeat(w)
  <2>1. job' \in Jobs /\ Placed(job'.cp)
    BY <1>6, LeasedKeeps DEF WorkerHeartbeat, TypeOK, AllPlaced
  <2>2. TypeOK'
    BY <1>6, <2>1 DEF WorkerHeartbeat, TypeOK, Labels, Goto, results, locals
  <2>3. \A p \in Procs : Placed(copy'[p].cp)
    BY <1>6 DEF WorkerHeartbeat, TypeOK, AllPlaced, results, locals
  <2>4. \A v \in Workers : WorkerPlaced(v)'
    BY <1>6 DEF WorkerHeartbeat, TypeOK, AllPlaced, WorkerPlaced, Looping, Paged, Goto, results, locals
  <2> QED BY <2>1, <2>2, <2>3, <2>4 DEF IInv, AllPlaced
<1>7. CASE WorkerList(w)
  <2>1. job' \in Jobs /\ Placed(job'.cp)
    BY <1>7 DEF WorkerList, TypeOK, AllPlaced
  <2>2. at[w] \in [seg : Nat, mark : Nat] /\ objs[w].job \in Nat /\ at[w].seg \in Segments /\ Placed(at[w])
    BY <1>7 DEF WorkerList, TypeOK, AllPlaced, WorkerPlaced, Looping
  <2>3. /\ page'[w] \in [to : Nat, next : Nat]
       /\ at[w].mark <= page'[w].to
       /\ page'[w].to <= Len(Listing[at[w].seg])
       /\ page'[w].next \in {0, page'[w].to}
    BY <1>7, <2>2, ListedPageFacts DEF WorkerList, TypeOK
  <2>4. page' \in [Workers -> [to : Nat, next : Nat]] /\ tries' \in [Workers -> 0 .. MaxPageRetries]
    BY <1>7, <2>3, ScanAssumption DEF WorkerList, TypeOK
  <2>5. TypeOK'
    BY <1>7, <2>1, <2>4 DEF WorkerList, TypeOK, Labels, Goto, results
  <2>6. \A p \in Procs : Placed(copy'[p].cp)
    BY <1>7 DEF WorkerList, TypeOK, AllPlaced
  <2>7. \A v \in Workers : WorkerPlaced(v)'
    BY <1>7, <2>2, <2>3 DEF WorkerList, TypeOK, AllPlaced, WorkerPlaced, Looping, Paged, Goto, results, locals
  <2> QED BY <2>1, <2>2, <2>3, <2>4, <2>5, <2>6, <2>7 DEF IInv, AllPlaced
<1>8. CASE WorkerRetry(w)
  <2>1. job' \in Jobs /\ Placed(job'.cp)
    BY <1>8 DEF WorkerRetry, TypeOK, AllPlaced
  <2>2. tries' \in [Workers -> 0 .. MaxPageRetries]
    BY <1>8, ScanAssumption DEF WorkerRetry, TypeOK
  <2>3. TypeOK'
    BY <1>8, <2>1, <2>2 DEF WorkerRetry, TypeOK, results
  <2>4. \A p \in Procs : Placed(copy'[p].cp)
    BY <1>8 DEF WorkerRetry, TypeOK, AllPlaced
  <2>5. \A v \in Workers : WorkerPlaced(v)'
    BY <1>8 DEF WorkerRetry, TypeOK, AllPlaced, WorkerPlaced, Looping, Paged, Goto, results, locals
  <2> QED BY <2>1, <2>2, <2>3, <2>4, <2>5 DEF IInv, AllPlaced
<1>9. CASE WorkerListFails(w)
  <2>1. job' \in Jobs /\ Placed(job'.cp)
    BY <1>9 DEF WorkerListFails, TypeOK, AllPlaced
  <2>2. TypeOK'
    BY <1>9, <2>1 DEF WorkerListFails, TypeOK, Labels, Goto, results, locals
  <2>3. \A p \in Procs : Placed(copy'[p].cp)
    BY <1>9 DEF WorkerListFails, TypeOK, AllPlaced, results, locals
  <2>4. \A v \in Workers : WorkerPlaced(v)'
    BY <1>9 DEF WorkerListFails, TypeOK, AllPlaced, WorkerPlaced, Looping, Paged, Goto, results, locals
  <2> QED BY <2>1, <2>2, <2>3, <2>4 DEF IInv, AllPlaced
<1>10. CASE WorkerPersist(w)
  <2>1. job' \in Jobs /\ Placed(job'.cp)
    BY <1>10 DEF WorkerPersist, TypeOK, AllPlaced
  <2>2. inventory' \subseteq Blobs
    BY <1>10, ItemFacts, KeptSubset DEF WorkerPersist, TypeOK, Paged
  <2>3. TypeOK'
    BY <1>10, <2>1, <2>2 DEF WorkerPersist, TypeOK, Labels, Goto, locals
  <2>4. \A p \in Procs : Placed(copy'[p].cp)
    BY <1>10 DEF WorkerPersist, TypeOK, AllPlaced
  <2>5. \A v \in Workers : WorkerPlaced(v)'
    BY <1>10 DEF WorkerPersist, TypeOK, AllPlaced, WorkerPlaced, Looping, Paged, Goto, results, locals
  <2> QED BY <2>1, <2>2, <2>3, <2>4, <2>5 DEF IInv, AllPlaced
<1>11. CASE WorkerRead(w)
  <2>1. job' \in Jobs /\ Placed(job'.cp)
    BY <1>11 DEF WorkerRead, TypeOK, AllPlaced
  <2>2. TypeOK'
    BY <1>11, <2>1 DEF WorkerRead, TypeOK, Labels, Goto, results, locals
  <2>3. \A p \in Procs : Placed(copy'[p].cp)
    BY <1>11 DEF WorkerRead, TypeOK, AllPlaced, results, locals
  <2>4. \A v \in Workers : WorkerPlaced(v)'
    BY <1>11 DEF WorkerRead, TypeOK, AllPlaced, WorkerPlaced, Looping, Paged, Goto, results, locals
  <2> QED BY <2>1, <2>2, <2>3, <2>4 DEF IInv, AllPlaced
<1>12. CASE WorkerWrite(w)
  <2>1. job' \in Jobs /\ Placed(job'.cp)
    BY <1>12 DEF WorkerWrite, TypeOK, AllPlaced
  <2>2. artifact' \in [Blobs -> Nat]
    BY <1>12, ItemFacts DEF WorkerWrite, TypeOK, Paged
  <2>3. TypeOK'
    BY <1>12, <2>1, <2>2 DEF WorkerWrite, TypeOK, Labels, Goto, locals
  <2>4. \A p \in Procs : Placed(copy'[p].cp)
    BY <1>12 DEF WorkerWrite, TypeOK, AllPlaced
  <2>5. \A v \in Workers : WorkerPlaced(v)'
    BY <1>12 DEF WorkerWrite, TypeOK, AllPlaced, WorkerPlaced, Looping, Paged, Goto, results, locals
  <2> QED BY <2>1, <2>2, <2>3, <2>4, <2>5 DEF IInv, AllPlaced
<1>13. CASE WorkerWriteFails(w)
  <2>1. job' \in Jobs /\ Placed(job'.cp)
    BY <1>13 DEF WorkerWriteFails, TypeOK, AllPlaced
  <2>2. artifact' \in [Blobs -> Nat]
    BY <1>13 DEF WorkerWriteFails, TypeOK, NoRecords
  <2>3. TypeOK'
    BY <1>13, <2>1, <2>2 DEF WorkerWriteFails, TypeOK, Labels, Goto, locals
  <2>4. \A p \in Procs : Placed(copy'[p].cp)
    BY <1>13 DEF WorkerWriteFails, TypeOK, AllPlaced
  <2>5. \A v \in Workers : WorkerPlaced(v)'
    BY <1>13 DEF WorkerWriteFails, TypeOK, AllPlaced, WorkerPlaced, Looping, Paged, Goto, results, locals
  <2> QED BY <2>1, <2>2, <2>3, <2>4, <2>5 DEF IInv, AllPlaced
<1>14. CASE WorkerRecord(w)
  <2>1. job' \in Jobs /\ Placed(job'.cp)
    BY <1>14, ItemFacts, NormalizedWrittenKeeps DEF WorkerRecord, TypeOK, AllPlaced, Paged
  <2>2. TypeOK'
    BY <1>14, <2>1 DEF WorkerRecord, TypeOK, Labels, Goto, results, locals
  <2>3. \A p \in Procs : Placed(copy'[p].cp)
    BY <1>14 DEF WorkerRecord, TypeOK, AllPlaced, results, locals
  <2>4. \A v \in Workers : WorkerPlaced(v)'
    BY <1>14 DEF WorkerRecord, TypeOK, AllPlaced, WorkerPlaced, Looping, Paged, Goto, results, locals
  <2> QED BY <2>1, <2>2, <2>3, <2>4 DEF IInv, AllPlaced
<1>15. CASE WorkerCheckpoint(w)
  <2>1. /\ at[w] \in [seg : Nat, mark : Nat] /\ page[w] \in [to : Nat, next : Nat]
       /\ objs[w].current + (page[w].to - at[w].mark) \in Nat
       /\ at[w].seg \in Segments /\ at[w].seg >= 1
       /\ page[w].next <= Len(Listing[at[w].seg])
    <3>1. /\ at[w] \in [seg : Nat, mark : Nat] /\ page[w] \in [to : Nat, next : Nat]
          /\ objs[w].current \in Nat
      BY DEF TypeOK
    <3>2. /\ at[w].seg \in Segments
          /\ at[w].mark <= page[w].to
          /\ page[w].to <= Len(Listing[at[w].seg])
          /\ page[w].next \in {0, page[w].to}
      BY <1>15 DEF WorkerCheckpoint, AllPlaced, WorkerPlaced, Looping, Paged
    <3> HIDE DEF IInv, FileFollows
    <3> QED BY <3>1, <3>2, ListingFacts
  <2>2. job' \in Jobs /\ Placed(job'.cp)
    BY <1>15, <2>1, CheckpointedSets DEF WorkerCheckpoint, TypeOK, AllPlaced, Placed, Checkpoints
  <2>3. /\ at' \in [Workers -> [seg : Nat, mark : Nat]]
       /\ objs' \in [Workers -> [job : Nat, current : Nat]]
       /\ page' \in [Workers -> [to : Nat, next : Nat]]
       /\ snap' \in [Workers -> [Blobs -> Nat]]
    <3> DEFINE scanned == objs[w].current + (page[w].to - at[w].mark)
    <3> DEFINE count == [job |-> scanned, current |-> 0]
               place == [seg |-> at[w].seg, mark |-> page[w].next]
    <3>1. /\ page' = [page EXCEPT ![w] = NoPage] /\ NoPage \in [to : Nat, next : Nat]
          /\ snap' = [snap EXCEPT ![w] = NoRecords] /\ NoRecords \in [Blobs -> Nat]
      BY <1>15 DEF WorkerCheckpoint, NoPage, NoRecords
    <3>2. \/ at' = at /\ objs' = objs
          \/ /\ at' = [at EXCEPT ![w] = place]
             /\ objs' = [objs EXCEPT ![w] = count]
      BY <1>15 DEF WorkerCheckpoint
    <3>3. count \in [job : Nat, current : Nat] /\ place \in [seg : Nat, mark : Nat]
      BY <2>1
    <3> HIDE DEF count, place
    <3>4. at' \in [Workers -> [seg : Nat, mark : Nat]]
      BY <3>2, <3>3 DEF TypeOK
    <3>5. objs' \in [Workers -> [job : Nat, current : Nat]]
      BY <3>2, <3>3 DEF TypeOK
    <3> QED BY <3>1, <3>4, <3>5 DEF TypeOK
  <2>4. TypeOK'
    BY <1>15, <2>2, <2>3 DEF WorkerCheckpoint, AfterPage, TypeOK, Labels, Goto, results
  <2>5. \A p \in Procs : Placed(copy'[p].cp)
    BY <1>15 DEF WorkerCheckpoint, TypeOK, AllPlaced
  <2>6. Placed(at'[w]) /\ at'[w].seg = at[w].seg
    BY <1>15, <2>1 DEF WorkerCheckpoint, TypeOK, AllPlaced, WorkerPlaced, Placed
  <2>7. \A v \in Workers : WorkerPlaced(v)'
    BY <1>15, <2>1, <2>6 DEF WorkerCheckpoint, AfterPage, TypeOK, AllPlaced, WorkerPlaced, Looping, Paged, Goto, results, locals
  <2> QED BY <2>1, <2>2, <2>3, <2>4, <2>5, <2>6, <2>7 DEF IInv, AllPlaced
<1>16. CASE WorkerAdvance(w)
  <2>1. at[w].seg \in Nat /\ at[w].seg + 1 \in Segments /\ objs[w].job \in Nat
    BY <1>16, ListingFacts DEF WorkerAdvance, TypeOK, AllPlaced, WorkerPlaced, Looping
  <2>2. job' \in Jobs /\ Placed(job'.cp)
    <3> DEFINE cp == [seg |-> at[w].seg + 1, mark |-> 0, objs |-> objs[w].job]
    <3>1. cp \in Checkpoints /\ Placed(cp)
      BY <2>1, ListingFacts DEF Checkpoints, Placed
    <3>2. job' = job \/ job' = Checkpointed(job, cp)
      BY <1>16 DEF WorkerAdvance
    <3>3. job \in Jobs /\ Placed(job.cp)
      BY DEF TypeOK, AllPlaced
    <3> HIDE DEF cp, IInv, FileFollows
    <3> QED BY <3>1, <3>2, <3>3, CheckpointedSets
  <2>3. at' \in [Workers -> [seg : Nat, mark : Nat]] /\ at'[w] = [seg |-> at[w].seg + 1, mark |-> 0]
    BY <1>16, <2>1 DEF WorkerAdvance, TypeOK
  <2>4. TypeOK'
    BY <1>16, <2>2, <2>3 DEF WorkerAdvance, TypeOK, Labels, Goto, results
  <2>5. \A p \in Procs : Placed(copy'[p].cp)
    BY <1>16 DEF WorkerAdvance, TypeOK, AllPlaced
  <2>6. Placed(at'[w])
    BY <2>1, <2>3, ListingFacts DEF Placed
  <2>7. \A v \in Workers : WorkerPlaced(v)'
    BY <1>16, <2>1, <2>3, <2>6 DEF WorkerAdvance, TypeOK, AllPlaced, WorkerPlaced, Looping, Paged, Goto, results, locals
  <2> QED BY <2>1, <2>2, <2>3, <2>4, <2>5, <2>6, <2>7 DEF IInv, AllPlaced
<1>17. CASE WorkerComplete(w)
  <2>1. job' \in Jobs /\ Placed(job'.cp)
    BY <1>17, TransitionKeeps DEF WorkerComplete, TypeOK, AllPlaced, Statuses
  <2>2. copy' \in [Procs -> Jobs] /\ (\A p \in Procs : Placed(copy'[p].cp))
    BY <1>17, TransitionKeeps DEF WorkerComplete, TypeOK, AllPlaced, Statuses
  <2>3. TypeOK'
    BY <1>17, <2>1, <2>2 DEF WorkerComplete, TypeOK, Labels, Goto, results, locals
  <2>4. \A v \in Workers : WorkerPlaced(v)'
    BY <1>17 DEF WorkerComplete, TypeOK, AllPlaced, WorkerPlaced, Looping, Paged, Goto, results, locals
  <2> QED BY <2>1, <2>2, <2>3, <2>4 DEF IInv, AllPlaced
<1>18. CASE WriteBack(w)
  BY <1>18, WriteBackIInv
<1>19. CASE WorkerRelease(w)
  <2>1. job' \in Jobs /\ Placed(job'.cp)
    BY <1>19, KeepCheckpoint DEF WorkerRelease, TypeOK, AllPlaced
  <2>2. /\ at' \in [Workers -> [seg : Nat, mark : Nat]] /\ Placed(at'[w])
       /\ objs' \in [Workers -> [job : Nat, current : Nat]]
       /\ tries' \in [Workers -> 0 .. MaxPageRetries]
    BY <1>19, ScanAssumption, ListingFacts DEF WorkerRelease, TypeOK, NoPlace, NoObjs, Placed
  <2>3. TypeOK'
    BY <1>19, <2>1, <2>2 DEF WorkerRelease, TypeOK, Labels, Goto, results
  <2>4. \A p \in Procs : Placed(copy'[p].cp)
    BY <1>19 DEF WorkerRelease, TypeOK, AllPlaced
  <2>5. \A v \in Workers : WorkerPlaced(v)'
    BY <1>19, <2>2 DEF WorkerRelease, TypeOK, AllPlaced, WorkerPlaced, Looping, Paged, Goto, results, locals
  <2> QED BY <2>1, <2>2, <2>3, <2>4, <2>5 DEF IInv, AllPlaced
<1>20. CASE WorkerFail(w)
  <2>1. job' \in Jobs /\ Placed(job'.cp)
    BY <1>20, TransitionKeeps DEF WorkerFail, TypeOK, AllPlaced, Statuses
  <2>2. TypeOK'
    BY <1>20, <2>1 DEF WorkerFail, TypeOK, Labels, Goto, results, locals
  <2>3. \A p \in Procs : Placed(copy'[p].cp)
    BY <1>20 DEF WorkerFail, TypeOK, AllPlaced, results, locals
  <2>4. \A v \in Workers : WorkerPlaced(v)'
    BY <1>20 DEF WorkerFail, TypeOK, AllPlaced, WorkerPlaced, Looping, Paged, Goto, results, locals
  <2> QED BY <2>1, <2>2, <2>3, <2>4 DEF IInv, AllPlaced
<1> QED BY <1>1, <1>2, <1>3, <1>4, <1>5, <1>6, <1>7, <1>8, <1>9, <1>10, <1>11, <1>12, <1>13, <1>14, <1>15, <1>16, <1>17, <1>18, <1>19, <1>20 DEF WorkerStep

\* Every step of a request preserves the invariant.
LEMMA RequestIInv ==
  ASSUME IInv, FileFollows, NEW o \in Operators, Request(o) \/ Finish(o)
  PROVE  IInv'
<1> USE DEF IInv, Procs, results, locals, FileFollows
<1>1. CASE ResumeGet(o)
  <2>1. TypeOK'
    BY <1>1 DEF ResumeGet, TypeOK, Labels, Goto
  <2>2. AllPlaced'
    BY <1>1, ScanAssumption DEF ResumeGet, TypeOK, AllPlaced, WorkerPlaced, Looping, Paged, Goto
  <2> QED BY <2>1, <2>2
<1>2. CASE ResumeStore(o)
  <2>1. job' \in Jobs /\ Placed(job'.cp)
    BY <1>2, KeepCheckpoint DEF ResumeStore, TypeOK, AllPlaced
  <2>2. TypeOK'
    BY <1>2, <2>1 DEF ResumeStore, TypeOK, Labels, Goto
  <2>3. AllPlaced'
    BY <1>2, <2>1, ScanAssumption
       DEF ResumeStore, TypeOK, AllPlaced, WorkerPlaced, Looping, Paged, Goto
  <2> QED BY <2>2, <2>3
<1>3. ASSUME NEW w \in Workers, StartWorker(o, w) PROVE IInv'
  <2>1. TypeOK'
    BY <1>3 DEF StartWorker, TypeOK, Labels
  <2>2. AllPlaced'
    BY <1>3, ScanAssumption DEF StartWorker, TypeOK, AllPlaced, WorkerPlaced, Looping, Paged
  <2> QED BY <2>1, <2>2
<1>4. CASE WriteBack(o)
  BY <1>4, WriteBackIInv
<1>5. ASSUME NEW request, NEW status \in {"paused", "cancelled", "completed"},
             Steer(o, request, status)
      PROVE  IInv'
  <2>1. Transition(job, status) \in Jobs /\ Placed(Transition(job, status).cp)
    BY TransitionKeeps DEF TypeOK, AllPlaced, Statuses
  <2>2. TypeOK'
    BY <1>5, <2>1 DEF Steer, TypeOK, Labels, Goto
  <2>3. AllPlaced'
    BY <1>5, <2>1, ScanAssumption
       DEF Steer, TypeOK, AllPlaced, WorkerPlaced, Looping, Paged, Goto
  <2> QED BY <2>2, <2>3
<1> QED BY <1>1, <1>2, <1>3, <1>4, <1>5 DEF Request, Finish

\* What happens to the job alone preserves the invariant.
LEMMA JobStepIInv ==
  ASSUME IInv, FileFollows,
         Queue \/ OperatorFail \/ OperatorCheckpoint \/ Reclaim \/ Reset \/ LeaseExpires
  PROVE  IInv'
<1> USE DEF IInv, Procs, results, locals, FileFollows
<1>1. /\ job' \in Jobs /\ Placed(job'.cp)
      /\ intact' \in BOOLEAN /\ inventory' \subseteq Blobs /\ artifact' \in [Blobs -> Nat]
      /\ UNCHANGED <<pc, copy, locals>>
  <2>1. Placed(Start0)
    BY ListingFacts DEF Placed, Start0
  <2>2. CASE Queue
    BY <2>1, <2>2, InitialJobs DEF Queue, TypeOK
  <2>3. CASE OperatorFail
    BY <2>3, TransitionKeeps DEF OperatorFail, TypeOK, AllPlaced, Statuses
  <2>4. CASE OperatorCheckpoint
    <3>1. PICK s \in 1 .. Len(Listing) + 1 :
            job' = Checkpointed(job, [Start0 EXCEPT !.seg = s])
      BY <2>4 DEF OperatorCheckpoint
    <3>2. [Start0 EXCEPT !.seg = s] \in Checkpoints /\ Placed([Start0 EXCEPT !.seg = s])
      BY ListingFacts DEF Checkpoints, Placed, Start0
    <3> QED BY <2>4, <3>1, <3>2, CheckpointedSets DEF OperatorCheckpoint, TypeOK
  <2>5. CASE Reclaim
    BY <2>5, KeepCheckpoint DEF Reclaim, TypeOK, AllPlaced
  <2>6. CASE Reset
    <3>1. NoRecords \in [Blobs -> Nat]
      BY DEF NoRecords
    <3>2. CASE UNCHANGED <<results, intact>> /\ job' = GoneJob
      BY <2>1, <2>6, <3>2, InitialJobs DEF Reset, TypeOK
    <3>3. CASE UNCHANGED job /\ intact' = FALSE
      BY <2>6, <3>1, <3>3 DEF Reset, TypeOK, AllPlaced
    <3> QED BY <2>6, <3>2, <3>3 DEF Reset
  <2>7. CASE LeaseExpires
    BY <2>7 DEF LeaseExpires, TypeOK, AllPlaced, Jobs
  <2> QED BY <2>2, <2>3, <2>4, <2>5, <2>6, <2>7
<1>2. TypeOK'
  BY <1>1 DEF TypeOK
<1>3. AllPlaced'
  BY <1>1 DEF AllPlaced, WorkerPlaced
<1> QED BY <1>2, <1>3

\* A crash preserves the invariant, torn file or not, since the file keeps it.
LEMMA CrashIInv ==
  ASSUME IInv, Crash \/ CrashTearsFile
  PROVE  IInv'
<1> USE DEF IInv, Procs, results
<1>1. /\ job' \in Jobs /\ Placed(job'.cp)
      /\ jobFile' \in Jobs /\ Placed(jobFile'.cp)
      /\ intact' \in BOOLEAN /\ inventory' \subseteq Blobs /\ artifact' \in [Blobs -> Nat]
  <2>1. NoRecords \in [Blobs -> Nat] /\ Placed(Start0)
    BY ListingFacts DEF NoRecords, Placed, Start0
  <2>2. jobFile' \in {jobFile, GoneJob} /\ job' = jobFile' /\ inventory' \subseteq Blobs
        /\ artifact' \in {artifact, NoRecords} /\ intact' \in BOOLEAN
    BY DEF Crash, CrashTearsFile, TypeOK
  <2> QED BY <2>1, <2>2, InitialJobs DEF TypeOK, AllPlaced
<1>2. ProcessesDie
  BY DEF Crash, CrashTearsFile
<1>3. TypeOK'
  BY <1>1, <1>2, InitialJobs, ScanAssumption
     DEF ProcessesDie, TypeOK, Labels, NoPlace, NoObjs, NoPage, NoRecords
<1>4. AllPlaced'
  BY <1>1, <1>2, InitialJobs, ListingFacts
     DEF ProcessesDie, AllPlaced, WorkerPlaced, Placed, Looping, Paged, NoPlace, Start0
<1> QED BY <1>3, <1>4

LEMMA NextIInv == IInv /\ [Next]_vars => IInv'
<1> SUFFICES ASSUME IInv, [Next]_vars PROVE IInv'
  OBVIOUS
<1>1. CASE UNCHANGED vars
  BY <1>1 DEF vars, results, locals, IInv, TypeOK, AllPlaced, WorkerPlaced
<1>2. CASE Step /\ Saved
  BY <1>2, SavedFollows, WorkerStepIInv, RequestIInv, JobStepIInv DEF Step
<1>3. CASE Crash \/ CrashTearsFile
  BY <1>3, CrashIInv
<1> QED BY <1>1, <1>2, <1>3 DEF Next

-----------------------------------------------------------------------------
\* Every reachable state is well typed, for all values of the constants.
THEOREM TypeCorrect == Spec => []TypeOK
<1>1. IInv => TypeOK
  BY DEF IInv
<1> QED BY InitIInv, NextIInv, <1>1, PTL DEF Spec

-----------------------------------------------------------------------------
(* The lease. *)

\* What the operators of the store do to the lease, and to the status.
LEMMA LeaseFields ==
  ASSUME NEW j \in Jobs
  PROVE  /\ Resumed(j).owner = j.owner /\ Resumed(j).live = j.live
         /\ Unleased(j).owner = NoWorker /\ ~Unleased(j).live
         /\ WrittenBack(j).owner = NoWorker /\ ~WrittenBack(j).live
         /\ Reclaimed(j).owner = NoWorker /\ ~Reclaimed(j).live
         /\ \A s : Transition(j, s).owner = j.owner /\ Transition(j, s).live = j.live
         /\ \A w : Leased(j, w).owner = w /\ Leased(j, w).live
         /\ \A cp : Checkpointed(j, cp).owner = j.owner /\ Checkpointed(j, cp).live = j.live
         /\ \A n : NormalizedWritten(j, n).owner = j.owner
                   /\ NormalizedWritten(j, n).live = j.live
BY DEF Jobs, Resumed, Unleased, WrittenBack, Reclaimed, Transition, Leased,
       Checkpointed, NormalizedWritten

LEMMA StatusFields ==
  ASSUME NEW j \in Jobs
  PROVE  /\ Resumed(j).status = "running"
         /\ Unleased(j).status = j.status
         /\ Reclaimed(j).status = "paused"
         /\ \A s : Transition(j, s).status = s
         /\ \A w : Leased(j, w).status = j.status
         /\ \A cp : Checkpointed(j, cp).status = j.status
         /\ \A n : NormalizedWritten(j, n).status = j.status
BY DEF Jobs, Resumed, Unleased, Reclaimed, Transition, Leased, Checkpointed,
       NormalizedWritten

\* Every step that touches the lease grants it as AcquireLease or HeartbeatLease
\* do, clears it, or lets it expire.
LEMMA LeaseChanges ==
  ASSUME TypeOK, Step
  PROVE  \/ \E w \in Workers : Lease!Grant(w)
         \/ Lease!Drop
         \/ Lease!Expire
         \/ job'.owner = job.owner /\ job'.live = job.live
<1>0. job \in Jobs /\ job.live \in BOOLEAN /\ copy \in [Procs -> Jobs]
  BY DEF TypeOK, Jobs
<1>2. ASSUME NEW w \in Workers, WorkerStep(w)
      PROVE  \/ Lease!Grant(w)
             \/ Lease!Drop
             \/ job'.owner = job.owner /\ job'.live = job.live
  <2>1. CASE WorkerAcquire(w)
    BY <1>0, <2>1, LeaseFields DEF WorkerAcquire, CanAcquire, Lease!Grant
  <2>2. CASE WorkerHeartbeat(w)
    BY <1>0, <2>2, LeaseFields DEF WorkerHeartbeat, CanHeartbeat, Lease!Grant
  <2>3. CASE WriteBack(w)
    BY <1>0, <2>3, LeaseFields DEF WriteBack, Lease!Drop, Procs
  <2>4. CASE WorkerRelease(w)
    BY <1>0, <2>4, LeaseFields DEF WorkerRelease, Lease!Drop
  <2>5. CASE WorkerResume(w) \/ WorkerComplete(w) \/ WorkerFail(w)
    BY <1>0, <2>5, LeaseFields DEF WorkerResume, WorkerComplete, WorkerFail
  <2>6. CASE WorkerRecord(w) \/ WorkerCheckpoint(w) \/ WorkerAdvance(w)
    BY <1>0, <2>6, LeaseFields DEF WorkerRecord, WorkerCheckpoint, WorkerAdvance
  <2>7. CASE \/ WorkerGet(w) \/ WorkerClient(w) \/ WorkerCheck(w)
             \/ WorkerList(w) \/ WorkerRetry(w) \/ WorkerListFails(w)
             \/ WorkerPersist(w) \/ WorkerRead(w) \/ WorkerWrite(w) \/ WorkerWriteFails(w)
    BY <2>7 DEF WorkerGet, WorkerClient, WorkerCheck, WorkerList, WorkerRetry,
                WorkerListFails, WorkerPersist, WorkerRead, WorkerWrite, WorkerWriteFails
  <2> QED BY <1>2, <2>1, <2>2, <2>3, <2>4, <2>5, <2>6, <2>7 DEF WorkerStep
<1>3. ASSUME NEW o \in Operators, Request(o) \/ Finish(o)
      PROVE  Lease!Drop \/ (job'.owner = job.owner /\ job'.live = job.live)
  <2>1. CASE WriteBack(o)
    <3>1. copy[o] \in Jobs
      BY <1>0 DEF Procs
    <3> QED BY <2>1, <3>1, LeaseFields DEF WriteBack, Lease!Drop
  <2>2. CASE Request(o)
    BY <1>0, <2>2, LeaseFields DEF Request, ResumeGet, Steer
  <2>3. CASE ResumeStore(o)
    BY <1>0, <2>3, LeaseFields DEF ResumeStore
  <2>4. CASE \E w \in Workers : StartWorker(o, w)
    BY <2>4 DEF StartWorker
  <2> QED BY <1>3, <2>1, <2>2, <2>3, <2>4 DEF Finish
<1>4. CASE Queue \/ Reset \/ Reclaim
  BY <1>0, <1>4, LeaseFields DEF Queue, Reset, Reclaim, NewJob, GoneJob, NoJob, Lease!Drop
<1>5. CASE OperatorFail
  BY <1>0, <1>5, LeaseFields DEF OperatorFail
<1>7. CASE OperatorCheckpoint
  BY <1>0, <1>7, LeaseFields DEF OperatorCheckpoint
<1>6. CASE LeaseExpires
  BY <1>0, <1>6 DEF LeaseExpires, Lease!Expire, Jobs
<1> QED BY <1>2, <1>3, <1>4, <1>5, <1>6, <1>7 DEF Step

\* The file follows, or does not; a restart brings back what it holds.
LEMMA LeaseStep == TypeOK /\ [Next]_vars => [Lease!Next]_(Lease!vars)
<1> SUFFICES ASSUME TypeOK, [Next]_vars PROVE [Lease!Next]_(Lease!vars)
  OBVIOUS
<1> DEFINE Held(j) == [owner |-> j.owner, live |-> j.live]
<1>0. Held(GoneJob) = Lease!NoLease
  BY DEF GoneJob, NoJob, Lease!NoLease
<1>1. CASE UNCHANGED vars
  BY <1>1 DEF vars, Lease!vars
<1>2. CASE Step /\ Saved
  <2>1. Held(jobFile') \in {Held(job'), Held(jobFile), Lease!NoLease}
    BY <1>0, <1>2 DEF Saved
  <2>2. (Lease!Save)
    BY <2>1 DEF Lease!Save
  <2> QED BY <1>2, <2>2, LeaseChanges DEF Lease!Next
<1>3. CASE Crash \/ CrashTearsFile
  <2>1. job' = jobFile' /\ jobFile' \in {jobFile, GoneJob}
    BY <1>3 DEF Crash, CrashTearsFile
  <2>2. CASE jobFile' = jobFile
    BY <2>1, <2>2 DEF Lease!Next, Lease!Restart, Lease!Save
  <2>3. CASE jobFile' = GoneJob
    BY <2>1, <2>3 DEF Lease!Next, Lease!Drop, Lease!Save, GoneJob, NoJob
  <2> QED BY <2>1, <2>2, <2>3
<1> QED BY <1>1, <1>2, <1>3 DEF Next

\* The job's lease implements the abstract lease, for every set of requests and
\* faults.
THEOREM LeaseImplemented == Spec => LeaseSpec
<1>1. Init => Lease!Init
  BY DEF Init, NoJob, Lease!Init, Lease!NoLease
<1> QED BY <1>1, LeaseStep, TypeCorrect, PTL DEF Spec, LeaseSpec, Lease!Spec

-----------------------------------------------------------------------------
(* Exclusion. *)

\* Nobody clears the lease under a worker, and no page outlives it.
LeaseUndisturbed ==
  Requests \cap {"pause", "cancel", "complete", "reset"} = {} /\ "slow" \notin Faults

\* The labels at which a worker holds the lease.
Holding(w) == pc[w] \in {"client", "check", "heartbeat", "list", "persist", "read",
                         "write", "record", "checkpoint", "advance", "complete",
                         "writeback"}

HoldsInv ==
  /\ \A w \in Workers : Holding(w) => job.owner = w /\ job.live
  /\ \A o \in Operators : pc[o] # "writeback"
  /\ job.status = "none" => job.owner = NoWorker

FileUnowned == jobFile.status = "none" => jobFile.owner = NoWorker

LEMMA HoldsStep ==
  ASSUME LeaseUndisturbed, TypeOK, HoldsInv, FileUnowned, [Next]_vars
  PROVE  HoldsInv'
<1> USE DEF HoldsInv, Holding
<1>0. /\ job \in Jobs /\ job.live \in BOOLEAN /\ copy \in [Procs -> Jobs]
      /\ pc \in [Procs -> Labels] /\ Workers \subseteq Procs /\ Operators \subseteq Procs
      /\ Operators \cap Workers = {} /\ NoWorker \notin Workers
  BY ScanAssumption, WorkersAssumption DEF TypeOK, Jobs, Procs
<1>1. CASE UNCHANGED vars
  BY <1>1 DEF vars
<1>2. ASSUME NEW w \in Workers, WorkerStep(w)
      PROVE  HoldsInv'
  <2>1. CASE WorkerAcquire(w)
    BY <1>0, <2>1, LeaseFields, StatusFields DEF WorkerAcquire, CanAcquire, Exists, Goto
  <2>2. CASE WorkerHeartbeat(w)
    BY <1>0, <2>2, LeaseFields, StatusFields DEF WorkerHeartbeat, CanHeartbeat, Exists, Goto
  <2>3. CASE WriteBack(w)
    BY <1>0, <2>3, LeaseFields, StatusFields DEF WriteBack, Goto
  <2>4. CASE WorkerRelease(w)
    BY <1>0, <2>4, LeaseFields, StatusFields DEF WorkerRelease, CanRelease, Goto
  <2>5. CASE WorkerResume(w) \/ WorkerFail(w)
    BY <1>0, <2>5, LeaseFields, StatusFields DEF WorkerResume, WorkerFail, Goto
  <2>6. CASE WorkerComplete(w)
    BY <1>0, <2>6, LeaseFields, StatusFields DEF WorkerComplete, Goto
  <2>7. CASE WorkerRecord(w) \/ WorkerAdvance(w)
    BY <1>0, <2>7, LeaseFields, StatusFields DEF WorkerRecord, WorkerAdvance, Goto
  <2>8. CASE WorkerCheckpoint(w)
    BY <1>0, <2>8, LeaseFields, StatusFields DEF WorkerCheckpoint, AfterPage, Goto
  <2>9. CASE WorkerGet(w) \/ WorkerClient(w) \/ WorkerCheck(w)
    BY <1>0, <2>9 DEF WorkerGet, WorkerClient, WorkerCheck, Goto
  <2>10. CASE \/ WorkerList(w) \/ WorkerRetry(w) \/ WorkerListFails(w) \/ WorkerPersist(w)
              \/ WorkerRead(w) \/ WorkerWrite(w) \/ WorkerWriteFails(w)
    BY <1>0, <2>10 DEF WorkerList, WorkerRetry, WorkerListFails, WorkerPersist,
                       WorkerRead, WorkerWrite, WorkerWriteFails, Goto
  <2> QED BY <1>2, <2>1, <2>2, <2>3, <2>4, <2>5, <2>6, <2>7, <2>8, <2>9, <2>10 DEF WorkerStep
<1>3. ASSUME NEW o \in Operators, Request(o) \/ Finish(o)
      PROVE  HoldsInv'
  <2>1. CASE ResumeGet(o)
    BY <1>0, <2>1 DEF ResumeGet, Goto
  <2>2. CASE ResumeStore(o)
    BY <1>0, <2>2, LeaseFields, StatusFields DEF ResumeStore, Goto
  <2>3. CASE \E w \in Workers : StartWorker(o, w)
    BY <1>0, <2>3 DEF StartWorker
  <2>4. ~WriteBack(o)
    BY DEF WriteBack
  <2>5. ASSUME NEW request \in {"pause", "cancel", "complete"}, NEW status
        PROVE  ~Steer(o, request, status)
    BY DEF Steer, LeaseUndisturbed
  <2> QED BY <1>3, <2>1, <2>2, <2>3, <2>4, <2>5 DEF Request, Finish
<1>4. CASE Queue
  BY <1>0, <1>4 DEF Queue, NewJob, NoJob
<1>5. CASE OperatorFail
  BY <1>0, <1>5, LeaseFields, StatusFields DEF OperatorFail
<1>10. CASE OperatorCheckpoint
  <2>1. PICK cp : job' = Checkpointed(job, cp)
    BY <1>10 DEF OperatorCheckpoint
  <2> HIDE DEF HoldsInv
  <2>2. /\ job'.owner = job.owner /\ job'.live = job.live /\ job'.status = job.status
    BY <1>0, <2>1, LeaseFields, StatusFields
  <2> QED BY <1>10, <2>2 DEF OperatorCheckpoint, HoldsInv
<1>6. CASE Reclaim
  BY <1>0, <1>6, LeaseFields, StatusFields DEF Reclaim, Stale
<1>7. ~Reset
  BY DEF Reset, LeaseUndisturbed
<1>8. CASE LeaseExpires
  BY <1>0, <1>8 DEF LeaseExpires, Active, LeaseUndisturbed, Jobs
<1>9. CASE Crash \/ CrashTearsFile
  <2>1. /\ \A w \in Workers : ~Holding(w)'
        /\ \A o \in Operators : pc'[o] # "writeback"
        /\ job' \in {jobFile, GoneJob}
    BY <1>0, <1>9 DEF Crash, CrashTearsFile, ProcessesDie
  <2> QED BY <2>1 DEF GoneJob, NoJob, FileUnowned
<1> QED BY <1>1, <1>2, <1>3, <1>4, <1>5, <1>6, <1>7, <1>8, <1>9, <1>10 DEF Next, Step

\* However many resumes, failures, reclaims and crashes there are, one worker scans.
THEOREM ScannerIsAlone == LeaseUndisturbed => (Spec => []OneScanner)
<1> SUFFICES ASSUME LeaseUndisturbed PROVE Spec => []OneScanner
  OBVIOUS
<1>1. Init => HoldsInv /\ FileUnowned
  BY DEF Init, HoldsInv, Holding, Procs, NoJob, FileUnowned
<1>2. TypeOK /\ HoldsInv /\ FileUnowned /\ [Next]_vars => (HoldsInv /\ FileUnowned)'
  <2> SUFFICES ASSUME TypeOK, HoldsInv, FileUnowned, [Next]_vars
               PROVE  HoldsInv' /\ FileUnowned'
    OBVIOUS
  <2>1. HoldsInv'
    BY HoldsStep
  <2>2. jobFile' \in {job', jobFile, GoneJob}
    BY DEF Next, Saved, Crash, CrashTearsFile, vars
  <2> QED BY <2>1, <2>2 DEF HoldsInv, FileUnowned, GoneJob, NoJob
<1>3. HoldsInv => OneScanner
  BY DEF HoldsInv, Holding, OneScanner, Scanning
<1> QED BY <1>1, <1>2, <1>3, TypeCorrect, PTL DEF Spec

-----------------------------------------------------------------------------
(* The order of the scan. *)

LEMMA BeforeStart == \A s \in Nat : Before(1, 0) \subseteq Before(s, 0) /\ Before(1, 0) = {}
BY ListingFacts DEF Before

LEMMA BeforeFirstPage ==
  ASSUME NEW s \in Nat, NEW m \in Nat
  PROVE  Before(s, 0) \subseteq Before(s, m)
BY ListingFacts DEF Before

\* A page adds its items.
LEMMA BeforePage ==
  ASSUME NEW s \in Segments, NEW m \in Nat, NEW n \in Nat
  PROVE  Before(s, n) \subseteq Before(s, m) \cup {Listing[s][i] : i \in m + 1 .. n}
BY ListingFacts DEF Before

\* The end of a segment is the start of the next one.
LEMMA BeforeNextSegment ==
  ASSUME NEW s \in Segments
  PROVE  Before(s + 1, 0) \subseteq Before(s, Len(Listing[s]))
BY ListingFacts DEF Before

\* Beyond the last segment there is nothing.
LEMMA BeforeEnd ==
  ASSUME NEW s \in Nat, NEW m \in Nat,
         s > Len(Listing) \/ (s = Len(Listing) /\ m = Len(Listing[s]))
  PROVE  Blobs \subseteq Before(s, m)
BY ListingFacts DEF Before, Blobs

LEMMA BeforeBlobs == \A s, m : Before(s, m) \subseteq Blobs
BY DEF Before

\* The portal state keeps everything while it fits.
LEMMA KeptAll ==
  ASSUME Unbounded, NEW S \in SUBSET Blobs
  PROVE  Kept(S) = S
BY FS_Subset, ScanAssumption, FS_CardinalityType DEF Kept, Unbounded

-----------------------------------------------------------------------------
(* The inductive invariant. *)

\* What a copy of the job claims is in the set of blobs.
Scanned(j, blobs) ==
  /\ Before(j.cp.seg, j.cp.mark) \subseteq blobs
  /\ j.status = "completed" => blobs = Blobs

WorkerScanned(w) ==
  /\ Before(at[w].seg, at[w].mark) \subseteq inventory
  /\ pc[w] \in Paged /\ page[w].next = 0 => page[w].to = Len(Listing[at[w].seg])
  /\ pc[w] \in Paged \ {"persist"} => Before(at[w].seg, page[w].to) \subseteq inventory
  /\ pc[w] = "advance" => Before(at[w].seg + 1, 0) \subseteq inventory
  /\ pc[w] = "complete" => inventory = Blobs

ScanInv ==
  Unbounded /\ intact =>
    /\ Scanned(job, inventory)
    /\ Scanned(jobFile, inventory)
    /\ \A p \in Procs : Scanned(copy[p], inventory)
    /\ \A w \in Workers : WorkerScanned(w)

LEMMA ScannedGrows ==
  ASSUME NEW j, NEW S, NEW T \in SUBSET Blobs, S \subseteq T, Scanned(j, S)
  PROVE  Scanned(j, T)
BY DEF Scanned

\* What the operators of the store do to the claim of a job.
LEMMA ScannedKept ==
  ASSUME NEW j \in Jobs, NEW S, Scanned(j, S)
  PROVE  /\ Scanned(Resumed(j), S)
         /\ Scanned(Unleased(j), S)
         /\ Scanned(WrittenBack(j), S)
         /\ Scanned(Reclaimed(j), S)
         /\ \A s \in Statuses : s # "completed" \/ S = Blobs => Scanned(Transition(j, s), S)
         /\ \A w : Scanned(Leased(j, w), S)
         /\ \A cp : Before(cp.seg, cp.mark) \subseteq S => Scanned(Checkpointed(j, cp), S)
         /\ \A n : Scanned(NormalizedWritten(j, n), S)
BY DEF Jobs, Scanned, Resumed, Unleased, WrittenBack, Reclaimed, Transition, Leased,
       Checkpointed, NormalizedWritten

LEMMA ScannedInitially ==
  ASSUME NEW S
  PROVE  Scanned(NoJob, S) /\ Scanned(NewJob, S) /\ Scanned(GoneJob, S)
BY BeforeStart DEF Scanned, NoJob, NewJob, GoneJob, Start0

\* While nobody interferes the inventory only grows.
LEMMA InventoryGrows ==
  ASSUME IInv, [Next]_vars, Unbounded, intact'
  PROVE  intact /\ inventory \subseteq inventory'
<1>1. CASE UNCHANGED vars
  BY <1>1 DEF vars, results
<1>2. ASSUME NEW w \in Workers, WorkerPersist(w)
      PROVE  intact /\ inventory \subseteq inventory'
  <2>1. inventory \cup Items(w) \in SUBSET Blobs
    BY <1>2, ItemFacts DEF WorkerPersist, IInv, TypeOK, Paged
  <2>2. inventory' = inventory \cup Items(w)
    BY <1>2, <2>1, KeptAll DEF WorkerPersist
  <2> QED BY <1>2, <2>2 DEF WorkerPersist
<1>3. ASSUME NEW w \in Workers, WorkerStep(w), ~WorkerPersist(w)
      PROVE  UNCHANGED <<intact, inventory>>
  <2>1. CASE \/ WorkerGet(w) \/ WorkerResume(w) \/ WorkerAcquire(w) \/ WorkerClient(w)
             \/ WorkerCheck(w) \/ WorkerHeartbeat(w) \/ WorkerList(w)
    BY <2>1 DEF WorkerGet, WorkerResume, WorkerAcquire, WorkerClient, WorkerCheck,
                WorkerHeartbeat, WorkerList, results
  <2>2. CASE \/ WorkerRetry(w) \/ WorkerListFails(w) \/ WorkerRead(w) \/ WorkerWrite(w)
             \/ WorkerWriteFails(w) \/ WorkerRecord(w) \/ WorkerCheckpoint(w)
    BY <2>2 DEF WorkerRetry, WorkerListFails, WorkerRead, WorkerWrite, WorkerWriteFails,
                WorkerRecord, WorkerCheckpoint, results
  <2>3. CASE \/ WorkerAdvance(w) \/ WorkerComplete(w) \/ WriteBack(w) \/ WorkerRelease(w)
             \/ WorkerFail(w)
    BY <2>3 DEF WorkerAdvance, WorkerComplete, WriteBack, WorkerRelease, WorkerFail, results
  <2> QED BY <1>3, <2>1, <2>2, <2>3 DEF WorkerStep
<1>4. ASSUME NEW o \in Operators, Request(o) \/ Finish(o)
      PROVE  intact /\ UNCHANGED inventory
  BY <1>4 DEF Request, Finish, ResumeGet, Steer, ResumeStore, StartWorker, WriteBack, results
<1>5. CASE \/ Queue \/ OperatorFail \/ OperatorCheckpoint \/ Reclaim \/ Reset \/ LeaseExpires
           \/ Crash \/ CrashTearsFile
  BY <1>5 DEF Queue, OperatorFail, OperatorCheckpoint, Reclaim, Reset, LeaseExpires,
              Crash, CrashTearsFile, results
<1> QED BY <1>1, <1>2, <1>3, <1>4, <1>5 DEF Next, Step

\* What a worker other than the one that steps has scanned stays scanned.
LEMMA OthersGrow ==
  ASSUME NEW v \in Workers, WorkerScanned(v),
         inventory \subseteq inventory', inventory' \subseteq Blobs,
         UNCHANGED <<at[v], page[v], pc[v]>>
  PROVE  WorkerScanned(v)'
BY DEF WorkerScanned

\* A worker that is neither in a page nor after one claims only its place.
LEMMA PlaceIsEnough ==
  ASSUME NEW v \in Workers,
         (Before(at[v].seg, at[v].mark) \subseteq inventory)',
         pc'[v] \notin Paged \cup {"advance", "complete"}
  PROVE  WorkerScanned(v)'
BY DEF WorkerScanned, Paged

\* Every step of a worker preserves the invariant.
LEMMA WorkerStepScanned ==
  ASSUME IInv, IInv', ScanInv, Unbounded, intact,
         inventory \subseteq inventory', inventory' \subseteq Blobs,
         NEW w \in Workers, WorkerStep(w)
  PROVE  /\ Scanned(job', inventory')
         /\ \A p \in Procs : Scanned(copy'[p], inventory')
         /\ \A v \in Workers : WorkerScanned(v)'
<1>0. /\ Scanned(job, inventory)
      /\ \A p \in Procs : Scanned(copy[p], inventory)
      /\ \A v \in Workers : WorkerScanned(v)
  BY DEF ScanInv
<1>1. /\ job \in Jobs /\ copy \in [Procs -> Jobs] /\ w \in Procs
      /\ at \in [Workers -> [seg : Nat, mark : Nat]]
      /\ page \in [Workers -> [to : Nat, next : Nat]]
      /\ pc \in [Procs -> Labels] /\ Workers \subseteq Procs
      /\ inventory \subseteq Blobs
  BY DEF IInv, TypeOK, Procs
<1>2. /\ Scanned(job, inventory')
      /\ \A p \in Procs : Scanned(copy[p], inventory')
  BY <1>0, ScannedGrows
<1>3. ASSUME UNCHANGED <<job, copy>>
      PROVE  Scanned(job', inventory') /\ \A p \in Procs : Scanned(copy'[p], inventory')
  BY <1>2, <1>3
<1>4. ASSUME UNCHANGED <<at, page, inventory>>, pc' = [pc EXCEPT ![w] = pc'[w]],
             pc'[w] \notin Paged \cup {"advance", "complete"}
      PROVE  \A v \in Workers : WorkerScanned(v)'
  <2>1. \A v \in Workers \ {w} : WorkerScanned(v)'
    BY <1>0, <1>1, <1>4, OthersGrow
  <2>2. (Before(at[w].seg, at[w].mark) \subseteq inventory)'
    BY <1>0, <1>4 DEF WorkerScanned
  <2> QED BY <1>4, <2>1, <2>2, PlaceIsEnough
<1>5. CASE \/ WorkerGet(w) \/ WorkerCheck(w) \/ WorkerListFails(w)
  BY <1>1, <1>3, <1>4, <1>5
     DEF WorkerGet, WorkerCheck, WorkerListFails, Goto, results, locals, Paged
<1>6. CASE WorkerRetry(w)
  BY <1>0, <1>3, <1>6 DEF WorkerRetry, WorkerScanned, results
<1>7. CASE WorkerResume(w) \/ WorkerHeartbeat(w) \/ WorkerFail(w)
  <2>1. Scanned(job', inventory')
    <3>1. Scanned(Resumed(job), inventory') /\ Scanned(Leased(job, w), inventory')
      BY <1>1, <1>2, ScannedKept
    <3>2. Scanned(Transition(job, "failed"), inventory')
      BY <1>1, <1>2, ScannedKept DEF Statuses
    <3> QED BY <1>2, <1>7, <3>1, <3>2 DEF WorkerResume, WorkerHeartbeat, WorkerFail
  <2>2. \A v \in Workers : WorkerScanned(v)'
    BY <1>1, <1>4, <1>7
       DEF WorkerResume, WorkerHeartbeat, WorkerFail, Goto, results, locals, Paged
  <2> QED BY <1>2, <1>7, <2>1, <2>2 DEF WorkerResume, WorkerHeartbeat, WorkerFail
<1>8. CASE WorkerAcquire(w)
  <2>1. Scanned(job', inventory')
    BY <1>1, <1>2, <1>8, ScannedKept DEF WorkerAcquire
  <2>2. \A v \in Workers \ {w} : WorkerScanned(v)'
    BY <1>0, <1>1, <1>8, OthersGrow DEF WorkerAcquire, Goto
  <2>3. (Before(at[w].seg, at[w].mark) \subseteq inventory)'
    BY <1>0, <1>1, <1>8 DEF WorkerAcquire, WorkerScanned, Scanned, results
  <2>4. WorkerScanned(w)'
    BY <1>1, <1>8, <2>3, PlaceIsEnough DEF WorkerAcquire, Goto, Paged
  <2> QED BY <1>2, <1>8, <2>1, <2>2, <2>4 DEF WorkerAcquire
<1>9. CASE WorkerClient(w)
  <2>1. \A v \in Workers \ {w} : WorkerScanned(v)'
    BY <1>0, <1>1, <1>9, OthersGrow DEF WorkerClient, Goto, locals
  <2>2. WorkerScanned(w)'
    <3>1. CASE pc'[w] = "complete"
      <4>1. at[w].seg \in Nat /\ at[w].mark \in Nat /\ at[w].seg > Len(Listing)
        BY <1>1, <1>9, <3>1, ListingFacts
           DEF WorkerClient, Goto, IInv, AllPlaced, WorkerPlaced, Placed
      <4>2. inventory = Blobs
        BY <1>0, <1>1, <4>1, BeforeEnd DEF WorkerScanned
      <4> QED BY <1>0, <1>9, <3>1, <4>2 DEF WorkerClient, WorkerScanned, Paged, results, locals
    <3>2. CASE pc'[w] # "complete"
      BY <1>0, <1>1, <1>9, <3>2
         DEF WorkerClient, Goto, WorkerScanned, Paged, results, locals
    <3> QED BY <3>1, <3>2
  <2> QED BY <1>3, <1>9, <2>1, <2>2 DEF WorkerClient
<1>10. CASE WorkerList(w)
  <2>1. \A v \in Workers \ {w} : WorkerScanned(v)'
    BY <1>0, <1>1, <1>10, OthersGrow DEF WorkerList, Goto
  <2>2. WorkerScanned(w)'
    <3>1. /\ at[w].seg \in Segments /\ Placed(at[w]) /\ objs[w].job \in Nat
      BY <1>10 DEF WorkerList, IInv, TypeOK, AllPlaced, WorkerPlaced, Looping
    <3>2. /\ page'[w] = ListedPage(at[w], objs[w].job)
          /\ page'[w].next = 0 => page'[w].to = Len(Listing[at[w].seg])
          /\ at[w].mark <= page'[w].to
          /\ page'[w].to \in Nat
      BY <1>1, <1>10, <3>1, ListedPageFacts DEF WorkerList, Unbounded
    <3>3. /\ pc'[w] \in {"persist", "checkpoint"}
          /\ pc'[w] = "checkpoint" => page'[w].to = at[w].mark
          /\ UNCHANGED <<at, inventory>>
      BY <1>1, <1>10, <3>2 DEF WorkerList, Goto, results
    <3>4. Before(at[w].seg, at[w].mark) \subseteq inventory
      BY <1>0 DEF WorkerScanned
    <3> QED BY <3>2, <3>3, <3>4 DEF WorkerScanned, Paged
  <2> QED BY <1>3, <1>10, <2>1, <2>2 DEF WorkerList
<1>11. CASE WorkerPersist(w)
  <2>1. \A v \in Workers \ {w} : WorkerScanned(v)'
    BY <1>0, <1>1, <1>11, OthersGrow DEF WorkerPersist, Goto, locals
  <2>2. at[w].seg \in Segments /\ at[w].mark \in Nat /\ page[w].to \in Nat
    BY <1>1, <1>11 DEF WorkerPersist, IInv, AllPlaced, WorkerPlaced, Looping
  <2>3. inventory' = inventory \cup Items(w)
    <3>1. inventory \cup Items(w) \in SUBSET Blobs
      BY <1>1, <1>11, ItemFacts DEF WorkerPersist, Paged
    <3> QED BY <1>11, <3>1, KeptAll DEF WorkerPersist
  <2>4. Before(at[w].seg, page[w].to) \subseteq inventory'
    BY <1>0, <2>2, <2>3, BeforePage DEF WorkerScanned, Items
  <2>5. WorkerScanned(w)'
    BY <1>0, <1>1, <1>11, <2>3, <2>4 DEF WorkerPersist, WorkerScanned, Goto, Paged, locals
  <2> QED BY <1>3, <1>11, <2>1, <2>5 DEF WorkerPersist
<1>12. CASE WorkerRead(w) \/ WorkerWrite(w) \/ WorkerWriteFails(w)
  <2>1. \A v \in Workers \ {w} : WorkerScanned(v)'
    BY <1>0, <1>1, <1>12, OthersGrow
       DEF WorkerRead, WorkerWrite, WorkerWriteFails, Goto, locals
  <2>2. WorkerScanned(w)'
    BY <1>0, <1>1, <1>12
       DEF WorkerRead, WorkerWrite, WorkerWriteFails, WorkerScanned, Goto, Paged, results, locals
  <2> QED BY <1>3, <1>12, <2>1, <2>2 DEF WorkerRead, WorkerWrite, WorkerWriteFails
<1>13. CASE WorkerRecord(w)
  <2>1. Scanned(job', inventory')
    BY <1>1, <1>2, <1>13, ScannedKept DEF WorkerRecord
  <2>2. \A v \in Workers \ {w} : WorkerScanned(v)'
    BY <1>0, <1>1, <1>13, OthersGrow DEF WorkerRecord, Goto, locals
  <2>3. WorkerScanned(w)'
    BY <1>0, <1>1, <1>13 DEF WorkerRecord, WorkerScanned, Goto, Paged, results, locals
  <2> QED BY <1>2, <1>13, <2>1, <2>2, <2>3 DEF WorkerRecord
<1>14. CASE WorkerAdvance(w)
  <2>1. Scanned(job', inventory')
    <3>1. Before(at[w].seg + 1, 0) \subseteq inventory'
      BY <1>0, <1>14 DEF WorkerAdvance, WorkerScanned
    <3>2. \/ job' = job
          \/ job' = Checkpointed(job, [seg |-> at[w].seg + 1, mark |-> 0,
                                       objs |-> objs[w].job])
      BY <1>14 DEF WorkerAdvance
    <3> QED BY <1>1, <1>2, <3>1, <3>2, ScannedKept
  <2>2. \A v \in Workers \ {w} : WorkerScanned(v)'
    BY <1>0, <1>1, <1>14, OthersGrow DEF WorkerAdvance, Goto
  <2>3. WorkerScanned(w)'
    BY <1>0, <1>1, <1>14 DEF WorkerAdvance, WorkerScanned, Goto, Paged, results
  <2> QED BY <1>2, <1>14, <2>1, <2>2, <2>3 DEF WorkerAdvance
<1>15. CASE WorkerComplete(w)
  <2>1. inventory = Blobs /\ inventory' = Blobs
    BY <1>0, <1>15 DEF WorkerComplete, WorkerScanned
  <2>2. Scanned(Transition(job, "completed"), inventory')
    BY <1>1, <1>2, <2>1, ScannedKept DEF Statuses
  <2>3. Scanned(job', inventory') /\ \A p \in Procs : Scanned(copy'[p], inventory')
    BY <1>1, <1>2, <1>15, <2>2 DEF WorkerComplete
  <2>4. \A v \in Workers : WorkerScanned(v)'
    BY <1>1, <1>4, <1>15 DEF WorkerComplete, Goto, results, locals, Paged
  <2> QED BY <2>3, <2>4
<1>16. CASE WriteBack(w)
  <2>1. Scanned(job', inventory') /\ \A p \in Procs : Scanned(copy'[p], inventory')
    BY <1>1, <1>2, <1>16, ScannedKept, ScannedInitially DEF WriteBack
  <2>2. \A v \in Workers : WorkerScanned(v)'
    BY <1>1, <1>4, <1>16 DEF WriteBack, Goto, results, locals, Paged
  <2> QED BY <2>1, <2>2
<1>17. CASE WorkerRelease(w)
  <2>1. Scanned(job', inventory')
    BY <1>1, <1>2, <1>17, ScannedKept DEF WorkerRelease
  <2>2. \A v \in Workers \ {w} : WorkerScanned(v)'
    BY <1>0, <1>1, <1>17, OthersGrow DEF WorkerRelease, Goto
  <2>3. (Before(at[w].seg, at[w].mark) \subseteq inventory)'
    BY <1>1, <1>17, BeforeStart DEF WorkerRelease, NoPlace
  <2>4. WorkerScanned(w)'
    BY <1>1, <1>17, <2>3, PlaceIsEnough DEF WorkerRelease, Goto, Paged
  <2> QED BY <1>2, <1>17, <2>1, <2>2, <2>4 DEF WorkerRelease
<1>18. CASE WorkerCheckpoint(w)
  <2>1. /\ at[w].seg \in Segments /\ at[w].mark \in Nat
        /\ page[w].to \in Nat /\ page[w].next \in {0, page[w].to}
        /\ Before(at[w].seg, page[w].to) \subseteq inventory
        /\ page[w].next = 0 => page[w].to = Len(Listing[at[w].seg])
    BY <1>0, <1>1, <1>18
       DEF WorkerCheckpoint, IInv, AllPlaced, WorkerPlaced, WorkerScanned, Looping, Paged
  <2>2. Before(at[w].seg, page[w].next) \subseteq inventory
    BY <2>1, ListingFacts, BeforeFirstPage
  <2>3. Scanned(job', inventory')
    <3> DEFINE cp == [seg |-> at[w].seg, mark |-> page[w].next,
                      objs |-> objs[w].current + (page[w].to - at[w].mark)]
    <3>1. job' = job \/ job' = Checkpointed(job, cp)
      BY <1>18 DEF WorkerCheckpoint
    <3>2. Before(cp.seg, cp.mark) \subseteq inventory'
      BY <2>2
    <3> HIDE DEF cp
    <3> QED BY <1>1, <1>2, <3>1, <3>2, ScannedKept
  <2>4. \A v \in Workers \ {w} : WorkerScanned(v)'
    BY <1>0, <1>1, <1>18, OthersGrow DEF WorkerCheckpoint, Goto
  <2>5. WorkerScanned(w)'
    <3>1. (Before(at[w].seg, at[w].mark) \subseteq inventory)'
      BY <1>0, <1>1, <1>18, <2>2 DEF WorkerCheckpoint, WorkerScanned, results
    <3>2. CASE pc'[w] = "advance"
      <4>1. page[w].to = Len(Listing[at[w].seg]) /\ at'[w].seg = at[w].seg
        BY <1>1, <1>18, <2>1, <3>2 DEF WorkerCheckpoint, AfterPage, Goto
      <4>2. Before(at[w].seg + 1, 0) \subseteq inventory'
        BY <2>1, <4>1, BeforeNextSegment
      <4> QED BY <3>1, <3>2, <4>1, <4>2 DEF WorkerScanned, Paged
    <3>3. CASE pc'[w] = "complete"
      <4>1. page[w].to = Len(Listing[at[w].seg]) /\ at[w].seg = Len(Listing)
        BY <1>1, <1>18, <2>1, <3>3, ListingFacts
           DEF WorkerCheckpoint, AfterPage, LimitReached, Goto, Unbounded
      <4>2. inventory' = Blobs
        BY <1>1, <2>1, <4>1, BeforeEnd
      <4> QED BY <3>1, <3>3, <4>2 DEF WorkerScanned, Paged
    <3>4. CASE pc'[w] \in {"error", "check"}
      BY <3>1, <3>4, PlaceIsEnough DEF Paged
    <3> QED BY <1>1, <1>18, <3>2, <3>3, <3>4 DEF WorkerCheckpoint, AfterPage, Goto
  <2> QED BY <1>2, <1>18, <2>3, <2>4, <2>5 DEF WorkerCheckpoint
<1> QED BY <1>5, <1>6, <1>7, <1>8, <1>9, <1>10, <1>11, <1>12, <1>13, <1>14, <1>15, <1>16,
           <1>17, <1>18 DEF WorkerStep

\* So does every step of a request, and whatever changes the job alone.
LEMMA OtherStepScanned ==
  ASSUME IInv, IInv', ScanInv, Unbounded, intact, intact',
         inventory \subseteq inventory', inventory' \subseteq Blobs,
         \/ \E o \in Operators : Request(o) \/ Finish(o)
         \/ Queue \/ OperatorFail \/ Reclaim \/ Reset \/ LeaseExpires
  PROVE  /\ Scanned(job', inventory')
         /\ \A p \in Procs : Scanned(copy'[p], inventory')
         /\ \A v \in Workers : WorkerScanned(v)'
<1>0. /\ Scanned(job, inventory)
      /\ \A p \in Procs : Scanned(copy[p], inventory)
      /\ \A v \in Workers : WorkerScanned(v)
  BY DEF ScanInv
<1>1. /\ job \in Jobs /\ copy \in [Procs -> Jobs] /\ pc \in [Procs -> Labels]
      /\ Workers \subseteq Procs /\ Operators \subseteq Procs
      /\ Workers \cap Operators = {}
  BY ScanAssumption DEF IInv, TypeOK, Procs
<1>2. /\ Scanned(job, inventory')
      /\ \A p \in Procs : Scanned(copy[p], inventory')
  BY <1>0, ScannedGrows
<1>3. ASSUME NEW o \in Operators, UNCHANGED <<at, page>>, pc' = [pc EXCEPT ![o] = pc'[o]]
      PROVE  \A v \in Workers : WorkerScanned(v)'
  BY <1>0, <1>1, <1>3, OthersGrow
<1>4. ASSUME NEW o \in Operators, ResumeGet(o)
      PROVE  /\ Scanned(job', inventory')
             /\ \A p \in Procs : Scanned(copy'[p], inventory')
             /\ \A v \in Workers : WorkerScanned(v)'
  BY <1>1, <1>2, <1>3, <1>4 DEF ResumeGet, Goto, locals
<1>5. ASSUME NEW o \in Operators, ResumeStore(o)
      PROVE  /\ Scanned(job', inventory')
             /\ \A p \in Procs : Scanned(copy'[p], inventory')
             /\ \A v \in Workers : WorkerScanned(v)'
  <2>1. Scanned(job', inventory')
    BY <1>1, <1>2, <1>5, ScannedKept DEF ResumeStore
  <2> QED BY <1>1, <1>2, <1>3, <1>5, <2>1 DEF ResumeStore, Goto, locals
<1>6. ASSUME NEW o \in Operators, NEW w \in Workers, StartWorker(o, w)
      PROVE  /\ Scanned(job', inventory')
             /\ \A p \in Procs : Scanned(copy'[p], inventory')
             /\ \A v \in Workers : WorkerScanned(v)'
  <2>1. \A v \in Workers \ {w} : WorkerScanned(v)'
    BY <1>0, <1>1, <1>6, OthersGrow DEF StartWorker, locals
  <2>2. WorkerScanned(w)'
    BY <1>0, <1>1, <1>6, PlaceIsEnough DEF StartWorker, WorkerScanned, Paged, results, locals
  <2> QED BY <1>2, <1>6, <2>1, <2>2 DEF StartWorker
<1>7. ASSUME NEW o \in Operators, WriteBack(o)
      PROVE  /\ Scanned(job', inventory')
             /\ \A p \in Procs : Scanned(copy'[p], inventory')
             /\ \A v \in Workers : WorkerScanned(v)'
  <2>1. Scanned(job', inventory')
    BY <1>1, <1>2, <1>7, ScannedKept DEF WriteBack
  <2>2. \A p \in Procs : Scanned(copy'[p], inventory')
    BY <1>1, <1>2, <1>7, ScannedInitially DEF WriteBack
  <2> QED BY <1>1, <1>3, <1>7, <2>1, <2>2 DEF WriteBack, Goto, locals
<1>8. ASSUME NEW o \in Operators, NEW request,
             NEW status \in {"paused", "cancelled", "completed"}, Steer(o, request, status)
      PROVE  /\ Scanned(job', inventory')
             /\ \A p \in Procs : Scanned(copy'[p], inventory')
             /\ \A v \in Workers : WorkerScanned(v)'
  <2>1. status # "completed"
    BY <1>8 DEF Steer
  <2>2. Scanned(Transition(job, status), inventory')
    BY <1>1, <1>2, <2>1, ScannedKept DEF Statuses
  <2>3. Scanned(job', inventory') /\ \A p \in Procs : Scanned(copy'[p], inventory')
    BY <1>1, <1>2, <1>8, <2>2 DEF Steer
  <2> QED BY <1>1, <1>3, <1>8, <2>3 DEF Steer, Goto, locals
<1>9. ASSUME UNCHANGED <<pc, copy, at, page>>, Scanned(job', inventory')
      PROVE  /\ \A p \in Procs : Scanned(copy'[p], inventory')
             /\ \A v \in Workers : WorkerScanned(v)'
  BY <1>0, <1>1, <1>2, <1>9, OthersGrow
<1>10. CASE Queue \/ Reset
  <2>1. Scanned(job', inventory')
    BY <1>2, <1>10, ScannedInitially DEF Queue, Reset
  <2> QED BY <1>9, <1>10, <2>1 DEF Queue, Reset, locals
<1>11. CASE OperatorFail \/ Reclaim
  <2>1. Scanned(Transition(job, "failed"), inventory') /\ Scanned(Reclaimed(job), inventory')
    BY <1>1, <1>2, ScannedKept DEF Statuses
  <2> QED BY <1>9, <1>11, <2>1 DEF OperatorFail, Reclaim, locals
<1>12. CASE LeaseExpires
  <2>1. Scanned(job', inventory')
    BY <1>1, <1>2, <1>12 DEF LeaseExpires, Scanned, Jobs
  <2> QED BY <1>9, <1>12, <2>1 DEF LeaseExpires, locals
<1> QED BY <1>4, <1>5, <1>6, <1>7, <1>8, <1>10, <1>11, <1>12 DEF Request, Finish

LEMMA ScanStep == IInv /\ IInv' /\ ScanInv /\ [Next]_vars => ScanInv'
<1> SUFFICES ASSUME IInv, IInv', ScanInv, [Next]_vars, Unbounded, intact'
             PROVE  /\ Scanned(job', inventory')
                    /\ Scanned(jobFile', inventory')
                    /\ \A p \in Procs : Scanned(copy'[p], inventory')
                    /\ \A v \in Workers : WorkerScanned(v)'
  BY DEF ScanInv
<1>1. intact /\ inventory \subseteq inventory' /\ inventory' \subseteq Blobs
  BY InventoryGrows DEF IInv, TypeOK
<1>7. Scanned(jobFile, inventory') /\ Scanned(GoneJob, inventory')
  BY <1>1, ScannedGrows, ScannedInitially DEF ScanInv
<1>8. ASSUME Saved, Scanned(job', inventory') PROVE Scanned(jobFile', inventory')
  BY <1>7, <1>8 DEF Saved
<1>2. CASE UNCHANGED vars
  BY <1>1, <1>2 DEF vars, results, locals, ScanInv, WorkerScanned
<1>3. CASE (\E w \in Workers : WorkerStep(w)) /\ Saved
  BY <1>1, <1>3, <1>8, WorkerStepScanned
<1>4. CASE /\ \/ \E o \in Operators : Request(o) \/ Finish(o)
              \/ Queue \/ OperatorFail \/ Reclaim \/ Reset \/ LeaseExpires
           /\ Saved
  BY <1>1, <1>4, <1>8, OtherStepScanned
<1>5. CASE OperatorCheckpoint \/ CrashTearsFile
  BY <1>5 DEF OperatorCheckpoint, CrashTearsFile
<1>6. CASE Crash
  <2>1. /\ Scanned(job', inventory') /\ Scanned(jobFile', inventory')
        /\ \A p \in Procs : Scanned(copy'[p], inventory')
    BY <1>6, <1>7, ScannedInitially DEF Crash, ProcessesDie
  <2>2. \A v \in Workers : WorkerScanned(v)'
    BY <1>6, BeforeStart DEF Crash, ProcessesDie, WorkerScanned, NoPlace, Procs, Paged
  <2> QED BY <2>1, <2>2
<1> QED BY <1>2, <1>3, <1>4, <1>5, <1>6 DEF Next, Step

LEMMA InitScanned == Init => ScanInv
<1> SUFFICES ASSUME Init PROVE ScanInv
  OBVIOUS
<1>1. Scanned(NoJob, inventory)
  BY ScannedInitially
<1>2. \A w \in Workers : WorkerScanned(w)
  BY BeforeStart DEF Init, WorkerScanned, NoPlace, Paged, Procs
<1> QED BY <1>1, <1>2 DEF Init, ScanInv

LEMMA AlwaysScanned == Spec => [](IInv /\ ScanInv)
<1>1. IInv /\ ScanInv /\ [Next]_vars => (IInv /\ ScanInv)'
  BY NextIInv, ScanStep
<1> QED BY <1>1, InitIInv, InitScanned, PTL DEF Spec

-----------------------------------------------------------------------------
\* A resumed scan skips nothing, whatever wrote the checkpoint: for every account
\* that fits the portal state, page size, and number of workers and requests.
THEOREM NothingIsSkipped == Spec => []NoSkip
<1>1. ScanInv => NoSkip
  BY DEF ScanInv, Scanned, NoSkip
<1> QED BY <1>1, AlwaysScanned, PTL

\* A job that a worker completed has delivered all of its blobs.
THEOREM CompletedMeansScanned == Spec => []CompletedIsScanned
<1>1. ScanInv => CompletedIsScanned
  BY DEF ScanInv, Scanned, CompletedIsScanned
<1> QED BY <1>1, AlwaysScanned, PTL

-----------------------------------------------------------------------------
(* The normalized file. *)

\* The file, and what each worker has read of it, hold one record per blob.
RecordsInv ==
  /\ ArtifactUnique
  /\ \A w \in Workers : \A b \in Blobs : snap[w][b] <= 1

LEMMA RecordsStep == TypeOK /\ RecordsInv /\ [Next]_vars => RecordsInv'
<1> SUFFICES ASSUME TypeOK, RecordsInv, [Next]_vars PROVE RecordsInv'
  OBVIOUS
<1> USE DEF RecordsInv, ArtifactUnique
<1>1. CASE UNCHANGED <<artifact, snap>>
  BY <1>1
<1>2. ASSUME NEW w \in Workers, WorkerRead(w)
      PROVE  RecordsInv'
  BY <1>2 DEF WorkerRead, results, TypeOK
<1>3. ASSUME NEW w \in Workers, WorkerWrite(w)
      PROVE  RecordsInv'
  <2>1. \A b \in Blobs : Appended(w)[b] <= 1
    BY DEF Appended, Unseen, TypeOK
  <2> QED BY <1>3, <2>1 DEF WorkerWrite, locals
<1>4. ASSUME NEW w \in Workers, WorkerWriteFails(w)
      PROVE  RecordsInv'
  BY <1>4 DEF WorkerWriteFails, locals, NoRecords
<1>5. ASSUME NEW w \in Workers, WorkerCheckpoint(w)
      PROVE  RecordsInv'
  BY <1>5 DEF WorkerCheckpoint, results, NoRecords, TypeOK
<1>6. CASE Reset
  BY <1>6 DEF Reset, results, locals, NoRecords
<1>7. CASE Crash \/ CrashTearsFile
  BY <1>7 DEF Crash, CrashTearsFile, ProcessesDie, results, NoRecords
<1>8. ASSUME NEW w \in Workers, WorkerStep(w)
      PROVE  \/ WorkerRead(w) \/ WorkerWrite(w) \/ WorkerWriteFails(w) \/ WorkerCheckpoint(w)
             \/ UNCHANGED <<artifact, snap>>
  <2>1. CASE \/ WorkerGet(w) \/ WorkerResume(w) \/ WorkerAcquire(w) \/ WorkerClient(w)
             \/ WorkerCheck(w) \/ WorkerHeartbeat(w) \/ WorkerList(w)
    BY <2>1 DEF WorkerGet, WorkerResume, WorkerAcquire, WorkerClient, WorkerCheck,
                WorkerHeartbeat, WorkerList, results, locals
  <2>2. CASE \/ WorkerRetry(w) \/ WorkerListFails(w) \/ WorkerPersist(w) \/ WorkerRecord(w)
             \/ WorkerAdvance(w) \/ WorkerComplete(w)
    BY <2>2 DEF WorkerRetry, WorkerListFails, WorkerPersist, WorkerRecord, WorkerAdvance,
                WorkerComplete, results, locals
  <2>3. CASE WriteBack(w) \/ WorkerRelease(w) \/ WorkerFail(w)
    BY <2>3 DEF WriteBack, WorkerRelease, WorkerFail, results, locals
  <2> QED BY <1>8, <2>1, <2>2, <2>3 DEF WorkerStep
<1>9. ASSUME NEW o \in Operators, Request(o) \/ Finish(o)
      PROVE  UNCHANGED <<artifact, snap>>
  BY <1>9 DEF Request, Finish, ResumeGet, Steer, ResumeStore, StartWorker, WriteBack,
              results, locals
<1>10. CASE Queue \/ OperatorFail \/ OperatorCheckpoint \/ Reclaim \/ LeaseExpires
  BY <1>1, <1>10 DEF Queue, OperatorFail, OperatorCheckpoint, Reclaim, LeaseExpires,
                     results, locals
<1>11. CASE UNCHANGED vars
  BY <1>1, <1>11 DEF vars, results, locals
<1> QED BY <1>1, <1>2, <1>3, <1>4, <1>5, <1>6, <1>7, <1>8, <1>9, <1>10, <1>11 DEF Next, Step

\* No interleaving of rewrites, failed writes or crashes doubles a record.
THEOREM ArtifactIsUnique == Spec => []ArtifactUnique
<1>1. Init => RecordsInv
  BY DEF Init, RecordsInv, ArtifactUnique, NoRecords
<1>2. RecordsInv => ArtifactUnique
  BY DEF RecordsInv
<1> QED BY <1>1, <1>2, RecordsStep, TypeCorrect, PTL DEF Spec

-----------------------------------------------------------------------------
(* Stopping between pages. *)

\* A worker lists a page only after a look at the job.
LEMMA ListsAfterCheck ==
  ASSUME TypeOK, [Next]_vars, NEW w \in Workers
  PROVE  /\ pc'[w] = "heartbeat" => pc[w] = "heartbeat" \/ ~Stopped(job')
         /\ pc'[w] = "list" => pc[w] \in {"heartbeat", "list"}
<1> SUFFICES ASSUME pc'[w] \in {"heartbeat", "list"}, pc'[w] # pc[w]
             PROVE  \/ pc'[w] = "heartbeat" /\ ~Stopped(job')
                    \/ pc'[w] = "list" /\ pc[w] = "heartbeat"
  OBVIOUS
<1>0. pc \in [Procs -> Labels] /\ Workers \subseteq Procs /\ Operators \subseteq Procs
      /\ Operators \cap Workers = {}
  BY ScanAssumption DEF TypeOK, Procs
<1> USE <1>0 DEF Goto
<1>1. ASSUME NEW v \in Workers, WorkerStep(v), v # w PROVE FALSE
  <2>1. CASE WorkerGet(v) \/ WorkerResume(v) \/ WorkerAcquire(v) \/ WorkerClient(v) \/ WorkerCheck(v)
    BY <1>1, <2>1 DEF WorkerGet, WorkerResume, WorkerAcquire, WorkerClient, WorkerCheck
  <2>2. CASE \/ WorkerHeartbeat(v) \/ WorkerList(v) \/ WorkerRetry(v) \/ WorkerListFails(v)
             \/ WorkerPersist(v) \/ WorkerRead(v) \/ WorkerWrite(v) \/ WorkerWriteFails(v)
    BY <1>1, <2>2 DEF WorkerHeartbeat, WorkerList, WorkerRetry, WorkerListFails, WorkerPersist,
                      WorkerRead, WorkerWrite, WorkerWriteFails
  <2>3. CASE \/ WorkerRecord(v) \/ WorkerCheckpoint(v) \/ WorkerAdvance(v) \/ WorkerComplete(v)
             \/ WriteBack(v) \/ WorkerRelease(v) \/ WorkerFail(v)
    BY <1>1, <2>3 DEF WorkerRecord, WorkerCheckpoint, WorkerAdvance, WorkerComplete, WriteBack,
                      WorkerRelease, WorkerFail
  <2> QED BY <1>1, <2>1, <2>2, <2>3 DEF WorkerStep
<1>2. CASE WorkerStep(w)
  <2>1. CASE WorkerCheck(w)
    BY <2>1 DEF WorkerCheck, StopRequested, Stopped
  <2>2. CASE WorkerHeartbeat(w)
    BY <2>2 DEF WorkerHeartbeat
  <2>3. CASE WorkerGet(w) \/ WorkerResume(w) \/ WorkerAcquire(w) \/ WorkerClient(w)
    BY <2>3 DEF WorkerGet, WorkerResume, WorkerAcquire, WorkerClient
  <2>4. CASE \/ WorkerList(w) \/ WorkerRetry(w) \/ WorkerListFails(w)
             \/ WorkerPersist(w) \/ WorkerRead(w) \/ WorkerWrite(w) \/ WorkerWriteFails(w)
    BY <2>4 DEF WorkerList, WorkerRetry, WorkerListFails, WorkerPersist,
                WorkerRead, WorkerWrite, WorkerWriteFails
  <2>5. CASE \/ WorkerRecord(w) \/ WorkerCheckpoint(w) \/ WorkerAdvance(w) \/ WorkerComplete(w)
             \/ WriteBack(w) \/ WorkerRelease(w) \/ WorkerFail(w)
    BY <2>5 DEF WorkerRecord, WorkerCheckpoint, AfterPage, WorkerAdvance, WorkerComplete,
                WriteBack, WorkerRelease, WorkerFail
  <2> QED BY <1>2, <2>1, <2>2, <2>3, <2>4, <2>5 DEF WorkerStep
<1>3. ASSUME NEW o \in Operators, Request(o) \/ Finish(o) PROVE FALSE
  BY <1>3 DEF Request, Finish, ResumeGet, Steer, ResumeStore, StartWorker, WriteBack
<1>4. CASE Queue \/ OperatorFail \/ OperatorCheckpoint \/ Reclaim \/ Reset \/ LeaseExpires
  BY <1>4 DEF Queue, OperatorFail, OperatorCheckpoint, Reclaim, Reset, LeaseExpires
<1>5. CASE Crash \/ CrashTearsFile
  BY <1>5 DEF Crash, CrashTearsFile, ProcessesDie
<1>6. CASE UNCHANGED vars
  BY <1>6 DEF vars
<1> QED BY <1>1, <1>2, <1>3, <1>4, <1>5, <1>6 DEF Next, Step

\* A worker that is about to list has listed nothing since the job was stopped.
StopInv ==
  /\ overrun \in [Workers -> Nat]
  /\ \A w \in Workers : /\ overrun[w] <= 1
                        /\ pc[w] \in {"heartbeat", "list"} => overrun[w] = 0

\* Pause and cancel stop a worker between pages, wherever the two halves of the
\* request fall, whatever fails, and whoever else writes the job.
THEOREM PagesStop == StopSpec => []StopsWithinPage
<1>1. StopInit => StopInv
  BY DEF StopInit, StopInv
<1>2. StopInv => StopsWithinPage
  BY DEF StopInv, StopsWithinPage
<1>3. ASSUME TypeOK, StopInv, [StopNext]_stopVars PROVE StopInv'
  <2>1. CASE UNCHANGED stopVars
    BY <1>3, <2>1 DEF stopVars, vars, StopInv
  <2>2. CASE StopNext
    <3>1. overrun' = [w \in Workers |-> IF ~Stopped(job') THEN 0
                                        ELSE overrun[w] + (IF ListsPage(w) THEN 1 ELSE 0)]
      BY <2>2 DEF StopNext
    <3>2. overrun' \in [Workers -> Nat]
      BY <1>3, <3>1 DEF StopInv
    <3>3. ASSUME NEW w \in Workers
          PROVE  overrun'[w] <= 1 /\ (pc'[w] \in {"heartbeat", "list"} => overrun'[w] = 0)
      <4>1. CASE ~Stopped(job')
        BY <3>1, <4>1
      <4>2. CASE Stopped(job')
        <5>1. overrun'[w] = overrun[w] + (IF ListsPage(w) THEN 1 ELSE 0)
          BY <3>1, <4>2
        <5>2. pc'[w] \in {"heartbeat", "list"} => pc[w] \in {"heartbeat", "list"}
          BY <1>3, <2>2, <4>2, ListsAfterCheck DEF StopNext
        <5>3. ListsPage(w) => pc[w] = "list" /\ pc'[w] \in {"persist", "checkpoint"}
          BY DEF ListsPage
        <5> QED BY <1>3, <5>1, <5>2, <5>3 DEF StopInv
      <4> QED BY <4>1, <4>2
    <3> QED BY <3>2, <3>3 DEF StopInv
  <2> QED BY <1>3, <2>1, <2>2
<1>4. StopInit => Init
  BY DEF StopInit
<1>5. [StopNext]_stopVars => [Next]_vars
  BY DEF StopNext, stopVars
<1>6. IInv => TypeOK
  BY DEF IInv
<1> QED BY <1>1, <1>2, <1>3, <1>4, <1>5, <1>6, InitIInv, NextIInv, PTL DEF StopSpec

-----------------------------------------------------------------------------
(* Progress and limit, while one worker scans, nobody moves the checkpoint and *)
(* no save of the job or the inventory fails.                                  *)

Unmoved ==
  LeaseUndisturbed /\ "checkpoint" \notin Requests /\ "unsaved" \notin Faults

Slice(s, from, to) == {Listing[s][i] : i \in from + 1 .. to}

\* The page that is listed next, by whoever resumes at the stored checkpoint.
NextPage(cp) == ListedPage([seg |-> cp.seg, mark |-> cp.mark], cp.objs)

NextItems(cp) ==
  IF cp.seg \in Segments THEN Slice(cp.seg, cp.mark, NextPage(cp).to) ELSE {}

\* The worker that holds the lease is where the stored checkpoint is.
Follows(w) ==
  Holding(w) =>
    /\ Exists(job)
    /\ at[w].seg = job.cp.seg /\ at[w].mark = job.cp.mark
    /\ objs[w].job = job.cp.objs
    /\ pc[w] \in {"heartbeat", "list"} \cup Paged => objs[w].current = job.cp.objs
    /\ pc[w] \in Paged => page[w] = NextPage(job.cp)
    /\ pc[w] = "advance" => Cardinality(inventory) <= job.cp.objs
    /\ pc[w] = "writeback" => copy[w].cp = job.cp /\ Exists(copy[w])

\* What is stored, but for the next page, was counted; only that page is stored
\* before it is counted.  The file has the job as it is.
CountInv ==
  /\ jobFile = job
  /\ \A w \in Workers : Follows(w)
  /\ job.status = "none" => job.cp.objs = 0 /\ inventory = {}
  /\ Exists(job) => Cardinality(inventory \ NextItems(job.cp)) <= job.cp.objs
  /\ LimitKept

\* A page holds at most as many blobs as it has entries, and what the limit leaves.
LEMMA SliceFacts ==
  ASSUME NEW s \in Segments, NEW m \in Nat, NEW t \in Nat, m <= t, t <= Len(Listing[s])
  PROVE  /\ IsFiniteSet(Slice(s, m, t))
         /\ Cardinality(Slice(s, m, t)) \in Nat
         /\ Cardinality(Slice(s, m, t)) <= t - m
<1> DEFINE D == m + 1 .. t
           f == [i \in D |-> Listing[s][i]]
<1>1. IsFiniteSet(D) /\ Cardinality(D) = t - m
  <2>1. m + 1 \in Int /\ t \in Int
    OBVIOUS
  <2>2. /\ IsFiniteSet(m + 1 .. t)
        /\ Cardinality(m + 1 .. t) = IF m + 1 > t THEN 0 ELSE t - (m + 1) + 1
    BY <2>1, FS_Interval
  <2> QED BY <2>2
<1>2. f \in Surjection(D, Slice(s, m, t))
  BY DEF Surjection, Slice
<1>3. IsFiniteSet(Slice(s, m, t)) /\ Cardinality(Slice(s, m, t)) <= Cardinality(D)
  BY <1>1, <1>2, FS_Surjection
<1> QED BY <1>1, <1>3, FS_CardinalityType

LEMMA NextPageFacts ==
  ASSUME NEW cp \in Checkpoints, cp.seg \in Segments, Placed(cp)
  PROVE  /\ NextPage(cp).to \in Nat
         /\ cp.mark <= NextPage(cp).to
         /\ NextPage(cp).to <= Len(Listing[cp.seg])
         /\ Limit > 0 /\ cp.objs <= Limit => cp.objs + (NextPage(cp).to - cp.mark) <= Limit
<1> DEFINE place == [seg |-> cp.seg, mark |-> cp.mark]
<1>1. /\ place \in [seg : Nat, mark : Nat] /\ place.seg = cp.seg /\ place.mark = cp.mark
      /\ Placed(place)
  BY DEF Placed
<1>2. /\ NextPage(cp).to \in Nat /\ cp.mark <= NextPage(cp).to
      /\ NextPage(cp).to <= Len(Listing[cp.seg])
  BY <1>1, ListedPageFacts DEF NextPage
<1>3. Limit > 0 /\ cp.objs <= Limit => cp.objs + (NextPage(cp).to - cp.mark) <= Limit
  <2> DEFINE len  == Len(Listing[cp.seg])
             size == IF Limit > 0 /\ Remaining(cp.objs) < PageSize
                     THEN Remaining(cp.objs) ELSE PageSize
             to   == IF cp.mark + size < len THEN cp.mark + size ELSE len
  <2>1. NextPage(cp).to = IF size = 0 THEN cp.mark ELSE to
    BY <1>1 DEF NextPage, ListedPage
  <2>2. /\ len \in Nat /\ size \in Nat /\ cp.mark \in Nat /\ cp.objs \in Nat
        /\ cp.mark <= len
    BY ListingFacts, ScanAssumption DEF Remaining, Placed
  <2>3. Limit > 0 /\ cp.objs <= Limit => cp.objs + size <= Limit
    BY ScanAssumption DEF Remaining
  <2> HIDE DEF len, size
  <2>4. NextPage(cp).to <= cp.mark + size
    BY <2>1, <2>2
  <2> QED BY <1>2, <2>2, <2>3, <2>4, ScanAssumption
<1> QED BY <1>2, <1>3

\* What the holder of the lease is about to store and to count.
LEMMA PageCounts ==
  ASSUME IInv, NEW w \in Workers, Follows(w), pc[w] \in Paged,
         Cardinality(inventory \ NextItems(job.cp)) <= job.cp.objs,
         NEW S \in SUBSET (inventory \cup Items(w))
  PROVE  /\ Items(w) = NextItems(job.cp)
         /\ page[w].to \in Nat /\ at[w].mark \in Nat /\ at[w].mark <= page[w].to
         /\ job.cp.objs \in Nat
         /\ IsFiniteSet(S) /\ Cardinality(S) \in Nat
         /\ Cardinality(S) <= job.cp.objs + (page[w].to - at[w].mark)
         /\ Limit > 0 /\ job.cp.objs <= Limit =>
              job.cp.objs + (page[w].to - at[w].mark) <= Limit
<1> DEFINE N == Slice(job.cp.seg, job.cp.mark, NextPage(job.cp).to)
<1>1. /\ at[w].seg = job.cp.seg /\ at[w].mark = job.cp.mark /\ page[w] = NextPage(job.cp)
  BY DEF Follows, Holding, Paged
<1>2. /\ job.cp \in Checkpoints /\ job.cp.seg \in Segments /\ Placed(job.cp)
      /\ job.cp.objs \in Nat /\ job.cp.mark \in Nat
  BY <1>1 DEF IInv, AllPlaced, WorkerPlaced, Looping, Paged, TypeOK, Jobs
<1>3. /\ NextPage(job.cp).to \in Nat /\ job.cp.mark <= NextPage(job.cp).to
      /\ NextPage(job.cp).to <= Len(Listing[job.cp.seg])
      /\ Limit > 0 /\ job.cp.objs <= Limit =>
           job.cp.objs + (NextPage(job.cp).to - job.cp.mark) <= Limit
  BY <1>2, NextPageFacts
<1>4. Items(w) = N /\ NextItems(job.cp) = N
  BY <1>1, <1>2 DEF Items, NextItems, Slice
<1>5. IsFiniteSet(N) /\ Cardinality(N) \in Nat
      /\ Cardinality(N) <= NextPage(job.cp).to - job.cp.mark
  BY <1>2, <1>3, SliceFacts
<1> DEFINE R == inventory \ N
<1>6. IsFiniteSet(R) /\ Cardinality(R) \in Nat /\ Cardinality(R) <= job.cp.objs
  <2>1. IsFiniteSet(R)
    BY ScanAssumption, FS_Subset DEF IInv, TypeOK
  <2> QED BY <1>4, <2>1, FS_CardinalityType
<1> HIDE DEF N
<1>7. IsFiniteSet(R \cup N) /\ Cardinality(R \cup N) <= Cardinality(R) + Cardinality(N)
      /\ Cardinality(R \cup N) \in Nat
  <2> HIDE DEF R
  <2>1. IsFiniteSet(R \cap N) /\ Cardinality(R \cap N) \in Nat
    BY <1>6, FS_Subset, FS_CardinalityType
  <2>2. IsFiniteSet(R \cup N)
        /\ Cardinality(R \cup N) = Cardinality(R) + Cardinality(N) - Cardinality(R \cap N)
    BY <1>5, <1>6, FS_Union
  <2>3. Cardinality(R \cup N) \in Nat
    BY <2>2, FS_CardinalityType
  <2> QED BY <1>5, <1>6, <2>1, <2>2, <2>3
<1>8. IsFiniteSet(S) /\ Cardinality(S) \in Nat /\ Cardinality(S) <= Cardinality(R \cup N)
  <2>1. S \subseteq R \cup N
    BY <1>4
  <2> QED BY <1>7, <2>1, FS_Subset, FS_CardinalityType
<1> HIDE DEF R
<1>9. Cardinality(S) <= job.cp.objs + (page[w].to - at[w].mark)
  BY <1>1, <1>2, <1>3, <1>5, <1>6, <1>7, <1>8
<1> QED BY <1>1, <1>2, <1>3, <1>4, <1>8, <1>9

\* A worker's state is its own, but for a crash.
WorkersOwn(w) == <<pc[w], at[w], objs[w], page[w], copy[w], snap[w]>>

LEMMA WorkersFrame ==
  ASSUME TypeOK, [Next]_vars, NEW w \in Workers
  PROVE  UNCHANGED WorkersOwn(w) \/ WorkerStep(w) \/ ~Holding(w)'
<1>0. /\ pc \in [Procs -> Labels] /\ copy \in [Procs -> Jobs]
      /\ at \in [Workers -> [seg : Nat, mark : Nat]]
      /\ objs \in [Workers -> [job : Nat, current : Nat]]
      /\ page \in [Workers -> [to : Nat, next : Nat]]
      /\ snap \in [Workers -> [Blobs -> Nat]]
      /\ Workers \subseteq Procs /\ Operators \subseteq Procs /\ Operators \cap Workers = {}
  BY ScanAssumption DEF TypeOK, Procs
<1> USE <1>0 DEF Goto, WorkersOwn, locals
<1>1. ASSUME NEW v \in Workers, WorkerStep(v), v # w PROVE UNCHANGED WorkersOwn(w)
  <2>1. CASE WorkerGet(v) \/ WorkerResume(v) \/ WorkerAcquire(v) \/ WorkerClient(v) \/ WorkerCheck(v)
    BY <1>1, <2>1 DEF WorkerGet, WorkerResume, WorkerAcquire, WorkerClient, WorkerCheck
  <2>2. CASE \/ WorkerHeartbeat(v) \/ WorkerList(v) \/ WorkerRetry(v) \/ WorkerListFails(v)
             \/ WorkerPersist(v) \/ WorkerRead(v) \/ WorkerWrite(v) \/ WorkerWriteFails(v)
    BY <1>1, <2>2 DEF WorkerHeartbeat, WorkerList, WorkerRetry, WorkerListFails, WorkerPersist,
                      WorkerRead, WorkerWrite, WorkerWriteFails
  <2>3. CASE WorkerRecord(v) \/ WorkerAdvance(v) \/ WorkerComplete(v) \/ WriteBack(v)
             \/ WorkerRelease(v) \/ WorkerFail(v)
    BY <1>1, <2>3 DEF WorkerRecord, WorkerAdvance, WorkerComplete, WriteBack, WorkerRelease,
                      WorkerFail
  <2>4. CASE WorkerCheckpoint(v)
    BY <1>1, <2>4 DEF WorkerCheckpoint
  <2> QED BY <1>1, <2>1, <2>2, <2>3, <2>4 DEF WorkerStep
<1>2. ASSUME NEW o \in Operators, Request(o) \/ Finish(o)
      PROVE  UNCHANGED WorkersOwn(w) \/ ~Holding(w)'
  <2>1. CASE Request(o) \/ ResumeStore(o) \/ WriteBack(o)
    BY <1>2, <2>1 DEF Request, ResumeGet, Steer, ResumeStore, WriteBack
  <2>2. ASSUME NEW v \in Workers, StartWorker(o, v)
        PROVE  UNCHANGED WorkersOwn(w) \/ ~Holding(w)'
    <3>1. pc' = [pc EXCEPT ![o] = "idle", ![v] = "get"] /\ UNCHANGED <<copy, at, objs, page, snap>>
      BY <2>2 DEF StartWorker
    <3>2. pc'[w] = pc[w] \/ pc'[w] = "get"
      BY <3>1
    <3> QED BY <3>1, <3>2 DEF Holding
  <2> QED BY <1>2, <2>1, <2>2 DEF Finish
<1>3. CASE Queue \/ OperatorFail \/ OperatorCheckpoint \/ Reclaim \/ Reset \/ LeaseExpires
  BY <1>3 DEF Queue, OperatorFail, OperatorCheckpoint, Reclaim, Reset, LeaseExpires
<1>4. CASE Crash \/ CrashTearsFile
  BY <1>4 DEF Crash, CrashTearsFile, ProcessesDie, Holding
<1>5. CASE UNCHANGED vars
  BY <1>5 DEF vars
<1> QED BY <1>1, <1>2, <1>3, <1>4, <1>5 DEF Next, Step

\* The steps of a worker that move the checkpoint, or store a page.
Moves(w) ==
  \/ WorkerPersist(w)
  \/ WorkerCheckpoint(w) /\ Exists(job)
  \/ WorkerAdvance(w)
  \/ WriteBack(w)

SameProgress ==
  /\ job'.cp = job.cp
  /\ inventory' = inventory
  /\ Exists(job) <=> Exists(job')
  /\ job'.status = "none" <=> job.status = "none"

LEMMA JobFrame ==
  ASSUME Unmoved, TypeOK, HoldsInv, jobFile = job, [Next]_vars
  PROVE  \/ SameProgress
         \/ Queue
         \/ CrashTearsFile
         \/ \E w \in Workers : Moves(w)
<1>0. /\ job \in Jobs /\ copy \in [Procs -> Jobs]
      /\ {"completed", "failed", "running", "paused"} \subseteq Statuses
  BY DEF TypeOK
<1> USE <1>0 DEF results, Exists
<1>1. ASSUME NEW w \in Workers, WorkerStep(w), ~Moves(w) PROVE SameProgress
  <2>1. CASE WorkerResume(w)
    BY <2>1, KeepCheckpoint, StatusFields DEF WorkerResume, ResumeRefused, SameProgress
  <2>2. CASE WorkerAcquire(w) \/ WorkerHeartbeat(w)
    BY <2>2, LeasedKeeps, StatusFields DEF WorkerAcquire, WorkerHeartbeat, SameProgress
  <2>3. CASE WorkerRelease(w)
    BY <2>3, KeepCheckpoint, StatusFields DEF WorkerRelease, SameProgress
  <2>4. CASE WorkerComplete(w) \/ WorkerFail(w)
    <3>1. \/ UNCHANGED job
          \/ /\ Exists(job)
             /\ \E s \in {"completed", "failed"} : job' = Transition(job, s)
      BY <2>4 DEF WorkerComplete, WorkerFail
    <3>2. inventory' = inventory
      BY <2>4 DEF WorkerComplete, WorkerFail
    <3> QED BY <3>1, <3>2, TransitionKeeps, StatusFields DEF SameProgress
  <2>5. CASE WorkerRecord(w)
    <3>1. UNCHANGED job \/ \E n : job' = NormalizedWritten(job, n)
      BY <2>5 DEF WorkerRecord
    <3>2. \A n : NormalizedWritten(job, n).cp = job.cp
      BY DEF NormalizedWritten, Jobs
    <3> QED BY <2>5, <3>1, <3>2, StatusFields DEF WorkerRecord, SameProgress
  <2>6. CASE WorkerCheckpoint(w)
    BY <1>1, <2>6 DEF Moves, WorkerCheckpoint, SameProgress
  <2>7. CASE \/ WorkerGet(w) \/ WorkerClient(w) \/ WorkerCheck(w)
             \/ WorkerList(w) \/ WorkerRetry(w) \/ WorkerListFails(w)
             \/ WorkerRead(w) \/ WorkerWrite(w) \/ WorkerWriteFails(w)
    BY <2>7 DEF WorkerGet, WorkerClient, WorkerCheck, WorkerList, WorkerRetry, WorkerListFails,
                WorkerRead, WorkerWrite, WorkerWriteFails, SameProgress
  <2> QED BY <1>1, <2>1, <2>2, <2>3, <2>4, <2>5, <2>6, <2>7 DEF WorkerStep, Moves
<1>2. ASSUME NEW o \in Operators, Request(o) \/ Finish(o) PROVE SameProgress
  <2>1. ~WriteBack(o) /\ ~Steer(o, "pause", "paused") /\ ~Steer(o, "cancel", "cancelled")
        /\ ~Steer(o, "complete", "completed")
    BY DEF HoldsInv, WriteBack, Steer, Unmoved, LeaseUndisturbed
  <2>2. CASE ResumeStore(o)
    BY <2>2, KeepCheckpoint, StatusFields DEF ResumeStore, ResumeRefused, SameProgress
  <2>3. CASE ResumeGet(o) \/ \E w \in Workers : StartWorker(o, w)
    BY <2>3 DEF ResumeGet, StartWorker, SameProgress
  <2> QED BY <1>2, <2>1, <2>2, <2>3 DEF Request, Finish
<1>3. CASE OperatorFail
  <2>1. Exists(job) /\ job' = Transition(job, "failed") /\ inventory' = inventory
    BY <1>3 DEF OperatorFail
  <2> QED BY <2>1, TransitionKeeps, StatusFields DEF SameProgress
<1>4. CASE Reclaim
  BY <1>4, KeepCheckpoint, StatusFields DEF Reclaim, Stale, SameProgress
<1>5. CASE LeaseExpires
  BY <1>5 DEF LeaseExpires, Jobs, SameProgress
<1>6. CASE Crash \/ UNCHANGED vars
  BY <1>6 DEF Crash, vars, SameProgress, Unmoved
<1>7. ~OperatorCheckpoint /\ ~Reset
  BY DEF OperatorCheckpoint, Reset, Unmoved, LeaseUndisturbed
<1> QED BY <1>1, <1>2, <1>3, <1>4, <1>5, <1>6, <1>7 DEF Next, Step

\* One worker at a time moves the checkpoint.
LEMMA MoverHolds ==
  ASSUME HoldsInv, NEW w \in Workers, Moves(w), NEW v \in Workers, Holding(v)
  PROVE  v = w
<1>1. Holding(w)
  BY DEF Moves, WorkerPersist, WorkerCheckpoint, WorkerAdvance, WriteBack, Holding
<1> QED BY <1>1 DEF HoldsInv

\* The worker that moves the checkpoint keeps the count.
LEMMA MoveCounts ==
  ASSUME IInv, HoldsInv, CountInv, NEW w \in Workers, Moves(w)
  PROVE  /\ Exists(job')
         /\ job'.cp.objs >= job.cp.objs
         /\ Cardinality(inventory' \ NextItems(job'.cp)) <= job'.cp.objs
         /\ LimitKept'
         /\ Follows(w)'
<1>0. /\ Holding(w) /\ Follows(w) /\ Exists(job)
      /\ Cardinality(inventory \ NextItems(job.cp)) <= job.cp.objs
      /\ LimitKept
  BY DEF CountInv, Follows, Holding, Moves, WorkerPersist, WorkerCheckpoint, WorkerAdvance, WriteBack
<1>1. /\ job \in Jobs /\ job.cp \in Checkpoints /\ job.cp.objs \in Nat
      /\ copy \in [Procs -> Jobs] /\ w \in Procs
      /\ pc \in [Procs -> Labels]
      /\ at \in [Workers -> [seg : Nat, mark : Nat]]
      /\ objs \in [Workers -> [job : Nat, current : Nat]]
      /\ page \in [Workers -> [to : Nat, next : Nat]]
      /\ IsFiniteSet(inventory) /\ Cardinality(inventory) \in Nat
      /\ Limit \in Nat
  <2>1. IsFiniteSet(inventory)
    BY ScanAssumption, FS_Subset DEF IInv, TypeOK
  <2> QED BY <2>1, ScanAssumption, FS_CardinalityType DEF IInv, TypeOK, Jobs, Procs
<1>2. \A S : /\ IsFiniteSet(inventory \ S) /\ Cardinality(inventory \ S) \in Nat
             /\ Cardinality(inventory \ S) <= Cardinality(inventory)
  BY <1>1, FS_Subset, FS_CardinalityType
<1>3. CASE WorkerPersist(w)
  <2>1. /\ pc[w] = "persist" /\ pc'[w] = "read"
        /\ UNCHANGED <<job, copy, at, objs, page>>
        /\ inventory' \subseteq inventory \cup Items(w)
    BY <1>1, <1>3, KeptSubset DEF WorkerPersist, Goto, locals
  <2>2. /\ Items(w) = NextItems(job.cp)
        /\ Cardinality(inventory') \in Nat
        /\ Cardinality(inventory') <= job.cp.objs + (page[w].to - at[w].mark)
        /\ page[w].to \in Nat /\ at[w].mark \in Nat
        /\ Limit > 0 /\ job.cp.objs <= Limit =>
             job.cp.objs + (page[w].to - at[w].mark) <= Limit
    BY <1>0, <2>1, PageCounts DEF Paged
  <2>3. Cardinality(inventory' \ NextItems(job.cp)) <= job.cp.objs
    <3>1. inventory' \ NextItems(job.cp) \subseteq inventory \ NextItems(job.cp)
      BY <2>1, <2>2
    <3>2. /\ Cardinality(inventory' \ NextItems(job.cp)) <= Cardinality(inventory \ NextItems(job.cp))
          /\ Cardinality(inventory' \ NextItems(job.cp)) \in Nat
      BY <1>2, <3>1, FS_Subset, FS_CardinalityType
    <3>3. Cardinality(inventory \ NextItems(job.cp)) \in Nat
      BY <1>2
    <3> QED BY <1>0, <1>1, <3>2, <3>3
  <2>4. LimitKept'
    BY <1>0, <1>1, <2>1, <2>2 DEF LimitKept
  <2>5. Follows(w)'
    BY <1>0, <2>1 DEF Follows, Holding, Paged
  <2> QED BY <1>0, <1>1, <2>1, <2>3, <2>4, <2>5
<1>4. CASE WorkerCheckpoint(w) /\ Exists(job)
  <2> DEFINE scanned == objs[w].current + (page[w].to - at[w].mark)
             cp == [seg |-> at[w].seg, mark |-> page[w].next, objs |-> scanned]
  <2>1. /\ pc[w] = "checkpoint"
        /\ job' = Checkpointed(job, cp)
        /\ objs' = [objs EXCEPT ![w] = [job |-> scanned, current |-> 0]]
        /\ at' = [at EXCEPT ![w] = [seg |-> at[w].seg, mark |-> page[w].next]]
        /\ pc' = [pc EXCEPT ![w] = AfterPage(w, scanned)]
        /\ UNCHANGED <<inventory, copy>>
    BY <1>4 DEF WorkerCheckpoint, Goto, results
  <2>2. objs[w].current = job.cp.objs
    BY <1>0, <2>1 DEF Follows, Holding, Paged
  <2>3. /\ page[w].to \in Nat /\ at[w].mark \in Nat /\ at[w].mark <= page[w].to
        /\ Cardinality(inventory) <= job.cp.objs + (page[w].to - at[w].mark)
        /\ Limit > 0 /\ job.cp.objs <= Limit =>
             job.cp.objs + (page[w].to - at[w].mark) <= Limit
    BY <1>0, <2>1, PageCounts DEF Paged
  <2>4. /\ scanned \in Nat /\ scanned >= job.cp.objs
        /\ Cardinality(inventory) <= scanned
        /\ Limit > 0 /\ job.cp.objs <= Limit => scanned <= Limit
    BY <1>1, <2>2, <2>3
  <2>5. cp \in Checkpoints /\ cp.objs = scanned /\ cp.seg = at[w].seg /\ cp.mark = page[w].next
    BY <1>1, <2>4
  <2> HIDE DEF scanned, cp
  <2>6. job'.cp = cp /\ Exists(job')
    BY <1>0, <1>1, <2>1, <2>5, CheckpointedSets, StatusFields DEF Exists
  <2>7. /\ at'[w].seg = cp.seg /\ at'[w].mark = cp.mark /\ objs'[w].job = cp.objs
        /\ pc'[w] \in {"complete", "check", "advance"}
    BY <1>1, <2>1, <2>5 DEF AfterPage
  <2>8. Follows(w)'
    BY <2>1, <2>4, <2>5, <2>6, <2>7 DEF Follows, Paged
  <2>9. LimitKept'
    BY <1>0, <1>1, <2>1, <2>4, <2>5, <2>6 DEF LimitKept
  <2>10. Cardinality(inventory' \ NextItems(job'.cp)) <= job'.cp.objs
    <3>1. Cardinality(inventory' \ NextItems(cp)) <= Cardinality(inventory)
      BY <1>2, <2>1
    <3>2. Cardinality(inventory' \ NextItems(cp)) \in Nat
      BY <1>2, <2>1
    <3> QED BY <1>1, <2>4, <2>5, <2>6, <3>1, <3>2
  <2> QED BY <2>4, <2>5, <2>6, <2>8, <2>9, <2>10
<1>5. CASE WorkerAdvance(w)
  <2> DEFINE cp == [seg |-> at[w].seg + 1, mark |-> 0, objs |-> objs[w].job]
  <2>1. /\ pc[w] = "advance" /\ pc'[w] = "check"
        /\ job' = Checkpointed(job, cp)
        /\ at' = [at EXCEPT ![w] = [seg |-> at[w].seg + 1, mark |-> 0]]
        /\ UNCHANGED <<inventory, copy, objs>>
    BY <1>0, <1>1, <1>5 DEF WorkerAdvance, Goto, results
  <2>2. objs[w].job = job.cp.objs /\ Cardinality(inventory) <= job.cp.objs
    BY <1>0, <2>1 DEF Follows
  <2>3. cp \in Checkpoints /\ cp.objs = job.cp.objs
        /\ cp.seg = at[w].seg + 1 /\ cp.mark = 0
    BY <1>1, <2>2
  <2> HIDE DEF cp
  <2>4. job'.cp = cp /\ Exists(job')
    BY <1>0, <1>1, <2>1, <2>3, CheckpointedSets, StatusFields DEF Exists
  <2>5. at'[w].seg = cp.seg /\ at'[w].mark = cp.mark
    BY <1>1, <2>1, <2>3
  <2>6. Follows(w)'
    BY <2>1, <2>2, <2>3, <2>4, <2>5 DEF Follows, Paged
  <2>7. Cardinality(inventory' \ NextItems(job'.cp)) <= job'.cp.objs
    <3>1. /\ Cardinality(inventory' \ NextItems(cp)) <= Cardinality(inventory)
          /\ Cardinality(inventory' \ NextItems(cp)) \in Nat
      BY <1>2, <2>1
    <3> QED BY <1>1, <2>2, <2>3, <2>4, <3>1
  <2>8. LimitKept'
    BY <1>0, <2>1, <2>3, <2>4 DEF LimitKept
  <2> QED BY <1>1, <2>3, <2>4, <2>6, <2>7, <2>8
<1>6. CASE WriteBack(w)
  <2>1. /\ pc[w] = "writeback" /\ pc'[w] = "return" /\ job' = WrittenBack(copy[w])
        /\ inventory' = inventory
    BY <1>1, <1>6 DEF WriteBack, Goto, results
  <2>2. copy[w].cp = job.cp /\ Exists(copy[w]) /\ copy[w] \in Jobs
    BY <1>0, <1>1, <2>1 DEF Follows, Holding
  <2>3. job'.cp = job.cp /\ Exists(job')
    <3>1. WrittenBack(copy[w]).status = copy[w].status
      BY <2>2 DEF WrittenBack, Unleased, Jobs
    <3> QED BY <2>1, <2>2, <3>1, KeepCheckpoint DEF Exists
  <2>4. ~Holding(w)'
    BY <2>1 DEF Holding
  <2> QED BY <1>0, <1>1, <2>1, <2>3, <2>4 DEF Follows, LimitKept
<1> QED BY <1>3, <1>4, <1>5, <1>6 DEF Moves

\* Every other step of the worker.
LEMMA StepFollows ==
  ASSUME IInv, HoldsInv, CountInv, SameProgress, NEW w \in Workers, WorkerStep(w), ~Moves(w)
  PROVE  Follows(w)'
<1>0. /\ Follows(w) /\ job \in Jobs /\ copy \in [Procs -> Jobs] /\ w \in Procs
      /\ pc \in [Procs -> Labels]
      /\ at \in [Workers -> [seg : Nat, mark : Nat]]
      /\ objs \in [Workers -> [job : Nat, current : Nat]]
      /\ page \in [Workers -> [to : Nat, next : Nat]]
      /\ "completed" \in Statuses
  BY DEF CountInv, IInv, TypeOK, Procs
<1> USE <1>0 DEF Goto, locals
<1>1. CASE WorkerAcquire(w)
  <2>1. CASE ~CanAcquire(job, w)
    <3>1. pc'[w] \in {"done", "fail"}
      BY <1>1, <2>1 DEF WorkerAcquire
    <3> QED BY <3>1 DEF Follows, Holding
  <2>2. CASE CanAcquire(job, w)
    <3>1. /\ at' = [at EXCEPT ![w] = [seg |-> job.cp.seg, mark |-> job.cp.mark]]
          /\ objs' = [objs EXCEPT ![w] = [job |-> job.cp.objs, current |-> 0]]
          /\ pc'[w] = "client" /\ Exists(job)
      BY <1>1, <2>2 DEF WorkerAcquire, CanAcquire
    <3>2. at'[w].seg = job.cp.seg /\ at'[w].mark = job.cp.mark /\ objs'[w].job = job.cp.objs
      BY <3>1
    <3> QED BY <3>1, <3>2 DEF Follows, SameProgress, Paged
  <2> QED BY <2>1, <2>2
<1>2. CASE WorkerClient(w) \/ WorkerHeartbeat(w) \/ WorkerRetry(w) \/ WorkerListFails(w)
  <2>1. /\ Holding(w) /\ UNCHANGED <<at, objs, page, copy>>
        /\ pc'[w] \in {"error", "check", "complete", "list"}
        /\ pc'[w] = "list" => pc[w] \in {"heartbeat", "list"}
    BY <1>2 DEF WorkerClient, WorkerHeartbeat, WorkerRetry, WorkerListFails, Holding
  <2> QED BY <2>1 DEF Follows, SameProgress, Paged
<1>3. CASE WorkerCheck(w)
  <2>1. /\ Holding(w) /\ UNCHANGED <<at, page, copy>>
        /\ pc'[w] \in {"error", "return", "heartbeat"}
        /\ objs' = [objs EXCEPT ![w].current = job.cp.objs]
    BY <1>3 DEF WorkerCheck, Holding
  <2>2. objs'[w].job = objs[w].job /\ objs'[w].current = job.cp.objs
    BY <2>1
  <2> QED BY <2>1, <2>2 DEF Follows, SameProgress, Paged
<1>4. CASE WorkerList(w)
  <2>1. /\ pc[w] = "list" /\ pc'[w] \in {"persist", "checkpoint"} /\ UNCHANGED <<at, objs, copy>>
        /\ page' = [page EXCEPT ![w] = ListedPage(at[w], objs[w].job)]
    BY <1>4 DEF WorkerList
  <2>2. Holding(w) /\ page'[w] = ListedPage(at[w], objs[w].job)
    BY <2>1 DEF Holding
  <2>3. ListedPage(at[w], objs[w].job) = NextPage(job.cp)
    <3>1. at[w] = [seg |-> job.cp.seg, mark |-> job.cp.mark] /\ objs[w].job = job.cp.objs
      <4>1. at[w].seg = job.cp.seg /\ at[w].mark = job.cp.mark /\ objs[w].job = job.cp.objs
        BY <2>2 DEF Follows
      <4>2. at[w] \in [seg : Nat, mark : Nat]
        OBVIOUS
      <4> QED BY <4>1, <4>2
    <3> QED BY <3>1 DEF NextPage
  <2> QED BY <2>1, <2>2, <2>3 DEF Follows, SameProgress, Paged
<1>5. CASE WorkerRead(w) \/ WorkerWrite(w) \/ WorkerWriteFails(w) \/ WorkerRecord(w)
  <2>1. /\ Holding(w) /\ UNCHANGED <<at, objs, page, copy>>
        /\ pc[w] \in Paged /\ pc'[w] \in Paged
    BY <1>5 DEF WorkerRead, WorkerWrite, WorkerWriteFails, WorkerRecord, Holding, Paged
  <2> QED BY <2>1 DEF Follows, SameProgress, Paged
<1>6. CASE WorkerComplete(w)
  <2>1. CASE ~Exists(job)
    <3>1. pc'[w] = "error"
      BY <1>6, <2>1 DEF WorkerComplete
    <3> QED BY <3>1 DEF Follows, Holding
  <2>2. CASE Exists(job)
    <3>1. /\ Holding(w) /\ UNCHANGED <<at, objs, page>> /\ pc'[w] = "writeback"
          /\ copy'[w] = Transition(job, "completed")
      BY <1>6, <2>2 DEF WorkerComplete, Holding
    <3>2. copy'[w].cp = job.cp /\ Exists(copy'[w])
      BY <3>1, TransitionKeeps, StatusFields DEF Exists
    <3> QED BY <3>1, <3>2 DEF Follows, SameProgress, Paged
  <2> QED BY <2>1, <2>2
<1>7. CASE WorkerGet(w) \/ WorkerResume(w) \/ WorkerRelease(w) \/ WorkerFail(w)
           \/ (WorkerCheckpoint(w) /\ ~Exists(job))
  <2>1. ~Holding(w)'
    BY <1>7 DEF WorkerGet, WorkerResume, WorkerRelease, WorkerFail, WorkerCheckpoint, Holding
  <2> QED BY <2>1 DEF Follows
<1> QED BY <1>1, <1>2, <1>3, <1>4, <1>5, <1>6, <1>7 DEF WorkerStep, Moves

LEMMA CountStep ==
  ASSUME Unmoved, IInv, HoldsInv, CountInv, [Next]_vars
  PROVE  CountInv' /\ (Exists(job') => job'.cp.objs >= job.cp.objs)
<1>0. /\ job \in Jobs /\ job.cp.objs \in Nat /\ pc \in [Procs -> Labels] /\ Workers \subseteq Procs
      /\ LimitKept /\ Limit \in Nat
      /\ job.status = "none" => job.cp.objs = 0 /\ inventory = {}
      /\ Exists(job) => Cardinality(inventory \ NextItems(job.cp)) <= job.cp.objs
      /\ \A w \in Workers : Follows(w)
      /\ Cardinality({}) = 0
  BY FS_EmptySet, ScanAssumption DEF CountInv, IInv, TypeOK, Jobs, Procs
<1>5. jobFile = job /\ jobFile' = job'
  BY DEF CountInv, Unmoved, Next, Saved, Crash, CrashTearsFile, vars
<1>1. CASE \E w \in Workers : Moves(w)
  <2>1. PICK w \in Workers : Moves(w)
    BY <1>1
  <2>2. /\ Exists(job') /\ job'.cp.objs >= job.cp.objs /\ LimitKept' /\ Follows(w)'
        /\ Cardinality(inventory' \ NextItems(job'.cp)) <= job'.cp.objs
    BY <2>1, MoveCounts
  <2>3. ASSUME NEW v \in Workers, v # w PROVE Follows(v)'
    <3>1. pc'[v] = pc[v]
      BY <1>0, <2>1, <2>3
         DEF Moves, WorkerPersist, WorkerCheckpoint, WorkerAdvance, WriteBack, Goto
    <3>2. ~Holding(v)
      BY <2>1, <2>3, MoverHolds
    <3> QED BY <3>1, <3>2 DEF Follows, Holding
  <2>4. job'.status # "none"
    BY <2>2 DEF Exists
  <2> QED BY <1>5, <2>2, <2>3, <2>4 DEF CountInv
<1>2. CASE Queue
  <2>1. job.status = "none" /\ job' = NewJob /\ inventory' = inventory /\ pc' = pc
    BY <1>2 DEF Queue, results
  <2>2. job'.cp.objs = 0 /\ job'.status = "queued" /\ inventory' = {} /\ job.cp.objs = 0
    BY <1>0, <2>1 DEF NewJob, NoJob, Start0
  <2>3. ASSUME NEW w \in Workers PROVE Follows(w)'
    BY <1>0, <2>1 DEF Follows, Holding, Exists
  <2>4. inventory' \ NextItems(job'.cp) = {}
    BY <2>2
  <2>5. LimitKept'
    BY <1>0, <2>2 DEF LimitKept
  <2> QED BY <1>0, <1>5, <2>2, <2>3, <2>4, <2>5 DEF CountInv
<1>3. CASE CrashTearsFile
  <2>1. \A w \in Workers : ~Holding(w)'
    BY <1>0, <1>3 DEF CrashTearsFile, ProcessesDie, Holding
  <2>2. CASE job' = GoneJob /\ inventory' = inventory
    <3>1. job'.status = "gone" /\ job'.cp.objs = 0
      BY <2>2 DEF GoneJob, NoJob, Start0
    <3> QED BY <1>0, <1>5, <2>1, <2>2, <3>1 DEF CountInv, Follows, Exists, LimitKept
  <2>3. CASE job' = job /\ inventory' = inventory
    BY <1>0, <1>5, <2>1, <2>3 DEF CountInv, Follows, LimitKept
  <2>4. CASE job' = job /\ inventory' = {}
    <3>1. {} \ NextItems(job.cp) = {}
      OBVIOUS
    <3>2. LimitKept'
      BY <1>0, <2>4 DEF LimitKept
    <3> QED BY <1>0, <1>5, <2>1, <2>4, <3>1, <3>2 DEF CountInv, Follows
  <2> QED BY <1>3, <1>5, <2>2, <2>3, <2>4 DEF CrashTearsFile, results
<1>4. CASE SameProgress /\ ~\E w \in Workers : Moves(w)
  <2>1. ASSUME NEW w \in Workers PROVE Follows(w)'
    <3>1. CASE UNCHANGED WorkersOwn(w)
      BY <1>0, <1>4, <3>1 DEF WorkersOwn, Follows, Holding, SameProgress
    <3>2. CASE WorkerStep(w)
      BY <1>4, <3>2, StepFollows
    <3>3. CASE ~Holding(w)'
      BY <3>3 DEF Follows
    <3> QED BY <3>1, <3>2, <3>3, WorkersFrame DEF IInv
  <2> QED BY <1>0, <1>4, <1>5, <2>1 DEF CountInv, SameProgress, LimitKept
<1> QED BY <1>1, <1>2, <1>3, <1>4, <1>5, JobFrame DEF IInv

LEMMA InitCounts == Init => HoldsInv /\ CountInv
<1> SUFFICES ASSUME Init PROVE HoldsInv /\ CountInv
  OBVIOUS
<1>1. /\ job.status = "none" /\ job.owner = NoWorker /\ job.cp.objs = 0 /\ inventory = {}
      /\ jobFile = job
      /\ \A p \in Procs : pc[p] = "idle"
  BY DEF Init, NoJob, Start0
<1>2. \A w \in Workers : ~Holding(w)
  BY <1>1 DEF Holding, Procs
<1>3. Cardinality({}) = 0 /\ Limit \in Nat
  BY FS_EmptySet, ScanAssumption
<1> QED BY <1>1, <1>2, <1>3 DEF HoldsInv, CountInv, Follows, Exists, LimitKept, Procs

LEMMA AlwaysCounts == Unmoved => (Spec => [](IInv /\ HoldsInv /\ CountInv))
<1> SUFFICES ASSUME Unmoved PROVE Spec => [](IInv /\ HoldsInv /\ CountInv)
  OBVIOUS
<1>1. IInv /\ HoldsInv /\ CountInv /\ [Next]_vars => HoldsInv'
  BY HoldsStep DEF Unmoved, IInv, CountInv, HoldsInv, FileUnowned
<1>2. IInv /\ HoldsInv /\ CountInv /\ [Next]_vars => CountInv'
  BY CountStep
<1> QED BY <1>1, <1>2, InitIInv, NextIInv, InitCounts, PTL DEF Spec

\* A scan with a limit neither reports nor stores more, however often it is
\* resumed, fails or crashes between storing a page and counting it.
THEOREM LimitIsKept == Unmoved => (Spec => []LimitKept)
<1> SUFFICES ASSUME Unmoved PROVE Spec => []LimitKept
  OBVIOUS
<1>1. CountInv => LimitKept
  BY DEF CountInv
<1> QED BY <1>1, AlwaysCounts, PTL

\* The counter never goes back.
THEOREM ProgressIsKept == Unmoved => (Spec => ProgressKept)
<1> SUFFICES ASSUME Unmoved PROVE Spec => ProgressKept
  OBVIOUS
<1>1. IInv /\ HoldsInv /\ CountInv /\ [Next]_vars =>
        [Exists(job') => job'.cp.objs >= job.cp.objs]_vars
  BY CountStep
<1>2. Spec => [][Next]_vars
  BY DEF Spec
<1> QED BY <1>1, <1>2, AlwaysCounts, PTL DEF ProgressKept

-----------------------------------------------------------------------------
(* The end of a job, while one worker scans and every file is written. *)

PlacesBefore(s, m) == {p \in Places : p[1] < s \/ (p[1] = s /\ p[2] <= m)}

LEMMA PlacesFinite ==
  /\ IsFiniteSet(Places) /\ Cardinality(Places) \in Nat
  /\ \A s, m : /\ IsFiniteSet(PlacesBefore(s, m))
               /\ Cardinality(PlacesBefore(s, m)) \in Nat
<1> DEFINE Of == [s \in Segments |-> {s} \X DOMAIN Listing[s]]
<1>1. IsFiniteSet(Segments)
  BY ListingFacts, FS_Interval
<1>2. Of \in Surjection(Segments, {Of[s] : s \in Segments})
  BY DEF Surjection
<1>3. IsFiniteSet({Of[s] : s \in Segments})
  BY <1>1, <1>2, FS_Surjection
<1>4. \A T \in {Of[s] : s \in Segments} : IsFiniteSet(T)
  <2> SUFFICES ASSUME NEW s \in Segments PROVE IsFiniteSet({s} \X DOMAIN Listing[s])
    OBVIOUS
  <2>1. IsFiniteSet(DOMAIN Listing[s])
    <3>1. DOMAIN Listing[s] = 1 .. Len(Listing[s]) /\ 1 \in Int /\ Len(Listing[s]) \in Int
      BY ListingFacts
    <3> QED BY <3>1, FS_Interval
  <2> QED BY <2>1, FS_Singleton, FS_Product
<1>5. Places = UNION {Of[s] : s \in Segments}
  BY DEF Places
<1>6. IsFiniteSet(Places)
  <2> HIDE DEF Of
  <2> QED BY <1>3, <1>4, <1>5, FS_UNION
<1>7. \A s, m : PlacesBefore(s, m) \subseteq Places
  BY DEF PlacesBefore
<1> QED BY <1>6, <1>7, FS_Subset, FS_CardinalityType

\* The places of a page come after those before its marker.
LEMMA PlacesPage ==
  ASSUME NEW s \in Segments, NEW m \in Nat, NEW t \in Nat, m <= t, t <= Len(Listing[s])
  PROVE  Cardinality(PlacesBefore(s, t)) = Cardinality(PlacesBefore(s, m)) + (t - m)
<1> DEFINE N == {s} \X (m + 1 .. t)
<1>1. PlacesBefore(s, t) = PlacesBefore(s, m) \cup N
  BY ListingFacts DEF PlacesBefore, Places
<1>2. PlacesBefore(s, m) \cap N = {}
  BY ListingFacts DEF PlacesBefore, Places
<1>3. IsFiniteSet(N) /\ Cardinality(N) = t - m
  <2>1. IsFiniteSet(m + 1 .. t) /\ Cardinality(m + 1 .. t) = t - m
    <3>1. m + 1 \in Int /\ t \in Int
      OBVIOUS
    <3>2. /\ IsFiniteSet(m + 1 .. t)
          /\ Cardinality(m + 1 .. t) = IF m + 1 > t THEN 0 ELSE t - (m + 1) + 1
      BY <3>1, FS_Interval
    <3> QED BY <3>2
  <2>2. IsFiniteSet({s}) /\ Cardinality({s}) = 1
    BY FS_Singleton
  <2>3. IsFiniteSet(N) /\ Cardinality(N) = 1 * Cardinality(m + 1 .. t)
    BY <2>1, <2>2, FS_Product
  <2> QED BY <2>1, <2>3
<1> HIDE DEF N
<1>4. Cardinality(PlacesBefore(s, m) \cup N)
        = Cardinality(PlacesBefore(s, m)) + Cardinality(N) - Cardinality({})
  BY <1>2, <1>3, PlacesFinite, FS_Union
<1>5. Cardinality({}) = 0 /\ Cardinality(PlacesBefore(s, m)) \in Nat
  BY FS_EmptySet, PlacesFinite
<1> QED BY <1>1, <1>3, <1>4, <1>5

\* What was scanned before a place has its records, and was counted.
CountedTo(s, m, n) ==
  Before(s, m) \subseteq Recorded /\ n >= Cardinality(PlacesBefore(s, m))

LEMMA CountedStart == \A n \in Nat : CountedTo(1, 0, n)
<1>1. PlacesBefore(1, 0) = {}
  BY ListingFacts DEF PlacesBefore, Places
<1> QED BY <1>1, BeforeStart, FS_EmptySet DEF CountedTo

LEMMA CountedFewer ==
  ASSUME NEW s, NEW m, NEW t, NEW u, NEW n \in Nat, CountedTo(s, m, n),
         Before(t, u) \subseteq Before(s, m), PlacesBefore(t, u) \subseteq PlacesBefore(s, m)
  PROVE  CountedTo(t, u, n)
<1>1. Cardinality(PlacesBefore(t, u)) <= Cardinality(PlacesBefore(s, m))
  BY PlacesFinite, FS_Subset
<1>2. Cardinality(PlacesBefore(t, u)) \in Nat /\ Cardinality(PlacesBefore(s, m)) \in Nat
  BY PlacesFinite
<1>3. n >= Cardinality(PlacesBefore(t, u))
  BY <1>1, <1>2 DEF CountedTo
<1> QED BY <1>3 DEF CountedTo

\* The end of a segment.
LEMMA CountedSegment ==
  ASSUME NEW s \in Segments, NEW n \in Nat, CountedTo(s, Len(Listing[s]), n)
  PROVE  /\ CountedTo(s + 1, 0, n)
         /\ s = Len(Listing) => Recorded = Blobs /\ n >= Cardinality(Places)
<1>1. PlacesBefore(s + 1, 0) \subseteq PlacesBefore(s, Len(Listing[s]))
  BY ListingFacts DEF PlacesBefore, Places
<1>2. CountedTo(s + 1, 0, n)
  BY <1>1, BeforeNextSegment, CountedFewer
<1>3. ASSUME s = Len(Listing) PROVE PlacesBefore(s, Len(Listing[s])) = Places
  BY <1>3, ListingFacts DEF PlacesBefore, Places
<1>4. ASSUME s = Len(Listing) PROVE Blobs \subseteq Recorded
  BY <1>4, ListingFacts, BeforeEnd DEF CountedTo
<1> QED BY <1>2, <1>3, <1>4 DEF CountedTo, Recorded

LEMMA CountedEnd ==
  ASSUME NEW s \in Nat, NEW m \in Nat, NEW n \in Nat, CountedTo(s, m, n), s > Len(Listing)
  PROVE  Recorded = Blobs /\ n >= Cardinality(Places)
<1>1. PlacesBefore(s, m) = Places
  BY ListingFacts DEF PlacesBefore, Places
<1>2. Blobs \subseteq Recorded
  BY BeforeEnd DEF CountedTo
<1> QED BY <1>1, <1>2 DEF CountedTo, Recorded

\* A page that has its records is counted with them.
LEMMA CountedPage ==
  ASSUME NEW s \in Segments, NEW m \in Nat, NEW t \in Nat, m <= t, t <= Len(Listing[s]),
         NEW n \in Nat, CountedTo(s, m, n), Slice(s, m, t) \subseteq Recorded
  PROVE  CountedTo(s, t, n + (t - m)) /\ CountedTo(s, 0, n + (t - m))
<1>1. Before(s, t) \subseteq Recorded
  BY BeforePage DEF CountedTo, Slice
<1>2. n + (t - m) \in Nat
  OBVIOUS
<1>3. n + (t - m) >= Cardinality(PlacesBefore(s, t))
  BY PlacesPage, PlacesFinite DEF CountedTo
<1>4. CountedTo(s, t, n + (t - m))
  BY <1>1, <1>3 DEF CountedTo
<1>5. PlacesBefore(s, 0) \subseteq PlacesBefore(s, t) /\ Before(s, 0) \subseteq Before(s, t)
  BY ListingFacts, BeforeFirstPage DEF PlacesBefore, Places
<1> QED BY <1>2, <1>4, <1>5, CountedFewer

\* Unless the limit ended the scan, everything has its record and was counted.
Finished ==
  Limit = 0 \/ job.cp.objs < Limit => Recorded = Blobs /\ job.cp.objs >= Cardinality(Places)

\* What the holder of the lease has written of its page, and what it is about to say.
Delivers(w) ==
  /\ pc[w] = "write" => snap[w] = artifact
  /\ pc[w] \in {"record", "checkpoint"} => Items(w) \subseteq Recorded
  /\ pc[w] = "record" => job.written + Cardinality(Unseen(w)) <= Cardinality(Recorded)
  /\ pc[w] = "advance" => CountedTo(job.cp.seg + 1, 0, job.cp.objs)
  /\ pc[w] \in {"complete", "writeback"} => Finished
  /\ pc[w] = "writeback" => copy[w].written = job.written

JobDelivers ==
  /\ CountedTo(job.cp.seg, job.cp.mark, job.cp.objs)
  /\ job.status = "completed" => Finished
  /\ job.written <= Cardinality(Recorded)

DeliverInv == intact => JobDelivers /\ \A w \in Workers : Delivers(w)

\* Who does not hold the lease claims nothing.
LEMMA IdleDelivers == ASSUME NEW w \in Workers, ~Holding(w) PROVE Delivers(w)
BY DEF Holding, Delivers

\* The fields that the operators of the store leave alone.
LEMMA WrittenFields ==
  ASSUME NEW j \in Jobs
  PROVE  /\ Resumed(j).written = j.written
         /\ Unleased(j).written = j.written
         /\ WrittenBack(j).written = j.written /\ WrittenBack(j).status = j.status
         /\ Reclaimed(j).written = j.written
         /\ \A s : Transition(j, s).written = j.written
         /\ \A w : Leased(j, w).written = j.written
         /\ \A cp : Checkpointed(j, cp).written = j.written
BY DEF Jobs, Resumed, Unleased, WrittenBack, Reclaimed, Transition, Leased, Checkpointed

\* A page that is the last of its segment, or the last that the limit allows.
LEMMA LastPage ==
  ASSUME NEW cp \in Checkpoints, cp.seg \in Segments, Placed(cp), NextPage(cp).next = 0
  PROVE  \/ NextPage(cp).to = Len(Listing[cp.seg])
         \/ LimitReached(cp.objs + (NextPage(cp).to - cp.mark))
<1> DEFINE place == [seg |-> cp.seg, mark |-> cp.mark]
           len  == Len(Listing[cp.seg])
           size == IF Limit > 0 /\ Remaining(cp.objs) < PageSize
                   THEN Remaining(cp.objs) ELSE PageSize
           to   == IF cp.mark + size < len THEN cp.mark + size ELSE len
<1>1. NextPage(cp) = IF size = 0 THEN [to |-> cp.mark, next |-> 0]
                                 ELSE [to |-> to, next |-> IF to < len THEN to ELSE 0]
  BY DEF NextPage, ListedPage
<1>2. /\ len \in Nat /\ size \in Nat /\ cp.mark \in Nat /\ cp.objs \in Nat
      /\ cp.mark <= len
  BY ListingFacts, ScanAssumption DEF Remaining, Placed
<1>3. size = 0 => Limit > 0 /\ cp.objs >= Limit
  BY ScanAssumption DEF Remaining
<1> HIDE DEF size
<1>4. CASE size = 0
  BY <1>1, <1>2, <1>3, <1>4 DEF LimitReached
<1>5. CASE size # 0
  BY <1>1, <1>2, <1>5
<1> QED BY <1>4, <1>5

\* The worker that moves the checkpoint delivers what the checkpoint says.
LEMMA MoveDelivers ==
  ASSUME IInv, HoldsInv, CountInv, DeliverInv, intact, NEW w \in Workers, Moves(w)
  PROVE  JobDelivers' /\ Delivers(w)'
<1>0. /\ Holding(w) /\ Follows(w) /\ Exists(job) /\ Delivers(w) /\ JobDelivers
  BY DEF CountInv, Follows, Holding, Moves, WorkerPersist, WorkerCheckpoint, WorkerAdvance,
         WriteBack, DeliverInv
<1>1. /\ job \in Jobs /\ job.cp \in Checkpoints /\ job.cp.objs \in Nat /\ Placed(job.cp)
      /\ copy \in [Procs -> Jobs] /\ w \in Procs
      /\ pc \in [Procs -> Labels]
      /\ at \in [Workers -> [seg : Nat, mark : Nat]]
      /\ objs \in [Workers -> [job : Nat, current : Nat]]
      /\ page \in [Workers -> [to : Nat, next : Nat]]
  BY DEF IInv, TypeOK, AllPlaced, Jobs, Procs
<1>2. artifact' = artifact
  BY DEF Moves, WorkerPersist, WorkerCheckpoint, WorkerAdvance, WriteBack, results
<1>3. Recorded' = Recorded
  BY <1>2 DEF Recorded
<1>4. CASE WorkerPersist(w)
  <2>1. pc'[w] = "read" /\ job' = job
    BY <1>1, <1>4 DEF WorkerPersist, Goto
  <2> QED BY <1>0, <1>3, <2>1 DEF JobDelivers, Finished, CountedTo, Delivers
<1>5. CASE WorkerCheckpoint(w) /\ Exists(job)
  <2> DEFINE scanned == objs[w].current + (page[w].to - at[w].mark)
             cp == [seg |-> at[w].seg, mark |-> page[w].next, objs |-> scanned]
  <2>1. /\ pc[w] = "checkpoint"
        /\ job' = Checkpointed(job, cp)
        /\ pc' = [pc EXCEPT ![w] = AfterPage(w, scanned)]
    BY <1>5 DEF WorkerCheckpoint, Goto
  <2>2. /\ objs[w].current = job.cp.objs /\ page[w] = NextPage(job.cp)
        /\ at[w].seg = job.cp.seg /\ at[w].mark = job.cp.mark
    BY <1>0, <2>1 DEF Follows, Holding, Paged
  <2>3. job.cp.seg \in Segments /\ job.cp.mark \in Nat
    BY <1>1, <2>1, <2>2 DEF IInv, AllPlaced, WorkerPlaced, Looping
  <2>4. /\ page[w].to \in Nat /\ job.cp.mark <= page[w].to
        /\ page[w].to <= Len(Listing[job.cp.seg])
    BY <1>1, <2>2, <2>3, NextPageFacts
  <2>5. scanned = job.cp.objs + (page[w].to - job.cp.mark) /\ scanned \in Nat
    BY <1>1, <2>2, <2>3, <2>4
  <2>6. Slice(job.cp.seg, job.cp.mark, page[w].to) \subseteq Recorded
    BY <1>0, <2>1, <2>2 DEF Delivers, Items, Slice
  <2>7. CountedTo(job.cp.seg, page[w].to, scanned) /\ CountedTo(job.cp.seg, 0, scanned)
    BY <1>0, <1>1, <2>3, <2>4, <2>5, <2>6, CountedPage DEF JobDelivers
  <2>8. page[w].next \in {0, page[w].to}
    BY <2>1 DEF IInv, AllPlaced, WorkerPlaced, Paged
  <2>9. cp \in Checkpoints /\ cp.seg = job.cp.seg /\ cp.mark = page[w].next /\ cp.objs = scanned
    BY <1>1, <2>2, <2>5
  <2>10. page[w].next = 0 => \/ page[w].to = Len(Listing[job.cp.seg])
                             \/ LimitReached(scanned)
    BY <1>1, <2>2, <2>3, <2>5, LastPage
  <2> HIDE DEF scanned, cp
  <2>11. job'.cp = cp /\ job'.written = job.written /\ job'.status = job.status
    BY <1>1, <2>1, <2>9, CheckpointedSets, WrittenFields, StatusFields
  <2>12. CountedTo(job'.cp.seg, job'.cp.mark, job'.cp.objs)
    BY <2>7, <2>8, <2>9, <2>11
  <2>13. ~LimitReached(scanned) /\ page[w].next = 0 =>
           /\ CountedTo(job.cp.seg + 1, 0, scanned)
           /\ job.cp.seg = Len(Listing) => Recorded = Blobs /\ scanned >= Cardinality(Places)
    BY <2>3, <2>5, <2>7, <2>10, CountedSegment
  <2>14. pc'[w] = AfterPage(w, scanned)
    BY <1>1, <2>1
  <2>15. pc'[w] = "advance" => CountedTo(job.cp.seg + 1, 0, scanned)
    BY <2>4, <2>8, <2>13, <2>14, ListingFacts DEF AfterPage
  <2>16. pc'[w] = "complete" => Finished'
    <3>1. CASE LimitReached(scanned)
      BY <2>5, <2>9, <2>11, <3>1, ScanAssumption DEF LimitReached, Finished
    <3>2. CASE ~LimitReached(scanned)
      <4>1. ASSUME pc'[w] = "complete"
            PROVE  page[w].next = 0 /\ job.cp.seg = Len(Listing)
        BY <1>1, <2>2, <2>3, <2>14, <3>2, <4>1, ListingFacts DEF AfterPage
      <4> QED BY <1>3, <2>9, <2>11, <2>13, <3>2, <4>1 DEF Finished
    <3> QED BY <3>1, <3>2
  <2>17. Delivers(w)'
    <3>1. pc'[w] \in {"complete", "check", "advance"}
      BY <2>14 DEF AfterPage
    <3>2. (CountedTo(job.cp.seg + 1, 0, job.cp.objs))' <=> CountedTo(job.cp.seg + 1, 0, scanned)
      BY <1>3, <2>9, <2>11 DEF CountedTo
    <3> QED BY <2>15, <2>16, <3>1, <3>2 DEF Delivers
  <2>18. job'.status = "completed" => Finished'
    <3>1. scanned >= job.cp.objs /\ job.cp.objs \in Nat /\ scanned \in Nat /\ Limit \in Nat
      BY <1>1, <2>3, <2>4, <2>5, ScanAssumption
    <3>2. Cardinality(Places) \in Nat
      BY PlacesFinite
    <3> QED BY <1>0, <1>3, <2>9, <2>11, <3>1, <3>2 DEF JobDelivers, Finished
  <2>19. (CountedTo(job.cp.seg, job.cp.mark, job.cp.objs))'
    BY <1>3, <2>12 DEF CountedTo
  <2> QED BY <1>0, <1>3, <2>11, <2>17, <2>18, <2>19 DEF JobDelivers
<1>6. CASE WorkerAdvance(w)
  <2> DEFINE cp == [seg |-> at[w].seg + 1, mark |-> 0, objs |-> objs[w].job]
  <2>1. /\ pc[w] = "advance" /\ pc'[w] = "check" /\ job' = Checkpointed(job, cp)
    BY <1>0, <1>1, <1>6 DEF WorkerAdvance, Goto
  <2>2. at[w].seg = job.cp.seg /\ objs[w].job = job.cp.objs
    BY <1>0 DEF Follows
  <2>3. cp \in Checkpoints /\ cp.objs = job.cp.objs /\ cp.seg = job.cp.seg + 1 /\ cp.mark = 0
    BY <1>1, <2>2
  <2> HIDE DEF cp
  <2>4. job'.cp = cp /\ job'.written = job.written /\ job'.status = job.status
    BY <1>1, <2>1, <2>3, CheckpointedSets, WrittenFields, StatusFields
  <2>5. (CountedTo(job.cp.seg, job.cp.mark, job.cp.objs))'
    BY <1>0, <1>3, <2>1, <2>3, <2>4 DEF Delivers, CountedTo
  <2> QED BY <1>0, <1>3, <2>1, <2>3, <2>4, <2>5 DEF JobDelivers, Finished, Delivers
<1>7. CASE WriteBack(w)
  <2>1. pc[w] = "writeback" /\ pc'[w] = "return" /\ job' = WrittenBack(copy[w])
    BY <1>1, <1>7 DEF WriteBack, Goto
  <2>2. copy[w].cp = job.cp /\ copy[w] \in Jobs /\ copy[w].written = job.written /\ Finished
    BY <1>0, <1>1, <2>1 DEF Follows, Delivers
  <2>3. job'.cp = job.cp /\ job'.written = job.written
    BY <2>1, <2>2, KeepCheckpoint, WrittenFields
  <2> QED BY <1>0, <1>3, <2>1, <2>2, <2>3 DEF JobDelivers, Finished, CountedTo, Delivers
<1> QED BY <1>4, <1>5, <1>6, <1>7 DEF Moves
\* The steps that neither write the normalized file, nor count, nor complete the job.
Quiet ==
  /\ artifact' = artifact
  /\ job'.written = job.written
  /\ job'.status = "completed" => job.status = "completed"

LEMMA ResultFrame ==
  ASSUME Unmoved, "artifact" \notin Faults, TypeOK, HoldsInv, jobFile = job, [Next]_vars
  PROVE  \/ Quiet
         \/ Queue
         \/ CrashTearsFile
         \/ \E w \in Workers : \/ Moves(w)
                               \/ WorkerWrite(w)
                               \/ WorkerRecord(w)
                               \/ WorkerComplete(w) /\ Exists(job)
<1>0. job \in Jobs
  BY DEF TypeOK
<1> USE <1>0 DEF results, Quiet
<1>1. ASSUME NEW w \in Workers, WorkerStep(w), ~Moves(w), ~WorkerWrite(w), ~WorkerRecord(w),
             ~(WorkerComplete(w) /\ Exists(job))
      PROVE  Quiet
  <2>1. CASE WorkerResume(w)
    BY <2>1, WrittenFields, StatusFields DEF WorkerResume
  <2>2. CASE WorkerAcquire(w) \/ WorkerHeartbeat(w)
    BY <2>2, WrittenFields, StatusFields DEF WorkerAcquire, WorkerHeartbeat
  <2>3. CASE WorkerRelease(w)
    BY <2>3, WrittenFields, StatusFields DEF WorkerRelease
  <2>4. CASE WorkerFail(w)
    BY <2>4, WrittenFields, StatusFields DEF WorkerFail
  <2>5. CASE WorkerCheckpoint(w) \/ WorkerComplete(w)
    BY <1>1, <2>5 DEF Moves, WorkerCheckpoint, WorkerComplete
  <2>6. CASE \/ WorkerGet(w) \/ WorkerClient(w) \/ WorkerCheck(w)
             \/ WorkerList(w) \/ WorkerRetry(w) \/ WorkerListFails(w) \/ WorkerRead(w)
    BY <2>6 DEF WorkerGet, WorkerClient, WorkerCheck, WorkerList, WorkerRetry, WorkerListFails,
                WorkerRead
  <2>7. ~WorkerWriteFails(w)
    BY DEF WorkerWriteFails
  <2> QED BY <1>1, <2>1, <2>2, <2>3, <2>4, <2>5, <2>6, <2>7 DEF WorkerStep, Moves
<1>2. ASSUME NEW o \in Operators, Request(o) \/ Finish(o) PROVE Quiet
  <2>1. ~WriteBack(o) /\ ~Steer(o, "pause", "paused") /\ ~Steer(o, "cancel", "cancelled")
        /\ ~Steer(o, "complete", "completed")
    BY DEF HoldsInv, WriteBack, Steer, Unmoved, LeaseUndisturbed
  <2>2. CASE ResumeStore(o)
    BY <2>2, WrittenFields, StatusFields DEF ResumeStore
  <2>3. CASE ResumeGet(o) \/ \E w \in Workers : StartWorker(o, w)
    BY <2>3 DEF ResumeGet, StartWorker
  <2> QED BY <1>2, <2>1, <2>2, <2>3 DEF Request, Finish
<1>3. CASE OperatorFail \/ Reclaim
  BY <1>3, WrittenFields, StatusFields DEF OperatorFail, Reclaim
<1>4. CASE LeaseExpires
  BY <1>4 DEF LeaseExpires, Jobs
<1>5. CASE Crash \/ UNCHANGED vars
  BY <1>5 DEF Crash, vars, Unmoved
<1>6. ~OperatorCheckpoint /\ ~Reset
  BY DEF OperatorCheckpoint, Reset, Unmoved, LeaseUndisturbed
<1> QED BY <1>1, <1>2, <1>3, <1>4, <1>5, <1>6 DEF Next, Step

\* What stays true of the job while nothing is written and nothing moves.
LEMMA QuietDelivers ==
  ASSUME Quiet, SameProgress, JobDelivers
  PROVE  /\ JobDelivers'
         /\ Recorded' = Recorded /\ Finished' = Finished
         /\ (CountedTo(job.cp.seg + 1, 0, job.cp.objs))'
              = CountedTo(job.cp.seg + 1, 0, job.cp.objs)
<1>1. Recorded' = Recorded
  BY DEF Quiet, Recorded
<1>2. Finished' = Finished
  BY <1>1 DEF SameProgress, Finished
<1>3. /\ (CountedTo(job.cp.seg + 1, 0, job.cp.objs))' = CountedTo(job.cp.seg + 1, 0, job.cp.objs)
      /\ (CountedTo(job.cp.seg, job.cp.mark, job.cp.objs))'
           = CountedTo(job.cp.seg, job.cp.mark, job.cp.objs)
  BY <1>1 DEF SameProgress, CountedTo
<1> QED BY <1>1, <1>2, <1>3 DEF Quiet, JobDelivers

\* The other steps of a worker, while nothing is written and nothing moves.
LEMMA QuietStepDelivers ==
  ASSUME "artifact" \notin Faults, IInv, Quiet, SameProgress, JobDelivers,
         NEW w \in Workers, WorkerStep(w), ~Moves(w),
         ~WorkerWrite(w), ~WorkerRecord(w), ~(WorkerComplete(w) /\ Exists(job)), Follows(w)
  PROVE  Delivers(w)'
<1>0. /\ job \in Jobs /\ job.cp \in Checkpoints /\ Placed(job.cp) /\ w \in Procs
      /\ pc \in [Procs -> Labels]
      /\ at \in [Workers -> [seg : Nat, mark : Nat]]
      /\ page \in [Workers -> [to : Nat, next : Nat]]
      /\ snap \in [Workers -> [Blobs -> Nat]]
  BY DEF IInv, TypeOK, AllPlaced, Jobs, Procs
<1> USE <1>0 DEF Goto, locals
<1>1. CASE WorkerRead(w)
  <2>1. pc'[w] = "write" /\ snap'[w] = artifact
    BY <1>1 DEF WorkerRead
  <2> QED BY <2>1 DEF Quiet, Delivers
<1>2. CASE WorkerList(w)
  <2>1. /\ pc[w] = "list" /\ UNCHANGED <<at, snap>>
        /\ page'[w] = ListedPage(at[w], objs[w].job)
        /\ pc'[w] = IF page'[w].to > at[w].mark THEN "persist" ELSE "checkpoint"
    BY <1>2 DEF WorkerList
  <2>2. at[w].seg \in Segments /\ at[w].mark \in Nat /\ Placed(at[w])
    BY <2>1 DEF IInv, AllPlaced, WorkerPlaced, Looping
  <2>3. page'[w].to \in Nat
    BY <2>1, <2>2, ListedPageFacts DEF IInv, TypeOK
  <2>4. pc'[w] = "checkpoint" => Items(w)' = {}
    BY <2>1, <2>2, <2>3 DEF Items
  <2> QED BY <2>1, <2>4 DEF Delivers
<1>3. CASE WorkerClient(w)
  <2>1. /\ pc[w] = "client"
        /\ pc'[w] \in {"error", "check"} \/ (pc'[w] = "complete" /\ at[w].seg \notin Segments)
    BY <1>3 DEF WorkerClient
  <2>2. at[w].seg = job.cp.seg
    BY <2>1 DEF Follows, Holding
  <2>3. at[w].seg \notin Segments => Finished
    <3>1. at[w].seg \notin Segments => job.cp.seg > Len(Listing)
      BY <2>2, ListingFacts DEF Placed
    <3> QED BY <3>1, CountedEnd DEF Finished, JobDelivers
  <2>4. Finished' = Finished
    BY QuietDelivers
  <2> QED BY <2>1, <2>3, <2>4 DEF Delivers
<1>4. CASE WorkerGet(w) \/ WorkerResume(w) \/ WorkerAcquire(w) \/ WorkerCheck(w) \/ WorkerHeartbeat(w)
  <2>1. pc'[w] \in {"fail", "acquire", "resume", "done", "client", "error", "return", "heartbeat",
                    "list"}
    BY <1>4 DEF WorkerGet, WorkerResume, WorkerAcquire, WorkerCheck, WorkerHeartbeat
  <2> QED BY <2>1 DEF Delivers
<1>5. CASE \/ WorkerRetry(w) \/ WorkerListFails(w) \/ WorkerRelease(w) \/ WorkerFail(w)
           \/ WorkerCheckpoint(w) \/ WorkerComplete(w)
  <2>1. pc'[w] \in {"list", "error", "fail", "done"}
    BY <1>5 DEF WorkerRetry, WorkerListFails, WorkerRelease, WorkerFail, WorkerCheckpoint,
                WorkerComplete, Moves
  <2> QED BY <2>1 DEF Delivers
<1>6. ~WorkerWriteFails(w)
  BY DEF WorkerWriteFails
<1> QED BY <1>1, <1>2, <1>3, <1>4, <1>5, <1>6 DEF WorkerStep, Moves

\* The holder extends the file as it is with the records of its page.
LEMMA WriteDelivers ==
  ASSUME IInv, RecordsInv, JobDelivers, NEW w \in Workers, WorkerWrite(w), Delivers(w), SameProgress
  PROVE  JobDelivers' /\ Delivers(w)'
<1>1. /\ pc[w] = "write" /\ snap[w] = artifact /\ artifact' = Appended(w)
      /\ job' = job /\ UNCHANGED <<at, page, snap, copy>>
      /\ pc'[w] = IF Unseen(w) # {} THEN "record" ELSE "checkpoint"
  BY DEF WorkerWrite, Delivers, Goto, locals, IInv, TypeOK, Procs
<1>2. /\ artifact \in [Blobs -> Nat] /\ \A b \in Blobs : artifact[b] <= 1
      /\ job.written \in Nat /\ IsFiniteSet(Blobs) /\ job.cp.objs \in Nat
  BY ScanAssumption DEF IInv, TypeOK, RecordsInv, ArtifactUnique, Jobs
<1>3. Items(w) \subseteq Blobs
  BY <1>1, ItemFacts DEF IInv, AllPlaced, WorkerPlaced, Looping, Paged, TypeOK
<1>4. Unseen(w) \subseteq Blobs /\ Recorded \subseteq Blobs
  BY <1>3 DEF Unseen, Recorded
<1>5. Recorded' = Recorded \cup Unseen(w)
  BY <1>1, <1>2, <1>4 DEF Recorded, Appended, Unseen
<1>6. Recorded \cap Unseen(w) = {}
  BY <1>1, <1>2, <1>4 DEF Recorded, Unseen
<1>7. /\ IsFiniteSet(Recorded) /\ Cardinality(Recorded) \in Nat
      /\ IsFiniteSet(Unseen(w)) /\ Cardinality(Unseen(w)) \in Nat
  BY <1>2, <1>4, FS_Subset, FS_CardinalityType
<1>8. Cardinality(Recorded') = Cardinality(Recorded) + Cardinality(Unseen(w))
  <2>1. Cardinality(Recorded \cup Unseen(w))
          = Cardinality(Recorded) + Cardinality(Unseen(w)) - Cardinality({})
    BY <1>6, <1>7, FS_Union
  <2> QED BY <1>5, <1>7, <2>1, FS_EmptySet
<1>9. Items(w)' = Items(w) /\ Unseen(w)' = Unseen(w)
  BY <1>1 DEF Items, Unseen
<1>10. Items(w) \subseteq Recorded'
  BY <1>1, <1>2, <1>3, <1>5 DEF Recorded, Unseen
<1>11. job.written <= Cardinality(Recorded)
  BY DEF JobDelivers
<1>12. job.written + Cardinality(Unseen(w)) <= Cardinality(Recorded')
  <2>1. \A i, j, k, n \in Nat : i <= j /\ n = j + k => i + k <= n
    OBVIOUS
  <2>2. Cardinality(Recorded') \in Nat
    BY <1>7, <1>8
  <2>3. job.written \in Nat
    BY <1>2
  <2> QED BY <1>7, <1>8, <1>11, <2>1, <2>2, <2>3
<1>13. Delivers(w)'
  BY <1>1, <1>9, <1>10, <1>12 DEF Delivers
<1>14. Recorded' \subseteq Blobs
  BY <1>4, <1>5
<1>15. (CountedTo(job.cp.seg, job.cp.mark, job.cp.objs))'
  BY <1>1, <1>5 DEF JobDelivers, CountedTo
<1>16. job'.status = "completed" => Finished'
  BY <1>1, <1>5, <1>14 DEF JobDelivers, Finished
<1>17. job.written <= Cardinality(Recorded')
  <2>1. \A i, j, k, n \in Nat : i <= j /\ n = j + k => i <= n
    OBVIOUS
  <2>2. Cardinality(Recorded') \in Nat
    BY <1>7, <1>8
  <2>3. job.written \in Nat
    BY <1>2
  <2> QED BY <1>7, <1>8, <1>11, <2>1, <2>2, <2>3
<1> QED BY <1>1, <1>13, <1>15, <1>16, <1>17 DEF JobDelivers

\* It then counts what it has written, or completes the job.
LEMMA RecordDelivers ==
  ASSUME IInv, JobDelivers, NEW w \in Workers, WorkerRecord(w), Delivers(w), Follows(w)
  PROVE  JobDelivers' /\ Delivers(w)'
<1>1. /\ pc[w] = "record" /\ pc'[w] = "checkpoint" /\ Exists(job)
      /\ job' = NormalizedWritten(job, Cardinality(Unseen(w)))
      /\ artifact' = artifact /\ UNCHANGED <<at, page>>
  BY DEF WorkerRecord, Follows, Holding, Goto, locals, results, IInv, TypeOK, Procs
<1>2. /\ job'.written = job.written + Cardinality(Unseen(w))
      /\ job'.cp = job.cp /\ job'.status = job.status
  BY <1>1 DEF NormalizedWritten, Jobs, IInv, TypeOK
<1>3. Recorded' = Recorded /\ Items(w)' = Items(w)
  BY <1>1 DEF Recorded, Items
<1>4. Delivers(w)'
  BY <1>1, <1>3 DEF Delivers
<1>5. job'.written <= Cardinality(Recorded')
  BY <1>1, <1>2, <1>3 DEF Delivers
<1> QED BY <1>2, <1>3, <1>4, <1>5 DEF JobDelivers, CountedTo, Finished

LEMMA CompleteDelivers ==
  ASSUME IInv, JobDelivers, NEW w \in Workers, WorkerComplete(w), Exists(job), Delivers(w)
  PROVE  JobDelivers' /\ Delivers(w)'
<1>1. /\ pc[w] = "complete" /\ pc'[w] = "writeback"
      /\ job' = Transition(job, "completed") /\ copy'[w] = Transition(job, "completed")
      /\ artifact' = artifact
  BY DEF WorkerComplete, Goto, results, IInv, TypeOK, Procs
<1>2. job'.cp = job.cp /\ job'.written = job.written /\ copy'[w].written = job'.written
  BY <1>1, TransitionKeeps, WrittenFields DEF IInv, TypeOK
<1>3. Recorded' = Recorded
  BY <1>1 DEF Recorded
<1>4. Finished'
  BY <1>1, <1>2, <1>3 DEF Delivers, Finished
<1> QED BY <1>1, <1>2, <1>3, <1>4 DEF JobDelivers, CountedTo, Delivers

\* Only who holds the lease writes, counts or completes.
LEMMA OnlyHolderWrites ==
  ASSUME TypeOK, HoldsInv, NEW w \in Workers,
         \/ Moves(w) \/ WorkerWrite(w) \/ WorkerRecord(w) \/ WorkerComplete(w),
         NEW v \in Workers, v # w
  PROVE  Delivers(v)'
<1>1. Holding(w)
  BY DEF Moves, WorkerPersist, WorkerCheckpoint, WorkerAdvance, WriteBack, WorkerWrite,
         WorkerRecord, WorkerComplete, Holding
<1>2. ~Holding(v)
  BY <1>1 DEF HoldsInv
<1>3. pc'[v] = pc[v]
  BY DEF Moves, WorkerPersist, WorkerCheckpoint, WorkerAdvance, WriteBack, WorkerWrite,
         WorkerRecord, WorkerComplete, Goto, TypeOK, Procs
<1> QED BY <1>2, <1>3 DEF Holding, Delivers

\* No file is torn, and nobody overrides the progress, without the history noting it.
LEMMA IntactKept == TypeOK /\ [Next]_vars => (intact' => intact)
<1> SUFFICES ASSUME TypeOK, [Next]_vars PROVE intact' => intact
  OBVIOUS
<1>1. ASSUME NEW w \in Workers, WorkerStep(w) PROVE intact' = intact
  <2>1. CASE \/ WorkerGet(w) \/ WorkerResume(w) \/ WorkerAcquire(w) \/ WorkerClient(w)
             \/ WorkerCheck(w) \/ WorkerHeartbeat(w) \/ WorkerList(w) \/ WorkerRetry(w)
    BY <2>1 DEF WorkerGet, WorkerResume, WorkerAcquire, WorkerClient, WorkerCheck,
                WorkerHeartbeat, WorkerList, WorkerRetry
  <2>2. CASE \/ WorkerListFails(w) \/ WorkerPersist(w) \/ WorkerRead(w) \/ WorkerWrite(w)
             \/ WorkerWriteFails(w) \/ WorkerRecord(w)
    BY <2>2 DEF WorkerListFails, WorkerPersist, WorkerRead, WorkerWrite, WorkerWriteFails,
                WorkerRecord
  <2>3. CASE \/ WorkerCheckpoint(w) \/ WorkerAdvance(w) \/ WorkerComplete(w) \/ WriteBack(w)
             \/ WorkerRelease(w) \/ WorkerFail(w)
    BY <2>3 DEF WorkerCheckpoint, WorkerAdvance, WorkerComplete, WriteBack, WorkerRelease,
                WorkerFail
  <2> QED BY <1>1, <2>1, <2>2, <2>3 DEF WorkerStep
<1>2. ASSUME NEW o \in Operators, Request(o) \/ Finish(o) PROVE intact' => intact
  BY <1>2 DEF Request, Finish, ResumeGet, Steer, ResumeStore, StartWorker, WriteBack
<1>3. CASE Queue \/ OperatorFail \/ OperatorCheckpoint \/ Reclaim \/ Reset \/ LeaseExpires
  BY <1>3 DEF Queue, OperatorFail, OperatorCheckpoint, Reclaim, Reset, LeaseExpires
<1>4. CASE Crash \/ CrashTearsFile \/ UNCHANGED vars
  BY <1>4 DEF Crash, CrashTearsFile, vars
<1> QED BY <1>1, <1>2, <1>3, <1>4 DEF Next, Step

LEMMA DeliverStep ==
  ASSUME Unmoved, "artifact" \notin Faults, IInv, HoldsInv, CountInv, RecordsInv, DeliverInv,
         [Next]_vars
  PROVE  DeliverInv'
<1> SUFFICES ASSUME intact' PROVE JobDelivers' /\ \A v \in Workers : Delivers(v)'
  BY DEF DeliverInv
<1>0. intact /\ JobDelivers /\ (\A v \in Workers : Delivers(v)) /\ \A v \in Workers : Follows(v)
  BY IntactKept DEF DeliverInv, IInv, CountInv
<1>1. CASE \E w \in Workers : Moves(w)
  <2>1. PICK w \in Workers : Moves(w)
    BY <1>1
  <2>2. JobDelivers' /\ Delivers(w)'
    BY <1>0, <2>1, MoveDelivers
  <2>3. \A v \in Workers : v # w => Delivers(v)'
    BY <2>1, OnlyHolderWrites DEF IInv
  <2> QED BY <2>2, <2>3
<1>2. CASE \E w \in Workers : WorkerWrite(w)
  <2>1. PICK w \in Workers : WorkerWrite(w)
    BY <1>2
  <2>2. SameProgress
    BY <2>1 DEF WorkerWrite, SameProgress
  <2>3. JobDelivers' /\ Delivers(w)'
    BY <1>0, <2>1, <2>2, WriteDelivers
  <2>4. \A v \in Workers : v # w => Delivers(v)'
    BY <2>1, OnlyHolderWrites DEF IInv
  <2> QED BY <2>3, <2>4
<1>3. CASE \E w \in Workers : WorkerRecord(w)
  <2>1. PICK w \in Workers : WorkerRecord(w)
    BY <1>3
  <2>2. JobDelivers' /\ Delivers(w)'
    BY <1>0, <2>1, RecordDelivers
  <2>3. \A v \in Workers : v # w => Delivers(v)'
    BY <2>1, OnlyHolderWrites DEF IInv
  <2> QED BY <2>2, <2>3
<1>4. CASE \E w \in Workers : WorkerComplete(w) /\ Exists(job)
  <2>1. PICK w \in Workers : WorkerComplete(w) /\ Exists(job)
    BY <1>4
  <2>2. JobDelivers' /\ Delivers(w)'
    BY <1>0, <2>1, CompleteDelivers
  <2>3. \A v \in Workers : v # w => Delivers(v)'
    BY <2>1, OnlyHolderWrites DEF IInv
  <2> QED BY <2>2, <2>3
<1>5. CASE Queue
  <2>1. /\ job' = NewJob /\ artifact' = artifact /\ \A v \in Workers : ~Holding(v)
        /\ pc' = pc
    BY <1>0, <1>5 DEF Queue, results, Follows, Exists
  <2>2. /\ job'.status = "queued" /\ job'.written = 0 /\ job'.cp = Start0
    BY <2>1 DEF NewJob, NoJob
  <2>3. Recorded' = Recorded
    BY <2>1 DEF Recorded
  <2>4. IsFiniteSet(Recorded) /\ Cardinality(Recorded) \in Nat
    BY ScanAssumption, FS_Subset, FS_CardinalityType DEF Recorded
  <2>5. JobDelivers'
    <3>1. (CountedTo(1, 0, 0))'
      BY <2>3, CountedStart DEF CountedTo
    <3>2. job'.cp.seg = 1 /\ job'.cp.mark = 0 /\ job'.cp.objs = 0
      BY <2>2 DEF Start0
    <3> QED BY <2>2, <2>3, <2>4, <3>1, <3>2 DEF JobDelivers, CountedTo
  <2> QED BY <2>1, <2>5 DEF Holding, Delivers
<1>6. CASE CrashTearsFile
  BY <1>6 DEF CrashTearsFile
<1>7. CASE /\ Quiet /\ SameProgress
           /\ \A w \in Workers : /\ ~Moves(w) /\ ~WorkerWrite(w) /\ ~WorkerRecord(w)
                                 /\ ~(WorkerComplete(w) /\ Exists(job))
  <2>1. /\ JobDelivers' /\ Recorded' = Recorded /\ Finished' = Finished
        /\ (CountedTo(job.cp.seg + 1, 0, job.cp.objs))'
             = CountedTo(job.cp.seg + 1, 0, job.cp.objs)
    BY <1>0, <1>7, QuietDelivers
  <2>2. ASSUME NEW v \in Workers PROVE Delivers(v)'
    <3>1. CASE UNCHANGED WorkersOwn(v)
      <4>1. /\ UNCHANGED <<pc[v], at[v], page[v], copy[v], snap[v]>>
            /\ artifact' = artifact /\ job'.written = job.written
        BY <1>7, <3>1 DEF WorkersOwn, Quiet
      <4>2. Items(v)' = Items(v)
        BY <4>1 DEF Items
      <4>3. Unseen(v)' = Unseen(v)
        BY <4>1, <4>2 DEF Unseen
      <4> QED BY <1>0, <2>1, <4>1, <4>2, <4>3 DEF Delivers
    <3>2. CASE WorkerStep(v)
      BY <1>0, <1>7, <3>2, QuietStepDelivers
    <3>3. CASE ~Holding(v)'
      BY <3>3 DEF Holding, Delivers
    <3> QED BY <3>1, <3>2, <3>3, WorkersFrame DEF IInv
  <2> QED BY <2>1, <2>2
<1>8. \/ SameProgress \/ Queue \/ CrashTearsFile \/ \E w \in Workers : Moves(w)
  BY JobFrame DEF IInv, CountInv
<1> QED BY <1>1, <1>2, <1>3, <1>4, <1>5, <1>6, <1>7, <1>8, ResultFrame DEF IInv, CountInv

LEMMA InitDelivers == Init => RecordsInv /\ DeliverInv
<1> SUFFICES ASSUME Init PROVE RecordsInv /\ DeliverInv
  OBVIOUS
<1>1. /\ job.status = "none" /\ job.written = 0 /\ artifact = NoRecords
      /\ job.cp.seg = 1 /\ job.cp.mark = 0 /\ job.cp.objs = 0
      /\ \A w \in Workers : snap[w] = NoRecords /\ pc[w] = "idle"
  BY DEF Init, NoJob, Start0, Procs
<1>2. RecordsInv
  BY <1>1 DEF RecordsInv, ArtifactUnique, NoRecords
<1>3. Cardinality(Recorded) \in Nat
  BY ScanAssumption, FS_Subset, FS_CardinalityType DEF Recorded
<1>4. CountedTo(job.cp.seg, job.cp.mark, job.cp.objs)
  BY <1>1, CountedStart
<1> QED BY <1>1, <1>2, <1>3, <1>4 DEF DeliverInv, JobDelivers, Delivers

\* What a completed job reports: no record is counted twice, and if the limit did
\* not end the scan, no place is left out and every blob has its record, however
\* often the scan was resumed, failed, crashed or completed late.
THEOREM CompletionIsCounted ==
  Unmoved /\ "artifact" \notin Faults => (Spec => []CompletedIsCounted)
<1> SUFFICES ASSUME Unmoved, "artifact" \notin Faults PROVE Spec => []CompletedIsCounted
  OBVIOUS
<1>1. IInv /\ HoldsInv /\ CountInv /\ RecordsInv /\ DeliverInv /\ [Next]_vars => DeliverInv'
  BY DeliverStep
<1>2. IInv /\ RecordsInv /\ [Next]_vars => RecordsInv'
  BY RecordsStep DEF IInv
<1>3. DeliverInv => CompletedIsCounted
  BY DEF DeliverInv, JobDelivers, Finished, CompletedIsCounted
<1> QED BY <1>1, <1>2, <1>3, AlwaysCounts, InitDelivers, PTL DEF Spec

-----------------------------------------------------------------------------
(* Why a worker ends: every step brings it closer to its end. *)

\* Where it stands in WorkerStep, with its loops as one phase.
Phase(w) ==
  CASE pc[w] = "get"       -> 10
    [] pc[w] = "resume"    -> 9
    [] pc[w] = "acquire"   -> 8
    [] pc[w] = "client"    -> 7
    [] pc[w] \in Looping   -> 6
    [] pc[w] = "complete"  -> 5
    [] pc[w] = "writeback" -> 4
    [] pc[w] \in {"return", "error"} -> 3
    [] pc[w] = "fail"      -> 2
    [] pc[w] = "done"      -> 1
    [] OTHER               -> 11

\* What its loops have left: segments, blobs of this segment, steps of this page,
\* attempts at listing it.
SegmentsLeft(w) == IF pc[w] \in Looping THEN Len(Listing) - at[w].seg ELSE 0

BlobsLeft(w) ==
  IF pc[w] \in Looping \ {"advance"} THEN Len(Listing[at[w].seg]) - at[w].mark ELSE 0

StepsLeft(w) ==
  CASE pc[w] = "check"      -> 9
    [] pc[w] = "heartbeat"  -> 8
    [] pc[w] = "list"       -> 7
    [] pc[w] = "persist"    -> 6
    [] pc[w] = "read"       -> 5
    [] pc[w] = "write"      -> 4
    [] pc[w] = "record"     -> 3
    [] pc[w] = "checkpoint" -> 2
    [] pc[w] = "advance"    -> 1
    [] OTHER                -> 0

TriesLeft(w) == IF pc[w] \in Looping THEN MaxPageRetries - tries[w] ELSE 0

Rank(w) ==
  [i \in 1 .. 5 |-> CASE i = 1 -> Phase(w) [] i = 2 -> SegmentsLeft(w)
                      [] i = 3 -> BlobsLeft(w) [] i = 4 -> StepsLeft(w)
                      [] i = 5 -> TriesLeft(w)]

Ranks == [1 .. 5 -> Nat]

Below == {p \in Nat \X Nat : p[1] < p[2]}

\* The lexicographic order of ranks.
Closer == LexProductOrdering(Below, Nat, 5)

\* A page that is not the last of its segment holds a blob.
PageMoves == \A w \in Workers : pc[w] \in Paged /\ page[w].next # 0 => at[w].mark < page[w].to

LEMMA RankType ==
  ASSUME IInv, NEW w \in Workers
  PROVE  /\ Phase(w) \in Nat /\ SegmentsLeft(w) \in Nat /\ BlobsLeft(w) \in Nat
         /\ StepsLeft(w) \in Nat /\ TriesLeft(w) \in Nat
         /\ Rank(w) \in Ranks
<1>1. Phase(w) \in Nat
  BY DEF Phase
<1>2. StepsLeft(w) \in Nat
  BY DEF StepsLeft
<1>3. TriesLeft(w) \in Nat
  BY ScanAssumption DEF TriesLeft, IInv, TypeOK
<1>4. ASSUME pc[w] \in Looping
      PROVE  /\ Len(Listing) - at[w].seg \in Nat
             /\ Len(Listing[at[w].seg]) - at[w].mark \in Nat
  <2>1. /\ at[w].seg \in Segments /\ at[w].seg \in Nat /\ at[w].mark \in Nat
        /\ at[w].mark <= Len(Listing[at[w].seg])
    BY <1>4 DEF IInv, TypeOK, AllPlaced, WorkerPlaced, Placed
  <2> QED BY <2>1, ListingFacts
<1>5. SegmentsLeft(w) \in Nat
  BY <1>4 DEF SegmentsLeft
<1>6. BlobsLeft(w) \in Nat
  BY <1>4 DEF BlobsLeft
<1>7. Rank(w) \in Ranks
  <2>1. \A i \in 1 .. 5 : Rank(w)[i] \in Nat
    BY <1>1, <1>2, <1>3, <1>5, <1>6 DEF Rank
  <2> QED BY <2>1 DEF Rank, Ranks
<1> QED BY <1>1, <1>2, <1>3, <1>5, <1>6, <1>7

LEMMA CloserWellFounded == IsWellFoundedOn(Closer, Ranks)
<1>1. IsWellFoundedOn(Below, Nat)
  BY NatLessThanWellFounded DEF OpToRel, Below
<1>2. 5 \in Nat
  OBVIOUS
<1> QED BY <1>1, <1>2, WFLexProductOrdering DEF Closer, Ranks

\* A rank that is lower at one place, and the same before it, is closer.
LEMMA CloserAt ==
  ASSUME NEW r \in Ranks, NEW s \in Ranks, NEW j \in 1 .. 5,
         \A i \in 1 .. 5 : i < j => r[i] = s[i], r[j] < s[j]
  PROVE  <<r, s>> \in Closer
<1>1. <<r[j], s[j]>> \in Below
  BY DEF Below, Ranks
<1>2. \A i \in 1 .. (j - 1) : r[i] = s[i]
  OBVIOUS
<1>3. <<r, s>> \in Ranks \X Ranks
  OBVIOUS
<1> QED BY <1>1, <1>2, <1>3 DEF Closer, LexProductOrdering, Ranks

\* The same, part by part.
Drops(w) ==
  \/ Phase(w)' < Phase(w)
  \/ /\ Phase(w)' = Phase(w)
     /\ \/ SegmentsLeft(w)' < SegmentsLeft(w)
        \/ /\ SegmentsLeft(w)' = SegmentsLeft(w)
           /\ \/ BlobsLeft(w)' < BlobsLeft(w)
              \/ /\ BlobsLeft(w)' = BlobsLeft(w)
                 /\ \/ StepsLeft(w)' < StepsLeft(w)
                    \/ StepsLeft(w)' = StepsLeft(w) /\ TriesLeft(w)' < TriesLeft(w)

LEMMA DropsCloser ==
  ASSUME NEW w \in Workers, Rank(w) \in Ranks, Rank(w)' \in Ranks, Drops(w)
  PROVE  <<Rank(w)', Rank(w)>> \in Closer
<1>2. /\ Rank(w)[1] = Phase(w) /\ Rank(w)[2] = SegmentsLeft(w) /\ Rank(w)[3] = BlobsLeft(w)
      /\ Rank(w)[4] = StepsLeft(w) /\ Rank(w)[5] = TriesLeft(w)
  BY DEF Rank
<1>3. /\ Rank(w)'[1] = Phase(w)' /\ Rank(w)'[2] = SegmentsLeft(w)'
      /\ Rank(w)'[3] = BlobsLeft(w)' /\ Rank(w)'[4] = StepsLeft(w)'
      /\ Rank(w)'[5] = TriesLeft(w)'
  BY DEF Rank
<1> PICK r \in Ranks, s \in Ranks : r = Rank(w)' /\ s = Rank(w)
  OBVIOUS
<1>4. \/ r[1] < s[1]
      \/ r[1] = s[1] /\ r[2] < s[2]
      \/ r[1] = s[1] /\ r[2] = s[2] /\ r[3] < s[3]
      \/ r[1] = s[1] /\ r[2] = s[2] /\ r[3] = s[3] /\ r[4] < s[4]
      \/ r[1] = s[1] /\ r[2] = s[2] /\ r[3] = s[3] /\ r[4] = s[4] /\ r[5] < s[5]
  BY <1>2, <1>3 DEF Drops
<1>5. \E j \in 1 .. 5 : (\A i \in 1 .. 5 : i < j => r[i] = s[i]) /\ r[j] < s[j]
  BY <1>4
<1> QED BY <1>5, CloserAt

\* Every step of a worker, whatever the others do in between.
LEMMA WorkerStepDrops ==
  ASSUME IInv, PageMoves, NEW w \in Workers, WorkerStep(w)
  PROVE  Drops(w)
<1>1. /\ pc \in [Procs -> Labels] /\ w \in Procs
      /\ at \in [Workers -> [seg : Nat, mark : Nat]]
      /\ page \in [Workers -> [to : Nat, next : Nat]]
      /\ tries \in [Workers -> 0 .. MaxPageRetries]
  BY DEF IInv, TypeOK, Procs
<1>2. pc[w] \in Looping =>
        /\ at[w].seg \in Segments /\ Len(Listing[at[w].seg]) \in Nat
        /\ at[w].mark <= Len(Listing[at[w].seg])
  BY ListingFacts DEF IInv, AllPlaced, WorkerPlaced, Placed
<1> USE <1>1 DEF Goto, locals
<1>3. CASE WorkerGet(w) \/ WorkerResume(w) \/ WorkerAcquire(w) \/ WorkerClient(w)
  BY <1>3 DEF WorkerGet, WorkerResume, WorkerAcquire, WorkerClient, Drops, Phase, Looping
<1>4. CASE WorkerCheck(w) \/ WorkerHeartbeat(w) \/ WorkerPersist(w) \/ WorkerRead(w)
           \/ WorkerWrite(w) \/ WorkerWriteFails(w) \/ WorkerRecord(w)
  BY <1>4 DEF WorkerCheck, WorkerHeartbeat, WorkerPersist, WorkerRead, WorkerWrite,
              WorkerWriteFails, WorkerRecord, Drops, Phase, SegmentsLeft, BlobsLeft,
              StepsLeft, Looping
<1>5. CASE WorkerList(w) \/ WorkerListFails(w)
  BY <1>5 DEF WorkerList, WorkerListFails, Drops, Phase, SegmentsLeft, BlobsLeft, StepsLeft,
              Looping
<1>6. CASE WorkerRetry(w)
  <2>1. tries'[w] = tries[w] + 1 /\ tries[w] \in Nat /\ MaxPageRetries \in Nat
    BY <1>6, ScanAssumption DEF WorkerRetry
  <2>2. pc' = pc /\ at' = at /\ pc[w] = "list"
    BY <1>6 DEF WorkerRetry
  <2>3. TriesLeft(w)' < TriesLeft(w)
    BY <2>1, <2>2 DEF TriesLeft, Looping
  <2> QED BY <2>2, <2>3 DEF Drops, Phase, SegmentsLeft, BlobsLeft, StepsLeft
<1>7. CASE WorkerCheckpoint(w)
  <2>1. pc[w] = "checkpoint" /\ pc[w] \in Looping /\ pc[w] \in Paged
    BY <1>7 DEF WorkerCheckpoint, Looping, Paged
  <2>2. CASE pc'[w] \in {"error", "complete"}
    BY <2>1, <2>2 DEF Drops, Phase, Looping
  <2>3. CASE pc'[w] \notin {"error", "complete"}
    <3>1. /\ at'[w].seg = at[w].seg /\ at'[w].mark = page[w].next
          /\ \/ pc'[w] = "check" /\ page[w].next > 0
             \/ pc'[w] = "advance"
      BY <1>7, <2>3 DEF WorkerCheckpoint, AfterPage
    <3>2. Phase(w)' = Phase(w) /\ SegmentsLeft(w)' = SegmentsLeft(w)
      BY <2>1, <3>1 DEF Phase, SegmentsLeft, Looping
    <3>3. CASE pc'[w] = "check" /\ page[w].next > 0
      <4>1. at[w].mark < page[w].next /\ page[w].next <= Len(Listing[at[w].seg])
        <5>1. page[w].to <= Len(Listing[at[w].seg]) /\ page[w].next \in {0, page[w].to}
          BY <2>1 DEF IInv, AllPlaced, WorkerPlaced
        <5>2. page[w].next # 0
          BY <3>3
        <5>3. at[w].mark < page[w].to
          BY <2>1, <5>2 DEF PageMoves
        <5> QED BY <5>1, <5>2, <5>3
      <4>2. BlobsLeft(w)' = Len(Listing[at[w].seg]) - page[w].next
        BY <3>1, <3>3 DEF BlobsLeft, Looping
      <4>3. BlobsLeft(w) = Len(Listing[at[w].seg]) - at[w].mark
        BY <2>1 DEF BlobsLeft
      <4>4. BlobsLeft(w)' < BlobsLeft(w)
        BY <1>2, <2>1, <4>1, <4>2, <4>3
      <4> QED BY <3>2, <4>4 DEF Drops
    <3>4. CASE pc'[w] = "advance"
      <4>1. BlobsLeft(w)' = 0 /\ StepsLeft(w)' = 1 /\ StepsLeft(w) = 2
        BY <2>1, <3>4 DEF BlobsLeft, StepsLeft
      <4>2. BlobsLeft(w) \in Nat
        BY RankType
      <4> QED BY <3>2, <4>1, <4>2 DEF Drops
    <3> QED BY <3>1, <3>3, <3>4
  <2> QED BY <2>2, <2>3
<1>8. CASE WorkerAdvance(w)
  <2>1. pc[w] = "advance" /\ pc'[w] = "check" /\ at'[w].seg = at[w].seg + 1
    BY <1>8 DEF WorkerAdvance
  <2>2. Phase(w)' = Phase(w)
    BY <2>1 DEF Phase, Looping
  <2>3. SegmentsLeft(w)' < SegmentsLeft(w)
    BY <1>2, <2>1, ListingFacts DEF SegmentsLeft, Looping
  <2> QED BY <2>2, <2>3 DEF Drops
<1>9. CASE WorkerComplete(w) \/ WriteBack(w) \/ WorkerRelease(w) \/ WorkerFail(w)
  BY <1>9 DEF WorkerComplete, WriteBack, WorkerRelease, WorkerFail, Drops, Phase, Looping
<1> QED BY <1>3, <1>4, <1>5, <1>6, <1>7, <1>8, <1>9 DEF WorkerStep

\* What happens to a worker in a step of its own and in those of the others, which
\* start it, end it in a crash, or leave it alone.
LEMMA WorkerFates ==
  ASSUME TypeOK, [Next]_vars, NEW w \in Workers
  PROVE  \/ UNCHANGED <<pc[w], at[w], page[w], tries[w]>>
         \/ WorkerStep(w)
         \/ pc[w] = "idle" /\ pc'[w] = "get"
         \/ pc'[w] = IF pc[w] = "idle" THEN "idle" ELSE "done"
<1>0. /\ pc \in [Procs -> Labels]
      /\ at \in [Workers -> [seg : Nat, mark : Nat]]
      /\ page \in [Workers -> [to : Nat, next : Nat]]
      /\ tries \in [Workers -> 0 .. MaxPageRetries]
      /\ Workers \subseteq Procs /\ Operators \subseteq Procs /\ Operators \cap Workers = {}
  BY ScanAssumption DEF TypeOK, Procs
<1> DEFINE Own == <<pc[w], at[w], page[w], tries[w]>>
<1> USE <1>0 DEF Goto, locals
<1>1. ASSUME NEW v \in Workers, WorkerStep(v), v # w PROVE UNCHANGED Own
  <2>1. CASE WorkerGet(v) \/ WorkerResume(v) \/ WorkerAcquire(v) \/ WorkerClient(v) \/ WorkerCheck(v)
    BY <1>1, <2>1 DEF WorkerGet, WorkerResume, WorkerAcquire, WorkerClient, WorkerCheck
  <2>2. CASE \/ WorkerHeartbeat(v) \/ WorkerList(v) \/ WorkerRetry(v) \/ WorkerListFails(v)
             \/ WorkerPersist(v) \/ WorkerRead(v) \/ WorkerWrite(v) \/ WorkerWriteFails(v)
    BY <1>1, <2>2 DEF WorkerHeartbeat, WorkerList, WorkerRetry, WorkerListFails, WorkerPersist,
                      WorkerRead, WorkerWrite, WorkerWriteFails
  <2>3. CASE WorkerRecord(v) \/ WorkerAdvance(v) \/ WorkerComplete(v) \/ WriteBack(v)
             \/ WorkerRelease(v) \/ WorkerFail(v)
    BY <1>1, <2>3 DEF WorkerRecord, WorkerAdvance, WorkerComplete, WriteBack, WorkerRelease,
                      WorkerFail
  <2>4. CASE WorkerCheckpoint(v)
    BY <1>1, <2>4 DEF WorkerCheckpoint
  <2> QED BY <1>1, <2>1, <2>2, <2>3, <2>4 DEF WorkerStep
<1>2. ASSUME NEW o \in Operators, Request(o) \/ Finish(o)
      PROVE  UNCHANGED Own \/ (pc[w] = "idle" /\ pc'[w] = "get")
  <2>0. o # w /\ o \in Procs
    BY <1>0
  <2>1. CASE Request(o) \/ ResumeStore(o) \/ WriteBack(o)
    BY <2>0, <1>2, <2>1 DEF Request, ResumeGet, Steer, ResumeStore, WriteBack
  <2>2. ASSUME NEW v \in Workers, StartWorker(o, v)
        PROVE  UNCHANGED Own \/ (pc[w] = "idle" /\ pc'[w] = "get")
    <3>1. /\ pc' = [pc EXCEPT ![o] = "idle", ![v] = "get"] /\ pc[v] = "idle"
          /\ UNCHANGED <<at, page, tries>>
      BY <2>2 DEF StartWorker
    <3>2. v # w => pc'[w] = pc[w]
      BY <2>0, <3>1
    <3>3. pc'[v] = "get"
      BY <2>0, <3>1
    <3>4. CASE v = w
      BY <3>1, <3>3, <3>4
    <3>5. CASE v # w
      BY <3>1, <3>2, <3>5
    <3> QED BY <3>4, <3>5
  <2> QED BY <1>2, <2>1, <2>2 DEF Finish
<1>3. CASE Queue \/ OperatorFail \/ OperatorCheckpoint \/ Reclaim \/ Reset \/ LeaseExpires
  BY <1>3 DEF Queue, OperatorFail, OperatorCheckpoint, Reclaim, Reset, LeaseExpires
<1>4. CASE Crash \/ CrashTearsFile
  BY <1>4 DEF Crash, CrashTearsFile, ProcessesDie
<1>5. CASE UNCHANGED vars
  BY <1>5 DEF vars
<1> QED BY <1>1, <1>2, <1>3, <1>4, <1>5 DEF Next, Step

\* A step that is not a worker's own leaves its rank alone or lowers it.
LEMMA OthersDrop ==
  ASSUME TypeOK, [Next]_vars, NEW w \in Workers, ~WorkerStep(w)
  PROVE  Rank(w)' = Rank(w) \/ Drops(w)
<1>0. pc[w] \in Labels
  BY DEF TypeOK, Procs
<1>1. ASSUME UNCHANGED <<pc[w], at[w], tries[w]>> PROVE Rank(w)' = Rank(w)
  <2>1. Phase(w)' = Phase(w) /\ StepsLeft(w)' = StepsLeft(w)
    BY <1>1 DEF Phase, StepsLeft
  <2>2. /\ SegmentsLeft(w)' = SegmentsLeft(w) /\ BlobsLeft(w)' = BlobsLeft(w)
        /\ TriesLeft(w)' = TriesLeft(w)
    BY <1>1 DEF SegmentsLeft, BlobsLeft, TriesLeft
  <2> QED BY <2>1, <2>2 DEF Rank
<1>2. CASE pc[w] = "idle" /\ pc'[w] = "get"
  BY <1>2 DEF Drops, Phase, Looping
<1>3. ASSUME pc[w] \notin {"idle", "done"}, pc'[w] = "done" PROVE Drops(w)
  <2>1. Phase(w) > 1
    BY <1>3 DEF Phase
  <2>2. Phase(w)' = 1
    BY <1>3 DEF Phase, Looping
  <2> QED BY <2>1, <2>2 DEF Drops
<1>4. ASSUME pc[w] \in {"idle", "done"}, pc'[w] = pc[w] PROVE Rank(w)' = Rank(w)
  <2>1. Phase(w)' = Phase(w) /\ StepsLeft(w)' = StepsLeft(w)
    BY <1>4 DEF Phase, StepsLeft
  <2>2. /\ SegmentsLeft(w)' = SegmentsLeft(w) /\ BlobsLeft(w)' = BlobsLeft(w)
        /\ TriesLeft(w)' = TriesLeft(w)
    BY <1>4 DEF SegmentsLeft, BlobsLeft, TriesLeft, Looping
  <2> QED BY <2>1, <2>2 DEF Rank
<1> QED BY <1>1, <1>2, <1>3, <1>4, WorkerFates

\* PageMoves is inductive, given the places: a listing that names a next marker
\* got past its own.
LEMMA PageMovesStep == IInv /\ PageMoves /\ [Next]_vars => PageMoves'
<1> SUFFICES ASSUME IInv, PageMoves, [Next]_vars, NEW w \in Workers,
                    pc'[w] \in Paged, page'[w].next # 0
             PROVE  at'[w].mark < page'[w].to
  BY DEF PageMoves
<1>0. /\ pc \in [Procs -> Labels] /\ w \in Procs /\ w \in Workers
      /\ at \in [Workers -> [seg : Nat, mark : Nat]]
      /\ page \in [Workers -> [to : Nat, next : Nat]]
      /\ objs \in [Workers -> [job : Nat, current : Nat]]
  BY DEF IInv, TypeOK, Procs
<1>1. CASE UNCHANGED <<pc[w], at[w], page[w], tries[w]>>
  BY <1>1 DEF PageMoves
<1>2. CASE pc'[w] \in {"get", "idle", "done"}
  BY <1>2 DEF Paged
<1>3. CASE WorkerStep(w)
  <2>1. CASE WorkerList(w)
    <3>1. pc[w] = "list" /\ at' = at /\ page'[w] = ListedPage(at[w], objs[w].job)
      BY <1>0, <2>1 DEF WorkerList
    <3>2. at[w] \in [seg : Nat, mark : Nat] /\ objs[w].job \in Nat /\ at[w].seg \in Segments
      BY <1>0, <3>1 DEF IInv, AllPlaced, WorkerPlaced, Looping
    <3>3. Len(Listing[at[w].seg]) \in Nat
      BY <3>2, ListingFacts
    <3>4. ListedPage(at[w], objs[w].job).next # 0 =>
            at[w].mark < ListedPage(at[w], objs[w].job).to
      BY <3>2, <3>3, ScanAssumption DEF ListedPage, Remaining
    <3> QED BY <3>1, <3>4
  <2>2. CASE \/ WorkerPersist(w) \/ WorkerRead(w) \/ WorkerWrite(w) \/ WorkerWriteFails(w)
             \/ WorkerRecord(w)
    BY <1>0, <2>2 DEF WorkerPersist, WorkerRead, WorkerWrite, WorkerWriteFails, WorkerRecord,
                      PageMoves, Goto, locals, Paged
  <2>3. CASE \/ WorkerGet(w) \/ WorkerResume(w) \/ WorkerAcquire(w) \/ WorkerClient(w)
             \/ WorkerCheck(w) \/ WorkerHeartbeat(w) \/ WorkerRetry(w) \/ WorkerListFails(w)
    BY <1>0, <2>3 DEF WorkerGet, WorkerResume, WorkerAcquire, WorkerClient, WorkerCheck,
                      WorkerHeartbeat, WorkerRetry, WorkerListFails, Goto, Paged
  <2>4. CASE WorkerAdvance(w) \/ WorkerComplete(w) \/ WriteBack(w) \/ WorkerRelease(w)
             \/ WorkerFail(w)
    BY <1>0, <2>4 DEF WorkerAdvance, WorkerComplete, WriteBack, WorkerRelease, WorkerFail,
                      Goto, Paged
  <2>5. CASE WorkerCheckpoint(w)
    BY <1>0, <2>5 DEF WorkerCheckpoint, AfterPage, Goto, Paged
  <2> QED BY <1>3, <2>1, <2>2, <2>3, <2>4, <2>5 DEF WorkerStep
<1> QED BY <1>1, <1>2, <1>3, WorkerFates DEF IInv

RankOK == \A w \in Workers : Rank(w) \in Ranks

\* A worker ends: in a well-founded order, each of its steps lowers its rank,
\* whatever happened to the job, and no step of anyone raises it.  So after it is
\* started it takes finitely many steps.
THEOREM WorkersWearOff ==
  /\ IsWellFoundedOn(Closer, Ranks)
  /\ Spec => [][\A w \in Workers :
                  WorkerStep(w) \/ Rank(w)' # Rank(w) => <<Rank(w)', Rank(w)>> \in Closer]_vars
<1>1. Init => PageMoves
  BY DEF Init, PageMoves, Paged, Procs
<1>2. IInv => RankOK
  <2> SUFFICES ASSUME IInv PROVE RankOK
    OBVIOUS
  <2>1. ASSUME NEW w \in Workers PROVE Rank(w) \in Ranks
    BY RankType
  <2> QED BY <2>1, Zenon DEF RankOK
<1>3. IInv /\ PageMoves /\ RankOK /\ RankOK' /\ [Next]_vars =>
        [\A w \in Workers :
           WorkerStep(w) \/ Rank(w)' # Rank(w) => <<Rank(w)', Rank(w)>> \in Closer]_vars
  <2> SUFFICES ASSUME IInv, PageMoves, RankOK, RankOK', [Next]_vars, NEW w \in Workers,
                      WorkerStep(w) \/ Rank(w)' # Rank(w)
               PROVE  <<Rank(w)', Rank(w)>> \in Closer
    OBVIOUS
  <2>1. Drops(w)
    BY WorkerStepDrops, OthersDrop DEF IInv
  <2>2. Rank(w) \in Ranks /\ Rank(w)' \in Ranks
    BY DEF RankOK
  <2> QED BY <2>1, <2>2, DropsCloser
<1>4. Spec => [](IInv /\ PageMoves /\ RankOK)
  BY <1>1, <1>2, InitIInv, NextIInv, PageMovesStep, PTL DEF Spec
<1>5. Spec => [][\A w \in Workers :
                   WorkerStep(w) \/ Rank(w)' # Rank(w) => <<Rank(w)', Rank(w)>> \in Closer]_vars
  BY <1>3, <1>4, PTL DEF Spec
<1> QED BY <1>5, CloserWellFounded

=============================================================================
