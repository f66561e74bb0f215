----------------------------- MODULE MCAsyncScan -----------------------------
(* Small accounts and the symmetry for model checking AsyncScan. *)
EXTENDS AsyncScanProperties, TLC

\* Two prefixes that overlap in blob 3, and one that matches nothing between
\* them; with pages of two blobs, the first prefix has two pages.
OverlappingListing == <<<<1, 2, 3>>, <<>>, <<3, 4>>>>

\* With pages of one blob, a prefix of one page and one of two that ends in it.
RepeatingListing == <<<<2>>, <<1, 2>>>>

\* Two prefixes of one blob each.
TinyListing == <<<<1>>, <<2>>>>

\* Bound: a behaviour is followed up to the step by which an operator moves the
\* checkpoint, completes the job or removes results, but no further.
Untouched == intact

\* Bound: when saves fail, the file holds a job without a lease (or none).  A
\* lease in an older file has expired or expires soon after the restart.
LeaselessFile == jobFile = job \/ jobFile.owner = NoWorker

\* A disk that recovers brings the file back to the state in memory, as if no
\* save had failed: no state is missed if it recovers with the restart only.
FailsUntilRestart == jobFile # job /\ job' # job => jobFile' = jobFile

\* Without a limit the counters of a job decide nothing: states that differ in
\* them alone are one.
Uncounted(j) == <<j.status, j.cancel, j.cp.seg, j.cp.mark, j.owner, j.live>>

CountersIgnored ==
  <<Uncounted(job), Uncounted(jobFile), results, intact, pc,
    [p \in Procs |-> Uncounted(copy[p])], at, page, tries, snap>>

ProcessSymmetry == Permutations(Workers) \cup Permutations(Operators)
=============================================================================
