---------------------------- MODULE Orchestrator ----------------------------
(***************************************************************************)
(* The execution orchestrator (internal/execution) over the policy         *)
(* resolver: calls of Start report to the manager's maps, resolve the      *)
(* policy of their lease, store the manifest of the execution, and publish *)
(* search documents.  Several calls may name one execution; the manager's  *)
(* maps are in memory, the manifest and the documents are not.             *)
(*                                                                         *)
(* What a call computes between these steps depends on nothing that other  *)
(* calls change: request envelope, summary, receipts, provenance and the   *)
(* rows of the manifest are operators of ExecutionRecords.  Callers of the *)
(* resolver's own endpoint are left to PolicyResolution, and so are leases *)
(* that ValidateLease refuses.                                             *)
(***************************************************************************)
EXTENDS PolicyResolution, ExecutionRecords

CONSTANTS Executions,
          Requests,     \* what calls ask for
          Searchable    \* the search index is not configured as disabled

ASSUME RequestAssumption ==
  /\ Searchable \in BOOLEAN
  /\ Requests \subseteq [execution : Executions, lease : {l \in Leases : l.lkg}, index : BOOLEAN]
  /\ Requests # {}

VARIABLES
  phase,       \* where each call stands
  request,     \* what it was asked for
  behind,      \* its search documents were not published
  statuses,    \* the manager's statuses, by execution
  summaries,   \* whose summary the manager has
  provenances, \* whose provenance the manager has
  manifests,   \* the manifest in the local store
  indexed,     \* whose documents were the last to be put into the search index
  overlapped   \* history: executions that two calls worked on at a time

calls == <<phase, request, behind>>
manager == <<statuses, summaries, provenances>>
records == <<manifests, indexed>>
runVars == <<calls, manager, records, overlapped>>

\* A call of Start resolves one policy.
Calls == Resolvers

Phases == {"ready", "policy", "prepare", "manifest", "index", "status", "summary",
           "provenance", "done"}

AnyRequest == CHOOSE q \in Requests : TRUE

Report(c, status, degraded) == [status |-> status, by |-> c, degraded |-> degraded]
NoReport == Report(Nobody, "none", FALSE)
Reports == [status : {"none", "RUNNING", "COMPLETED", "FAILED"},
            by : Calls \cup {Nobody}, degraded : BOOLEAN]

\* The policy that the manifest names is the lease's; the one that was used
\* may be another one.
Manifest == [by : Calls, named : Artifacts, used : Context, fallback : BOOLEAN]
NoManifest == [by |-> Nobody]

Execution(c) == request[c].execution
Busy(c) == phase[c] \notin {"ready", "done"}
Enter(c, label) == phase' = [phase EXCEPT ![c] = label]
Save(c, status, degraded) ==
  statuses' = [statuses EXCEPT ![Execution(c)] = Report(c, status, degraded)]

-----------------------------------------------------------------------------
(* Weakened forms of operators below, which the properties must tell apart. *)

\* Any answer of the resolver is taken.
PolicyReadyAlways(c) == TRUE

\* The status does not tell that last-known-good was used.
FallbackUsedSilently(c) == FALSE

\* A call that fails returns without saving its status.
FailSilently(c) ==
  /\ Enter(c, "done")
  /\ UNCHANGED statuses

\* The error of SaveManifest is dropped.
SaveManifestLeniently(c) ==
  /\ phase[c] = "manifest"
  /\ manifests' \in {manifests,
       [manifests EXCEPT ![Execution(c)] =
         [by |-> c, named |-> request[c].lease.hash, used |-> answer[c].ctx,
          fallback |-> answer[c].status = "degraded_ready"]]}
  /\ Enter(c, IF request[c].index THEN "index" ELSE "status")
  /\ UNCHANGED <<vars, request, behind, manager, indexed, overlapped>>

\* A summary that is there is kept.
SaveSummaryOnce(c) ==
  /\ phase[c] = "summary"
  /\ summaries' = [summaries EXCEPT ![Execution(c)] = IF @ = Nobody THEN c ELSE @]
  /\ Enter(c, "provenance")
  /\ UNCHANGED <<vars, request, behind, statuses, provenances, records, overlapped>>

-----------------------------------------------------------------------------
(* Start. *)

PolicyReady(c) == answer[c].status \in {"activated", "degraded_ready"}
FallbackUsed(c) == answer[c].status = "degraded_ready"

\* Every early return.
Fail(c) ==
  /\ Save(c, "FAILED", FALSE)
  /\ Enter(c, "done")

\* The envelope is not valid.
Reject(c, e) ==
  /\ phase[c] = "ready"
  /\ statuses' = [statuses EXCEPT ![e] = Report(c, "FAILED", FALSE)]
  /\ Enter(c, "done")
  /\ UNCHANGED <<vars, request, behind, summaries, provenances, records, overlapped>>

\* The envelope is valid: the status is saved, and the resolver called.
Start(c, q) ==
  /\ phase[c] = "ready"
  /\ Request(c, q.lease)
  /\ request' = [request EXCEPT ![c] = q]
  /\ statuses' = [statuses EXCEPT ![q.execution] = Report(c, "RUNNING", FALSE)]
  /\ Enter(c, "policy")
  /\ overlapped' = IF \E d \in Calls : Busy(d) /\ Execution(d) = q.execution
                   THEN overlapped \cup {q.execution}
                   ELSE overlapped
  /\ UNCHANGED <<behind, summaries, provenances, records>>

PolicyResolved(c) ==
  /\ phase[c] = "policy"
  /\ pc[c] = "idle"
  /\ IF PolicyReady(c)
       THEN Enter(c, "prepare") /\ UNCHANGED statuses
       ELSE Fail(c)
  /\ UNCHANGED <<vars, request, behind, summaries, provenances, records, overlapped>>

\* The workflow is resolved, the batch loaded, the Guardian asked: each may
\* fail, and nothing that follows depends on what they say.
Prepare(c) ==
  /\ phase[c] = "prepare"
  /\ \/ Enter(c, "manifest") /\ UNCHANGED statuses
     \/ Fail(c)
  /\ UNCHANGED <<vars, request, behind, summaries, provenances, records, overlapped>>

\* In one transaction, that replaces the execution's manifest.
SaveManifest(c) ==
  /\ phase[c] = "manifest"
  /\ \/ /\ manifests' = [manifests EXCEPT ![Execution(c)] =
             [by |-> c, named |-> request[c].lease.hash, used |-> answer[c].ctx,
              fallback |-> FallbackUsed(c)]]
        /\ Enter(c, IF request[c].index THEN "index" ELSE "status")
        /\ UNCHANGED statuses
     \/ /\ Fail(c)
        /\ UNCHANGED manifests
  /\ UNCHANGED <<vars, request, behind, summaries, provenances, indexed, overlapped>>

\* A disabled index takes nothing, and that is no error.  If publishing fails,
\* the documents may still be in the local mirror.
PublishDocuments(c) ==
  /\ phase[c] = "index"
  /\ LET published == IF Searchable THEN [indexed EXCEPT ![Execution(c)] = c] ELSE indexed IN
       \/ /\ indexed' = published
          /\ UNCHANGED behind
       \/ /\ indexed' \in {indexed, published}
          /\ behind' = [behind EXCEPT ![c] = TRUE]
  /\ Enter(c, "status")
  /\ UNCHANGED <<vars, request, manager, manifests, overlapped>>

SaveStatus(c) ==
  /\ phase[c] = "status"
  /\ Save(c, "COMPLETED", FallbackUsed(c) \/ behind[c])
  /\ Enter(c, "summary")
  /\ UNCHANGED <<vars, request, behind, summaries, provenances, records, overlapped>>

SaveSummary(c) ==
  /\ phase[c] = "summary"
  /\ summaries' = [summaries EXCEPT ![Execution(c)] = c]
  /\ Enter(c, "provenance")
  /\ UNCHANGED <<vars, request, behind, statuses, provenances, records, overlapped>>

SaveProvenance(c) ==
  /\ phase[c] = "provenance"
  /\ provenances' = [provenances EXCEPT ![Execution(c)] = c]
  /\ Enter(c, "done")
  /\ UNCHANGED <<vars, request, behind, statuses, summaries, records, overlapped>>

\* The agent ends, with every call that is under way.
CrashAgent ==
  /\ Crash
  /\ phase' = [c \in Calls |-> IF phase[c] = "ready" THEN "ready" ELSE "done"]
  /\ behind' = [c \in Calls |-> FALSE]
  /\ statuses' = [e \in Executions |-> NoReport]
  /\ summaries' = [e \in Executions |-> Nobody]
  /\ provenances' = [e \in Executions |-> Nobody]
  /\ UNCHANGED <<request, records, overlapped>>

-----------------------------------------------------------------------------
RunInit ==
  /\ Init
  /\ phase = [c \in Calls |-> "ready"]
  /\ request = [c \in Calls |-> AnyRequest]
  /\ behind = [c \in Calls |-> FALSE]
  /\ statuses = [e \in Executions |-> NoReport]
  /\ summaries = [e \in Executions |-> Nobody]
  /\ provenances = [e \in Executions |-> Nobody]
  /\ manifests = [e \in Executions |-> NoManifest]
  /\ indexed = [e \in Executions |-> Nobody]
  /\ overlapped = {}

Work(c) ==
  \/ PolicyResolved(c) \/ Prepare(c) \/ SaveManifest(c) \/ PublishDocuments(c)
  \/ SaveStatus(c) \/ SaveSummary(c) \/ SaveProvenance(c)

\* The resolver and the publisher.
Elsewhere ==
  /\ \/ \E r \in Resolvers : Step(r)
     \/ \E v \in Versions : Sign(v) \/ \E a \in Artifacts \cup {Missing} : Publish(v, a)
     \/ SetGitUnavailable
  /\ UNCHANGED runVars

RunNext ==
  \/ \E c \in Calls : \/ Work(c)
                      \/ \E e \in Executions : Reject(c, e)
                      \/ \E q \in Requests : Start(c, q)
  \/ Elsewhere
  \/ CrashAgent

RunSpec == RunInit /\ [][RunNext]_<<vars, runVars>>

\* Handlers go on, as in PolicyResolution.
RunFairness ==
  /\ \A r \in Resolvers : SF_<<vars, runVars>>(Step(r) /\ UNCHANGED runVars)
  /\ \A c \in Calls : WF_<<vars, runVars>>(Work(c))

RunFairSpec == RunSpec /\ RunFairness

-----------------------------------------------------------------------------
(* Properties. *)

RunTypeOK ==
  /\ phase \in [Calls -> Phases]
  /\ request \in [Calls -> Requests]
  /\ behind \in [Calls -> BOOLEAN]
  /\ statuses \in [Executions -> Reports]
  /\ summaries \in [Executions -> Calls \cup {Nobody}]
  /\ provenances \in [Executions -> Calls \cup {Nobody}]
  /\ manifests \in [Executions -> Manifest \cup {NoManifest}]
  /\ indexed \in [Executions -> Calls \cup {Nobody}]
  /\ overlapped \subseteq Executions

\* Nothing is shown as completed, nor can be found by searching, before its
\* manifest is stored; also when a second call of the execution fails.
CompletedIsEvidenced ==
  \A e \in Executions :
    statuses[e].status = "COMPLETED" \/ indexed[e] # Nobody => manifests[e] # NoManifest

\* Every manifest was made under a policy that was signed, and has the hash of
\* the lease unless last-known-good was used: whatever was published, failed
\* or crashed between the resolution and the manifest.
ExecutionIsGoverned ==
  \A e \in Executions :
    LET m == manifests[e] IN
      m # NoManifest =>
        /\ m.used \in proven
        /\ m.used.content = m.used.hash /\ m.used.content \in signed
        /\ m.fallback \/ m.named = m.used.hash

\* A completed execution that is not shown as degraded had its own policy, and
\* its documents were published if they were asked for and there is an index.
NotDegradedIsComplete ==
  \A e \in Executions \ overlapped :
    statuses[e].status = "COMPLETED" /\ ~statuses[e].degraded =>
      /\ manifests[e].named = manifests[e].used.hash
      /\ Searchable /\ request[statuses[e].by].index => indexed[e] = statuses[e].by

\* After calls that did not overlap, status, summary, provenance and manifest
\* of a completed execution are of one call.
RecordsAgree ==
  \A e \in Executions \ overlapped :
    /\ statuses[e].status = "COMPLETED"
    /\ \A c \in Calls : Busy(c) => Execution(c) # e
    => {summaries[e], provenances[e], manifests[e].by} = {statuses[e].by}

\* What Start and EvaluateIntent compute from a batch, a mode and an intent adds
\* up; these are functions of no state, so that it is enough to look at all of
\* them before anything has happened.
RecordsAddUp == RunInit => ExecutionAddsUp

\* An execution that is shown as running comes to an end, or is forgotten.
RunningEnds ==
  \A e \in Executions : statuses[e].status = "RUNNING" ~> statuses[e].status # "RUNNING"
=============================================================================
