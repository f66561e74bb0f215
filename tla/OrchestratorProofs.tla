------------------------- MODULE OrchestratorProofs -------------------------
(***************************************************************************)
(* Proofs about Orchestrator, for any number of calls, executions and      *)
(* requests.  The invariants of PolicyResolution are taken over, because   *)
(* the orchestrator adds no step to it.                                    *)
(***************************************************************************)
EXTENDS Orchestrator, PolicyResolutionProofs, FiniteSetTheorems, SequenceTheorems

-----------------------------------------------------------------------------
(* The orchestrator does to the resolver what its own specification allows. *)

LEMMA RunStepsResolve == [RunNext]_<<vars, runVars>> => [Next]_vars
<1> SUFFICES ASSUME RunNext, vars' # vars PROVE Next
  BY DEF vars
<1>1. ASSUME NEW c \in Calls, Work(c) PROVE FALSE
  BY <1>1 DEF Work, PolicyResolved, Prepare, SaveManifest, PublishDocuments,
              SaveStatus, SaveSummary, SaveProvenance, vars
<1>2. ASSUME NEW c \in Calls, NEW e \in Executions, Reject(c, e) PROVE FALSE
  BY <1>2 DEF Reject, vars
<1>3. ASSUME NEW c \in Calls, NEW q \in Requests, Start(c, q) PROVE Next
  <2>1. q.lease \in Leases
    BY RequestAssumption
  <2> QED BY <1>3, <2>1 DEF Start, Next, Calls
<1>4. CASE Elsewhere
  BY <1>4 DEF Elsewhere, Next
<1>5. CASE CrashAgent
  BY <1>5 DEF CrashAgent, Next
<1> QED BY <1>1, <1>2, <1>3, <1>4, <1>5 DEF RunNext

\* Every behaviour of the orchestrator is one of the resolver.
THEOREM RunsResolve == RunSpec => Spec
<1>1. RunInit => Init
  BY DEF RunInit
<1> QED BY <1>1, RunStepsResolve, PTL DEF RunSpec, Spec

-----------------------------------------------------------------------------
(* What a call is answered with, and for which lease.                        *)

IsReady(a) == a.status \in {"activated", "degraded_ready"}

\* Calls are given policies that were active, and those are verified ones.
AInv == \A r \in Resolvers : IsReady(answer[r]) => answer[r].ctx \in proven
PInv == \A p \in proven : Verified(p)

\* What a step of the resolver does to a call: it goes on with its lease, or is
\* answered for it; without a call nothing changes.
Served(c) ==
  /\ pc[c] = "idle" => pc'[c] = "idle" /\ answer'[c] = answer[c]
  /\ pc[c] # "idle" =>
       \/ pc'[c] # "idle" /\ lease'[c] = lease[c] /\ answer'[c] = answer[c]
       \/ pc'[c] = "idle" /\ (IsReady(answer'[c]) =>
                                answer'[c].lease = lease[c] /\ answer'[c].ctx \in proven')

LEMMA RefuseServes ==
  ASSUME IInv, NEW r \in Resolvers, pc[r] # "idle",
         NEW s \in {"failed_closed", "rejected", "error"},
         Refuse(r, s) \/ Answered(r, NotReady(s)),
         NEW c \in Resolvers
  PROVE  Served(c)
<1> USE DEF IInv, TypeOK
<1>1. ~IsReady(NotReady(s))
  BY DEF NotReady, NoAnswer, IsReady
<1> QED BY <1>1 DEF Refuse, Answered, Goto, Served

LEMMA GotoServes ==
  ASSUME IInv, NEW r \in Resolvers, pc[r] # "idle",
         NEW label \in Labels \ {"idle"}, Goto(r, label), UNCHANGED <<lease, answer>>,
         NEW c \in Resolvers
  PROVE  Served(c)
BY DEF IInv, TypeOK, Goto, Served

LEMMA StepServes ==
  ASSUME IInv, FInv, NEW r \in Resolvers, Step(r), NEW c \in Resolvers
  PROVE  Served(c)
<1> USE DEF IInv, TypeOK
<1>1. CASE Locate(r)
  BY <1>1, RefuseServes, GotoServes DEF Locate, Labels
<1>2. CASE VerifyHash(r)
  BY <1>2, RefuseServes, GotoServes DEF VerifyHash, Labels
<1>3. CASE ReadArtifact(r)
  BY <1>3, RefuseServes, GotoServes DEF ReadArtifact, Labels
<1>4. CASE VerifySignature(r)
  BY <1>4, RefuseServes, GotoServes DEF VerifySignature, Labels
<1>5. CASE Parse(r)
  BY <1>5, RefuseServes, GotoServes DEF Parse, Labels
<1>6. CASE Activate(r)
  BY <1>6, GotoServes DEF Activate, Labels
<1>7. CASE PersistActive(r)
  BY <1>7, GotoServes DEF PersistActive, Labels
<1>8. CASE PersistLkg(r)
  <2>1. Resolved(r) \in proven'
    BY <1>8 DEF PersistLkg, FInv
  <2> QED BY <1>8, <2>1 DEF PersistLkg, Answered, Goto, Ready, Served
<1>9. CASE PersistFails(r)
  BY <1>9, RefuseServes DEF PersistFails
<1>10. CASE Fallback(r)
  <2>1. CASE lkgFile = NoPolicy
    BY <1>10, <2>1, RefuseServes DEF Fallback
  <2>2. CASE lkgFile # NoPolicy
    <3>1. lkgFile \in proven'
      BY <1>10, <2>2 DEF Fallback, FInv, history
    <3> QED BY <1>10, <2>2, <3>1 DEF Fallback, Answered, Goto, Ready, Served
  <2> QED BY <2>1, <2>2
<1> QED BY <1>1, <1>2, <1>3, <1>4, <1>5, <1>6, <1>7, <1>8, <1>9, <1>10 DEF Step

\* History only grows.
LEMMA HistoryGrows == [Next]_vars => proven \subseteq proven' /\ signed \subseteq signed'
<1> SUFFICES ASSUME [Next]_vars PROVE proven \subseteq proven' /\ signed \subseteq signed'
  OBVIOUS
<1>1. ASSUME NEW r \in Resolvers, Step(r) PROVE proven \subseteq proven' /\ signed \subseteq signed'
  BY <1>1 DEF Step, Locate, VerifyHash, ReadArtifact, VerifySignature, Parse, Activate,
              PersistActive, PersistLkg, PersistFails, Fallback, history
<1>2. ASSUME NEW r \in Resolvers, NEW l \in Leases, Request(r, l)
      PROVE  proven \subseteq proven' /\ signed \subseteq signed'
  BY <1>2 DEF Request, history
<1>3. ASSUME NEW v \in Versions, Sign(v) PROVE proven \subseteq proven' /\ signed \subseteq signed'
  BY <1>3 DEF Sign
<1>4. ASSUME NEW v \in Versions, NEW a \in Artifacts \cup {Missing}, Publish(v, a)
      PROVE  proven \subseteq proven' /\ signed \subseteq signed'
  BY <1>4 DEF Publish, history
<1>5. CASE SetGitUnavailable \/ Crash \/ UNCHANGED vars
  BY <1>5 DEF SetGitUnavailable, Crash, vars, history
<1> QED BY <1>1, <1>2, <1>3, <1>4, <1>5 DEF Next

LEMMA InitGranted == Init => AInv /\ PInv
BY DEF Init, AInv, PInv, IsReady, NoAnswer

\* A policy becomes active with what its resolution has seen of it.
LEMMA ProvenVerified ==
  ASSUME VInv, PInv, [Next]_vars
  PROVE  PInv'
<1>1. \A p \in proven : Verified(p)'
  BY HistoryGrows DEF PInv, Verified
<1>2. \A p \in proven' \ proven : Verified(p)
  <2>1. ASSUME NEW r \in Resolvers, Step(r), proven' # proven
        PROVE  Activate(r)
    BY <2>1 DEF Step, Locate, VerifyHash, ReadArtifact, VerifySignature, Parse,
                PersistActive, PersistLkg, PersistFails, Fallback, history
  <2>2. ASSUME NEW r \in Resolvers, Activate(r)
        PROVE  proven' = proven \cup {Resolved(r)} /\ Verified(Resolved(r))
    BY <2>2 DEF Activate, VInv, Seen, Activating, Resolved, Verified
  <2>3. CASE \A r \in Resolvers : ~Step(r)
    BY <2>3 DEF Next, Request, Sign, Publish, SetGitUnavailable, Crash, vars, history
  <2> QED BY <2>1, <2>2, <2>3
<1> QED BY <1>1, <1>2, HistoryGrows DEF PInv, Verified

LEMMA NextGranted == IInv /\ FInv /\ AInv /\ [Next]_vars => AInv'
<1> SUFFICES ASSUME IInv, FInv, AInv, [Next]_vars PROVE AInv'
  OBVIOUS
<1> USE DEF IInv, TypeOK
<1>1. ASSUME NEW c \in Resolvers PROVE (IsReady(answer[c]) => answer[c].ctx \in proven)'
  <2>1. CASE \E r \in Resolvers : Step(r)
    BY <2>1, StepServes, HistoryGrows DEF Served, AInv
  <2>2. CASE answer'[c] \in {answer[c], NoAnswer}
    BY <2>2, HistoryGrows DEF AInv, IsReady, NoAnswer
  <2>3. CASE \A r \in Resolvers : ~Step(r)
    <3>1. answer'[c] \in {answer[c], NoAnswer}
      BY <2>3 DEF Next, Request, Sign, Publish, SetGitUnavailable, Crash, vars, locals
    <3> QED BY <3>1, <2>2
  <2> QED BY <2>1, <2>3
<1> QED BY <1>1 DEF AInv

ResolverInv == IInv /\ FInv /\ AInv

\* If artifacts are not replaced while they are resolved.
VerifiedInv == VInv /\ PInv

LEMMA InitResolver == RunInit => ResolverInv /\ VerifiedInv
BY InitTyped, InitVerified, InitFailsClosed, InitGranted DEF RunInit, ResolverInv, VerifiedInv

LEMMA NextResolver == ResolverInv /\ [RunNext]_<<vars, runVars>> => ResolverInv'
BY RunStepsResolve, NextTyped, NextFailsClosed, NextGranted DEF ResolverInv

LEMMA NextVerifies ==
  ASSUME "replace" \notin Faults
  PROVE  ResolverInv /\ VerifiedInv /\ [RunNext]_<<vars, runVars>> => VerifiedInv'
BY RunStepsResolve, NextVerified, ProvenVerified DEF ResolverInv, VerifiedInv

-----------------------------------------------------------------------------
(* Types of the orchestrator's own state.                                    *)

\* A call that goes on has a policy, that of its lease or another one that was
\* active.
Prepared(c) ==
  /\ phase[c] = "policy" =>
       IF pc[c] = "idle" THEN PolicyReady(c) => answer[c].lease = request[c].lease
                         ELSE lease[c] = request[c].lease
  /\ phase[c] \in Phases \ {"ready", "policy", "done"} =>
       pc[c] = "idle" /\ PolicyReady(c) /\ answer[c].lease = request[c].lease

RInv == RunTypeOK /\ \A c \in Calls : Prepared(c)

LEMMA RequestTyped ==
  ASSUME NEW q \in Requests
  PROVE  q.execution \in Executions /\ q.lease \in Leases /\ q.lease.hash \in Artifacts
         /\ q.index \in BOOLEAN
<1>1. q.execution \in Executions /\ q.lease \in Leases /\ q.index \in BOOLEAN
  BY RequestAssumption
<1> QED BY <1>1, PolicyAssumption

LEMMA ReportTyped ==
  ASSUME NEW c \in Calls, NEW s \in {"none", "RUNNING", "COMPLETED", "FAILED"},
         NEW d \in BOOLEAN
  PROVE  Report(c, s, d) \in Reports /\ NoReport \in Reports
BY DEF Report, NoReport, Reports

LEMMA RunInitTyped == RunInit => RInv
<1> SUFFICES ASSUME RunInit PROVE RInv
  OBVIOUS
<1>1. AnyRequest \in Requests
  BY RequestAssumption DEF AnyRequest
<1>2. statuses \in [Executions -> Reports]
  BY DEF RunInit, NoReport, Report, Reports
<1>3. RunTypeOK
  BY <1>1, <1>2 DEF RunInit, RunTypeOK, Phases
<1>4. \A c \in Calls : Prepared(c)
  BY DEF RunInit, Prepared
<1> QED BY <1>3, <1>4 DEF RInv

\* A failed call.
LEMMA FailTyped ==
  ASSUME RInv, NEW c \in Calls, Fail(c)
  PROVE  /\ phase' \in [Calls -> Phases]
         /\ statuses' \in [Executions -> Reports]
<1>1. request[c] \in Requests
  BY DEF RInv, RunTypeOK
<1>2. Report(c, "FAILED", FALSE) \in Reports
  BY ReportTyped
<1> QED BY <1>1, <1>2, RequestTyped
        DEF Fail, Save, Enter, Execution, RInv, RunTypeOK, Phases

\* The manifest that a prepared call stores.
LEMMA ManifestTyped ==
  ASSUME IInv, AInv, RInv, NEW c \in Calls, phase[c] = "manifest"
  PROVE  /\ [by |-> c, named |-> request[c].lease.hash, used |-> answer[c].ctx,
             fallback |-> FallbackUsed(c)] \in Manifest
         /\ answer[c].ctx \in proven
<1>1. request[c] \in Requests
  BY DEF RInv, RunTypeOK
<1>2. answer[c].ctx \in proven
  BY DEF RInv, Prepared, PolicyReady, AInv, IsReady, Calls, Phases
<1>3. answer[c].ctx \in Context
  BY <1>2 DEF IInv, TypeOK
<1> QED BY <1>1, <1>2, <1>3, RequestTyped DEF Manifest, FallbackUsed

LEMMA WorkTyped ==
  ASSUME IInv, AInv, RInv, NEW c \in Calls, Work(c)
  PROVE  RunTypeOK'
<1> USE DEF RInv, RunTypeOK, manager, records
<1>0. request[c] \in Requests /\ Execution(c) \in Executions
  BY RequestTyped DEF Execution
<1>1. CASE PolicyResolved(c)
  BY <1>1, FailTyped DEF PolicyResolved, Enter, Phases
<1>2. CASE Prepare(c)
  BY <1>2, FailTyped DEF Prepare, Enter, Phases
<1>3. CASE SaveManifest(c)
  <2>1. CASE Fail(c) /\ UNCHANGED manifests
    BY <1>3, <2>1, FailTyped DEF SaveManifest
  <2>2. CASE ~(Fail(c) /\ UNCHANGED manifests)
    <3>1. /\ manifests' = [manifests EXCEPT ![Execution(c)] =
               [by |-> c, named |-> request[c].lease.hash, used |-> answer[c].ctx,
                fallback |-> FallbackUsed(c)]]
          /\ Enter(c, IF request[c].index THEN "index" ELSE "status")
          /\ UNCHANGED statuses
      BY <1>3, <2>2 DEF SaveManifest
    <3>2. manifests' \in [Executions -> Manifest \cup {NoManifest}]
      BY <1>3, <3>1, ManifestTyped DEF SaveManifest
    <3>3. phase' \in [Calls -> Phases]
      BY <3>1 DEF Enter, Phases
    <3> QED BY <1>3, <3>1, <3>2, <3>3 DEF SaveManifest
  <2> QED BY <2>1, <2>2
<1>4. CASE PublishDocuments(c)
  BY <1>0, <1>4 DEF PublishDocuments, Enter, Phases
<1>5. CASE SaveStatus(c)
  <2>1. Report(c, "COMPLETED", FallbackUsed(c) \/ behind[c]) \in Reports
    BY ReportTyped DEF FallbackUsed
  <2> QED BY <1>0, <1>5, <2>1 DEF SaveStatus, Save, Enter, Phases
<1>6. CASE SaveSummary(c)
  BY <1>0, <1>6 DEF SaveSummary, Enter, Phases
<1>7. CASE SaveProvenance(c)
  BY <1>0, <1>7 DEF SaveProvenance, Enter, Phases
<1> QED BY <1>1, <1>2, <1>3, <1>4, <1>5, <1>6, <1>7 DEF Work

LEMMA RunNextTyped ==
  ASSUME IInv, AInv, RInv, [RunNext]_<<vars, runVars>>
  PROVE  RunTypeOK'
<1> USE DEF RInv, RunTypeOK
<1>1. ASSUME NEW c \in Calls, Work(c) PROVE RunTypeOK'
  BY <1>1, WorkTyped
<1>2. ASSUME NEW c \in Calls, NEW e \in Executions, Reject(c, e) PROVE RunTypeOK'
  BY <1>2, ReportTyped DEF Reject, Enter, Phases, records
<1>3. ASSUME NEW c \in Calls, NEW q \in Requests, Start(c, q) PROVE RunTypeOK'
  <2>1. overlapped' \subseteq Executions
    BY <1>3, RequestTyped DEF Start
  <2>2. statuses' \in [Executions -> Reports]
    BY <1>3, RequestTyped, ReportTyped DEF Start
  <2>3. phase' \in [Calls -> Phases] /\ request' \in [Calls -> Requests]
    BY <1>3 DEF Start, Enter, Phases
  <2> QED BY <1>3, <2>1, <2>2, <2>3 DEF Start, records
<1>4. CASE Elsewhere
  BY <1>4 DEF Elsewhere, runVars, calls, manager, records
<1>5. CASE CrashAgent
  <2>1. statuses' \in [Executions -> Reports]
    BY <1>5 DEF CrashAgent, NoReport, Report, Reports
  <2> QED BY <1>5, <2>1 DEF CrashAgent, Phases, records
<1>6. CASE UNCHANGED runVars
  BY <1>6 DEF runVars, calls, manager, records
<1> QED BY <1>1, <1>2, <1>3, <1>4, <1>5, <1>6 DEF RunNext, runVars

-----------------------------------------------------------------------------
(* A prepared call keeps its policy, whatever the others do.                 *)

LEMMA WorkPrepared ==
  ASSUME RInv, NEW c \in Calls, Work(c), NEW d \in Calls
  PROVE  Prepared(d)'
<1> USE DEF RInv, RunTypeOK, Prepared, PolicyReady
<1>0. UNCHANGED vars /\ UNCHANGED request
  BY DEF Work, PolicyResolved, Prepare, SaveManifest, PublishDocuments, SaveStatus,
         SaveSummary, SaveProvenance
<1>1. UNCHANGED <<pc, lease, answer>>
  BY <1>0 DEF vars, locals
<1>2. CASE PolicyResolved(c)
  BY <1>0, <1>1, <1>2 DEF PolicyResolved, Fail, Enter
<1>3. CASE Prepare(c)
  BY <1>0, <1>1, <1>3 DEF Prepare, Fail, Enter
<1>4. CASE SaveManifest(c)
  BY <1>0, <1>1, <1>4 DEF SaveManifest, Fail, Enter
<1>5. CASE PublishDocuments(c) \/ SaveStatus(c) \/ SaveSummary(c) \/ SaveProvenance(c)
  BY <1>0, <1>1, <1>5 DEF PublishDocuments, SaveStatus, SaveSummary, SaveProvenance, Enter
<1> QED BY <1>2, <1>3, <1>4, <1>5 DEF Work

LEMMA RunNextPrepared ==
  ASSUME IInv, FInv, RInv, [RunNext]_<<vars, runVars>>, NEW d \in Calls
  PROVE  Prepared(d)'
<1> USE DEF RInv, RunTypeOK, Prepared, PolicyReady, Calls
<1>1. ASSUME NEW c \in Calls, Work(c) PROVE Prepared(d)'
  BY <1>1, WorkPrepared
<1>2. ASSUME NEW c \in Calls, NEW e \in Executions, Reject(c, e) PROVE Prepared(d)'
  BY <1>2 DEF Reject, Enter, vars, locals
<1>3. ASSUME NEW c \in Calls, NEW q \in Requests, Start(c, q) PROVE Prepared(d)'
  BY <1>3 DEF Start, Enter, Request, Goto, IInv, TypeOK
<1>4. CASE Elsewhere
  <2>0. UNCHANGED <<phase, request>>
    BY <1>4 DEF Elsewhere, runVars, calls
  <2>1. ASSUME NEW r \in Resolvers, Step(r) PROVE Prepared(d)'
    <3>1. Served(d)
      BY <2>1, StepServes
    <3> QED BY <2>0, <3>1 DEF Served, IsReady
  <2>2. CASE UNCHANGED <<pc, lease, answer>>
    BY <2>0, <2>2
  <2> QED BY <1>4, <2>1, <2>2 DEF Elsewhere, Sign, Publish, SetGitUnavailable, locals
<1>5. CASE CrashAgent
  BY <1>5 DEF CrashAgent
<1>6. CASE UNCHANGED <<vars, runVars>>
  BY <1>6 DEF vars, locals, runVars, calls
<1> QED BY <1>1, <1>2, <1>3, <1>4, <1>5, <1>6 DEF RunNext

LEMMA RunInductive ==
  /\ RunInit => ResolverInv /\ RInv
  /\ ResolverInv /\ RInv /\ [RunNext]_<<vars, runVars>> => (ResolverInv /\ RInv)'
<1>1. RunInit => ResolverInv /\ RInv
  BY InitResolver, RunInitTyped
<1>2. ResolverInv /\ RInv /\ [RunNext]_<<vars, runVars>> => RInv'
  BY RunNextTyped, RunNextPrepared DEF ResolverInv, RInv
<1> QED BY <1>1, <1>2, NextResolver

\* Every variable keeps its type.
THEOREM RunTypeCorrect == RunSpec => []RunTypeOK
<1>1. RInv => RunTypeOK
  BY DEF RInv
<1> QED BY <1>1, RunInductive, PTL DEF RunSpec

-----------------------------------------------------------------------------
(* What manifests say.                                                       *)

LEMMA NextGoverned ==
  ASSUME ResolverInv, VerifiedInv, RInv, ExecutionIsGoverned, [RunNext]_<<vars, runVars>>
  PROVE  ExecutionIsGoverned'
<1> USE DEF ResolverInv, RInv, RunTypeOK
<1>1. [Next]_vars
  BY RunStepsResolve
<1>2. CASE UNCHANGED manifests
  BY <1>1, <1>2, HistoryGrows DEF ExecutionIsGoverned
<1>3. ASSUME NEW c \in Calls, SaveManifest(c), manifests' # manifests
      PROVE  ExecutionIsGoverned'
  <2> DEFINE m == [by |-> c, named |-> request[c].lease.hash, used |-> answer[c].ctx,
                   fallback |-> FallbackUsed(c)]
  <2>1. manifests' = [manifests EXCEPT ![Execution(c)] = m]
    BY <1>3 DEF SaveManifest
  <2>2. m.used \in proven
    BY <1>3, ManifestTyped DEF SaveManifest
  <2>3. m.used.content = m.used.hash /\ m.used.content \in signed
    BY <2>2 DEF VerifiedInv, PInv, Verified
  <2>4. m.fallback \/ m.named = m.used.hash
    <3>1. PolicyReady(c) /\ answer[c].lease = request[c].lease
      BY <1>3 DEF SaveManifest, Prepared
    <3> QED BY <3>1 DEF PolicyReady, FallbackUsed, FInv, FailsClosed, Calls
  <2>5. proven' = proven /\ signed' = signed
    BY <1>3 DEF SaveManifest, vars, history
  <2> HIDE DEF m
  <2> QED BY <2>1, <2>2, <2>3, <2>4, <2>5 DEF ExecutionIsGoverned
<1>4. UNCHANGED manifests \/ \E c \in Calls : SaveManifest(c)
  BY DEF RunNext, Work, PolicyResolved, Prepare, PublishDocuments, SaveStatus, SaveSummary,
         SaveProvenance, Reject, Start, Elsewhere, CrashAgent, runVars, records
<1> QED BY <1>2, <1>3, <1>4

\* Without artifacts that are replaced while they are resolved, every manifest
\* was made under a policy that was signed, and is the lease's unless
\* last-known-good was used.
THEOREM ExecutionsAreGoverned ==
  ASSUME "replace" \notin Faults
  PROVE  RunSpec => []ExecutionIsGoverned
<1>1. RunInit => VerifiedInv /\ ExecutionIsGoverned
  BY InitResolver DEF RunInit, ExecutionIsGoverned
<1>2. ResolverInv /\ VerifiedInv /\ RInv /\ ExecutionIsGoverned /\ [RunNext]_<<vars, runVars>>
        => (VerifiedInv /\ ExecutionIsGoverned)'
  BY NextVerifies, NextGoverned
<1> QED BY <1>1, <1>2, RunInductive, PTL DEF RunSpec

-----------------------------------------------------------------------------
(* What is shown, and what is found, has its manifest.                       *)

\* A call that went past its manifest left one.
Stored(c) ==
  phase[c] \in {"index", "status"} => manifests[Execution(c)] # NoManifest

EInv == CompletedIsEvidenced /\ \A c \in Calls : Stored(c)

LEMMA NextEvidenced ==
  ASSUME ResolverInv, RInv, EInv, [RunNext]_<<vars, runVars>>
  PROVE  EInv'
<1> USE DEF RInv, RunTypeOK, EInv, CompletedIsEvidenced, Stored, Execution, runVars, calls,
            manager, records, Enter, Save, Fail, Report
<1>0. \A c \in Calls : request[c].execution \in Executions
  BY RequestTyped
<1>1. ASSUME NEW c \in Calls, PolicyResolved(c) \/ Prepare(c) PROVE EInv'
  BY <1>0, <1>1 DEF PolicyResolved, Prepare
<1>2. ASSUME NEW c \in Calls, SaveManifest(c) PROVE EInv'
  <2> DEFINE m == [by |-> c, named |-> request[c].lease.hash, used |-> answer[c].ctx,
                   fallback |-> FallbackUsed(c)]
  <2>1. m # NoManifest
    BY PolicyAssumption DEF NoManifest, Calls
  <2>2. CASE manifests' = [manifests EXCEPT ![Execution(c)] = m] /\ UNCHANGED statuses
    <3> HIDE DEF m
    <3> QED BY <1>0, <1>2, <2>1, <2>2 DEF SaveManifest
  <2>3. CASE Fail(c) /\ UNCHANGED manifests
    BY <1>0, <1>2, <2>3 DEF SaveManifest
  <2> QED BY <1>2, <2>2, <2>3 DEF SaveManifest
<1>3. ASSUME NEW c \in Calls, PublishDocuments(c) PROVE EInv'
  BY <1>0, <1>3 DEF PublishDocuments
<1>4. ASSUME NEW c \in Calls, SaveStatus(c) PROVE EInv'
  BY <1>0, <1>4 DEF SaveStatus
<1>5. ASSUME NEW c \in Calls, SaveSummary(c) \/ SaveProvenance(c) PROVE EInv'
  BY <1>0, <1>5 DEF SaveSummary, SaveProvenance
<1>6. ASSUME NEW c \in Calls, NEW e \in Executions, Reject(c, e) PROVE EInv'
  BY <1>6 DEF Reject
<1>7. ASSUME NEW c \in Calls, NEW q \in Requests, Start(c, q) PROVE EInv'
  BY <1>7, RequestTyped DEF Start
<1>8. CASE Elsewhere \/ UNCHANGED runVars
  BY <1>8 DEF Elsewhere
<1>9. CASE CrashAgent
  BY <1>9 DEF CrashAgent, NoReport
<1> QED BY <1>1, <1>2, <1>3, <1>4, <1>5, <1>6, <1>7, <1>8, <1>9 DEF RunNext, Work

\* Nothing is shown as completed, nor can be found by searching, before its
\* manifest is stored.
THEOREM CompletedHasEvidence == RunSpec => []CompletedIsEvidenced
<1>1. RunInit => EInv
  BY DEF RunInit, EInv, CompletedIsEvidenced, Stored, NoReport, Report
<1>2. ResolverInv /\ RInv /\ EInv /\ [RunNext]_<<vars, runVars>> => EInv'
  BY NextEvidenced
<1>3. EInv => CompletedIsEvidenced
  BY DEF EInv
<1> QED BY <1>1, <1>2, <1>3, RunInductive, PTL DEF RunSpec

-----------------------------------------------------------------------------
(* What is recorded of an execution that one call at a time works on.        *)

Own(c) == [by |-> c, named |-> request[c].lease.hash, used |-> answer[c].ctx,
           fallback |-> FallbackUsed(c)]

Alone(e) ==
  \A c, d \in Calls : Busy(c) /\ Busy(d) /\ Execution(c) = e /\ Execution(d) = e => c = d

\* What a call under way has recorded.
Recording(c) ==
  /\ phase[c] \in {"index", "status", "summary", "provenance"} =>
       manifests[Execution(c)] = Own(c)
  /\ phase[c] = "status" /\ Searchable /\ request[c].index /\ ~behind[c] =>
       indexed[Execution(c)] = c

\* What a call has recorded of the execution that it reported as completed.
ShownBy(e, c) ==
  /\ c \in Calls /\ Execution(c) = e /\ phase[c] \in {"summary", "provenance", "done"}
  /\ \A d \in Calls : Busy(d) /\ Execution(d) = e => d = c
  /\ manifests[e].by = c
  /\ phase[c] \in {"provenance", "done"} => summaries[e] = c
  /\ phase[c] = "done" => provenances[e] = c
  /\ ~statuses[e].degraded =>
       /\ manifests[e].named = manifests[e].used.hash
       /\ Searchable /\ request[c].index => indexed[e] = c

Shown(e) == statuses[e].status = "COMPLETED" => ShownBy(e, statuses[e].by)

OneCall(e) ==
  /\ Alone(e)
  /\ Shown(e)
  /\ \A c \in Calls : Busy(c) /\ Execution(c) = e => Recording(c)

OInv == \A e \in Executions \ overlapped : OneCall(e)

LEMMA InitOneCall == RunInit => OInv
BY DEF RunInit, OInv, OneCall, Alone, Shown, Busy, NoReport, Report

\* A call that does no step keeps its answer, once it went on with it.
LEMMA AnswerKept ==
  ASSUME ResolverInv, RInv, Elsewhere, NEW c \in Calls, Busy(c), phase[c] # "policy"
  PROVE  answer'[c] = answer[c]
<1> USE DEF RInv, RunTypeOK
<1>1. pc[c] = "idle"
  BY DEF Prepared, Busy
<1>2. ASSUME NEW r \in Resolvers, Step(r) PROVE answer'[c] = answer[c]
  BY <1>1, <1>2, StepServes DEF Served, ResolverInv, Calls
<1> QED BY <1>2 DEF Elsewhere, Sign, Publish, SetGitUnavailable, locals

\* Executions that a step does not touch.
LEMMA OthersKept ==
  ASSUME NEW e \in Executions, OneCall(e),
         \A d \in Calls : Execution(d) = e /\ phase[d] # "ready"
                            => UNCHANGED <<phase[d], request[d], behind[d]>>,
         \A d \in Calls : Busy(d)' /\ Execution(d)' = e => Busy(d) /\ Execution(d) = e,
         \A d \in Calls : Busy(d) /\ phase[d] # "policy" => answer'[d] = answer[d],
         UNCHANGED <<statuses[e], summaries[e], provenances[e], manifests[e], indexed[e]>>
  PROVE  OneCall(e)'
<1> USE DEF OneCall, Execution, Busy
<1>1. Alone(e)'
  BY DEF Alone
<1>2. Shown(e)'
  BY DEF Shown, ShownBy
<1>3. ASSUME NEW c \in Calls, Busy(c)', Execution(c)' = e PROVE Recording(c)'
  BY <1>3 DEF Recording, Own, FallbackUsed
<1> QED BY <1>1, <1>2, <1>3

\* A step of the one call that works on an execution.
LEMMA MoverAlone ==
  ASSUME RInv, NEW e \in Executions, OneCall(e),
         NEW c \in Calls, Busy(c), Execution(c) = e, request' = request,
         NEW label, phase' = [phase EXCEPT ![c] = label]
  PROVE  /\ Execution(c)' = e
         /\ phase'[c] = label
         /\ \A d \in Calls : Busy(d)' /\ Execution(d)' = e => d = c
         /\ Alone(e)'
         /\ statuses[e].status = "COMPLETED" =>
              statuses[e].by = c /\ phase[c] \in {"summary", "provenance"}
BY DEF RInv, RunTypeOK, OneCall, Alone, Shown, ShownBy, Busy, Execution

LEMMA WorkOneCall ==
  ASSUME ResolverInv, RInv, NEW e \in Executions, OneCall(e), NEW c \in Calls, Work(c)
  PROVE  OneCall(e)'
<1> USE DEF RInv, RunTypeOK, Enter
<1>0. /\ Busy(c) /\ request' = request /\ answer' = answer
      /\ Execution(c) \in Executions
      /\ \E label \in Phases : phase' = [phase EXCEPT ![c] = label]
      /\ \A d \in Calls : d # c => behind'[d] = behind[d]
  <2>1. Busy(c) /\ request' = request /\ answer' = answer
    BY DEF Work, PolicyResolved, Prepare, SaveManifest, PublishDocuments, SaveStatus,
           SaveSummary, SaveProvenance, Busy, vars, locals
  <2>2. \E label \in Phases : phase' = [phase EXCEPT ![c] = label]
    BY DEF Work, PolicyResolved, Prepare, SaveManifest, PublishDocuments, SaveStatus,
           SaveSummary, SaveProvenance, Fail, Phases
  <2>3. \A d \in Calls : d # c => behind'[d] = behind[d]
    BY DEF Work, PolicyResolved, Prepare, SaveManifest, PublishDocuments, SaveStatus,
           SaveSummary, SaveProvenance
  <2>4. Execution(c) \in Executions
    BY RequestTyped DEF Execution
  <2> QED BY <2>1, <2>2, <2>3, <2>4
<1>1. CASE Execution(c) # e
  <2>1. \A d \in Calls : Execution(d) = e => d # c
    BY <1>1
  <2>2. \A d \in Calls : d # c => UNCHANGED <<phase[d], request[d], behind[d]>>
    BY <1>0
  <2>3. \A d \in Calls : Execution(d)' = Execution(d)
    BY <1>0 DEF Execution
  <2>4. UNCHANGED <<statuses[e], summaries[e], provenances[e], manifests[e], indexed[e]>>
    <3>1. UNCHANGED <<statuses[e], summaries[e], provenances[e]>>
      BY <1>0, <1>1 DEF Work, PolicyResolved, Prepare, SaveManifest, PublishDocuments, SaveStatus,
             SaveSummary, SaveProvenance, Fail, Save, manager
    <3>2. UNCHANGED <<manifests[e], indexed[e]>>
      BY <1>0, <1>1 DEF Work, PolicyResolved, Prepare, SaveManifest, PublishDocuments, SaveStatus,
             SaveSummary, SaveProvenance, records
    <3> QED BY <3>1, <3>2
  <2>5. answer' = answer
    BY <1>0
  <2>6. \A d \in Calls : Busy(d)' /\ Execution(d)' = e => Busy(d) /\ Execution(d) = e
    BY <2>1, <2>2, <2>3 DEF Busy
  <2> QED BY <2>1, <2>2, <2>4, <2>5, <2>6, OthersKept
<1>2. CASE Execution(c) = e
  <2>0. /\ Execution(c)' = e
        /\ \A d \in Calls : Busy(d)' /\ Execution(d)' = e => d = c
        /\ Alone(e)'
        /\ statuses[e].status = "COMPLETED" =>
             statuses[e].by = c /\ phase[c] \in {"summary", "provenance"}
    BY <1>0, <1>2, MoverAlone
  <2>1. ASSUME Fail(c) PROVE OneCall(e)'
    <3>1. phase'[c] = "done" /\ statuses'[e].status = "FAILED"
      BY <1>2, <2>1 DEF Fail, Save, Report
    <3>2. ~Busy(c)'
      BY <3>1 DEF Busy
    <3> QED BY <2>0, <3>1, <3>2 DEF OneCall, Shown
  <2>2. CASE PolicyResolved(c) \/ Prepare(c)
    <3>1. CASE ~Fail(c)
      <4>1. /\ phase[c] \in {"policy", "prepare"} /\ phase'[c] \in {"prepare", "manifest"}
            /\ statuses' = statuses
        BY <2>2, <3>1 DEF PolicyResolved, Prepare
      <4> QED BY <2>0, <4>1 DEF OneCall, Shown, Recording
    <3> QED BY <2>1, <3>1
  <2>3. CASE SaveManifest(c)
    <3>1. CASE ~Fail(c)
      <4>1. /\ phase[c] = "manifest" /\ statuses' = statuses
            /\ phase'[c] = IF request[c].index THEN "index" ELSE "status"
            /\ manifests' = [manifests EXCEPT ![e] = Own(c)]
        BY <1>2, <2>3, <3>1 DEF SaveManifest, Own
      <4>2. Own(c)' = Own(c) /\ manifests'[e] = Own(c)
        BY <1>0, <4>1 DEF Own, FallbackUsed
      <4>3. Recording(c)'
        BY <1>0, <2>0, <4>1, <4>2 DEF Recording
      <4> QED BY <2>0, <4>1, <4>3 DEF OneCall, Shown
    <3> QED BY <2>1, <3>1
  <2>4. CASE PublishDocuments(c)
    <3>1. /\ phase[c] = "index" /\ phase'[c] = "status" /\ statuses' = statuses
          /\ manifests' = manifests
      BY <2>4 DEF PublishDocuments, manager
    <3>2. Searchable /\ ~behind'[c] => indexed'[e] = c
      BY <1>2, <2>4 DEF PublishDocuments
    <3>3. Own(c)' = Own(c) /\ manifests[e] = Own(c)
      BY <1>0, <1>2, <3>1 DEF Own, FallbackUsed, OneCall, Recording
    <3>4. Recording(c)'
      BY <2>0, <3>1, <3>2, <3>3 DEF Recording
    <3> QED BY <2>0, <3>1, <3>4 DEF OneCall, Shown
  <2>5. CASE SaveStatus(c)
    <3>1. /\ phase[c] = "status" /\ phase'[c] = "summary"
          /\ statuses'[e] = Report(c, "COMPLETED", FallbackUsed(c) \/ behind[c])
          /\ UNCHANGED <<manifests, indexed>>
      BY <1>2, <2>5 DEF SaveStatus, Save, records
    <3>2. /\ statuses'[e].by = c
          /\ statuses'[e].degraded = (FallbackUsed(c) \/ behind[c])
      BY <3>1 DEF Report
    <3>3. /\ manifests[e] = Own(c)
          /\ Searchable /\ request[c].index /\ ~behind[c] => indexed[e] = c
      BY <1>0, <1>2, <3>1 DEF OneCall, Recording
    <3>4. manifests[e].by = c /\ Own(c)' = Own(c)
      BY <1>0, <3>3 DEF Own, FallbackUsed
    <3>5. ~FallbackUsed(c) => manifests[e].named = manifests[e].used.hash
      <4>1. PolicyReady(c) /\ answer[c].lease = request[c].lease
        BY <3>1 DEF Prepared, Phases
      <4>2. ~FallbackUsed(c) => request[c].lease.hash = answer[c].ctx.hash
        BY <4>1 DEF PolicyReady, FallbackUsed, ResolverInv, FInv, FailsClosed, Calls
      <4> QED BY <3>3, <4>2 DEF Own
    <3>6. ShownBy(e, c)'
      BY <1>0, <2>0, <3>1, <3>2, <3>3, <3>4, <3>5 DEF ShownBy
    <3>7. Recording(c)'
      BY <2>0, <3>1, <3>3, <3>4 DEF Recording
    <3> QED BY <2>0, <3>2, <3>6, <3>7 DEF OneCall, Shown
  <2>6. CASE SaveSummary(c) \/ SaveProvenance(c)
    <3>1. /\ UNCHANGED <<statuses, manifests, indexed>>
          /\ \/ phase[c] = "summary" /\ phase'[c] = "provenance" /\ summaries'[e] = c
             \/ /\ phase[c] = "provenance" /\ phase'[c] = "done" /\ provenances'[e] = c
                /\ summaries' = summaries
      BY <1>2, <2>6 DEF SaveSummary, SaveProvenance, records
    <3>2. manifests[e] = Own(c) /\ Own(c)' = Own(c)
      BY <1>0, <1>2, <3>1 DEF OneCall, Recording, Own, FallbackUsed
    <3>3. ASSUME statuses[e].status = "COMPLETED" PROVE ShownBy(e, c)'
      <4>1. statuses[e].by = c /\ ShownBy(e, c)
        BY <2>0, <3>3 DEF OneCall, Shown
      <4> QED BY <1>0, <2>0, <3>1, <4>1 DEF ShownBy
    <3>4. Recording(c)'
      BY <2>0, <3>1, <3>2 DEF Recording
    <3> QED BY <2>0, <3>1, <3>3, <3>4 DEF OneCall, Shown
  <2> QED BY <2>2, <2>3, <2>4, <2>5, <2>6 DEF Work
<1> QED BY <1>1, <1>2

LEMMA NextOneCall ==
  ASSUME ResolverInv, RInv, OInv, [RunNext]_<<vars, runVars>>
  PROVE  OInv'
<1> USE DEF RInv, RunTypeOK, Enter
<1>0. overlapped \subseteq overlapped'
  BY DEF RunNext, Work, PolicyResolved, Prepare, SaveManifest, PublishDocuments, SaveStatus,
         SaveSummary, SaveProvenance, Reject, Start, Elsewhere, CrashAgent, runVars
<1> SUFFICES ASSUME NEW e \in Executions, e \notin overlapped' PROVE OneCall(e)'
  BY DEF OInv
<1>1. OneCall(e)
  BY <1>0 DEF OInv
<1>2. ASSUME NEW c \in Calls, Work(c) PROVE OneCall(e)'
  BY <1>1, <1>2, WorkOneCall
<1>3. ASSUME NEW c \in Calls, NEW f \in Executions, Reject(c, f) PROVE OneCall(e)'
  <2>1. /\ phase[c] = "ready" /\ phase'[c] = "done"
        /\ \A d \in Calls : d # c => phase'[d] = phase[d]
        /\ UNCHANGED <<request, behind, answer>>
    BY <1>3 DEF Reject, vars, locals
  <2>2. \A d \in Calls : Busy(d)' /\ Execution(d)' = e => Busy(d) /\ Execution(d) = e /\ d # c
    BY <2>1 DEF Busy, Execution
  <2>3. UNCHANGED <<summaries[e], provenances[e], manifests[e], indexed[e]>>
    BY <1>3 DEF Reject, records
  <2>4. CASE f # e
    <3>1. statuses'[e] = statuses[e]
      BY <1>3, <2>4 DEF Reject
    <3> QED BY <1>1, <2>1, <2>2, <2>3, <3>1, OthersKept
  <2>5. CASE f = e
    <3>1. statuses'[e].status = "FAILED"
      BY <1>3, <2>5 DEF Reject, Report
    <3>2. Alone(e)'
      BY <1>1, <2>2 DEF OneCall, Alone
    <3>3. ASSUME NEW d \in Calls, Busy(d)', Execution(d)' = e PROVE Recording(d)'
      BY <1>1, <2>1, <2>2, <2>3, <3>3 DEF OneCall, Recording, Own, FallbackUsed, Execution
    <3> QED BY <3>1, <3>2, <3>3 DEF OneCall, Shown
  <2> QED BY <2>4, <2>5
<1>4. ASSUME NEW c \in Calls, NEW q \in Requests, Start(c, q) PROVE OneCall(e)'
  <2>1. /\ phase[c] = "ready" /\ phase'[c] = "policy" /\ request'[c] = q
        /\ \A d \in Calls : d # c => /\ UNCHANGED <<phase[d], request[d], behind[d]>>
                                     /\ answer'[d] = answer[d]
    BY <1>4 DEF Start, Request, ResolverInv, IInv, TypeOK, Calls
  <2>2. UNCHANGED <<summaries[e], provenances[e], manifests[e], indexed[e]>>
    BY <1>4 DEF Start, records
  <2>3. CASE q.execution # e
    <3>1. statuses'[e] = statuses[e]
      BY <1>4, <2>3 DEF Start
    <3>2. \A d \in Calls : Busy(d)' /\ Execution(d)' = e => Busy(d) /\ Execution(d) = e
      BY <2>1, <2>3 DEF Busy, Execution
    <3> QED BY <1>1, <2>1, <2>2, <3>1, <3>2, OthersKept DEF Busy
  <2>4. CASE q.execution = e
    <3>1. statuses'[e].status = "RUNNING"
      BY <1>4, <2>4 DEF Start, Report
    <3>2. \A d \in Calls : ~(Busy(d) /\ Execution(d) = e)
      BY <1>4, <2>4 DEF Start
    <3>3. \A d \in Calls : Busy(d)' /\ Execution(d)' = e => d = c
      BY <2>1, <3>2 DEF Busy, Execution
    <3>4. Recording(c)'
      BY <2>1 DEF Recording
    <3> QED BY <3>1, <3>3, <3>4 DEF OneCall, Alone, Shown
  <2> QED BY <2>3, <2>4
<1>5. CASE Elsewhere
  <2>1. UNCHANGED runVars
    BY <1>5 DEF Elsewhere
  <2>2. \A d \in Calls : Busy(d) /\ phase[d] # "policy" => answer'[d] = answer[d]
    BY <1>5, AnswerKept
  <2> QED BY <1>1, <2>1, <2>2, OthersKept DEF runVars, calls, manager, records, Busy, Execution
<1>6. CASE CrashAgent
  <2>1. /\ statuses'[e].status = "none" /\ \A d \in Calls : ~Busy(d)'
    BY <1>6 DEF CrashAgent, NoReport, Report, Busy
  <2> QED BY <2>1 DEF OneCall, Alone, Shown
<1>7. CASE UNCHANGED <<vars, runVars>>
  <2>1. UNCHANGED runVars /\ answer' = answer
    BY <1>7 DEF vars, locals
  <2> QED BY <1>1, <2>1, OthersKept DEF runVars, calls, manager, records, Busy, Execution
<1> QED BY <1>2, <1>3, <1>4, <1>5, <1>6, <1>7 DEF RunNext

LEMMA AlwaysOneCall == RunSpec => []OInv
<1>1. ResolverInv /\ RInv /\ OInv /\ [RunNext]_<<vars, runVars>> => OInv'
  BY NextOneCall
<1> QED BY <1>1, InitOneCall, RunInductive, PTL DEF RunSpec

\* What is completed and not shown as degraded had the policy of its lease, and
\* can be found, if it was asked for.
THEOREM NotDegradedMeansComplete == RunSpec => []NotDegradedIsComplete
<1>1. OInv => NotDegradedIsComplete
  BY DEF OInv, OneCall, Shown, ShownBy, NotDegradedIsComplete
<1> QED BY <1>1, AlwaysOneCall, PTL

\* The records of a completed execution are of one call.
THEOREM RecordsAreOfOneCall == RunSpec => []RecordsAgree
<1>1. OInv => RecordsAgree
  <2> SUFFICES ASSUME OInv, NEW e \in Executions \ overlapped, statuses[e].status = "COMPLETED",
                      \A c \in Calls : Busy(c) => Execution(c) # e
               PROVE  {summaries[e], provenances[e], manifests[e].by} = {statuses[e].by}
    BY DEF RecordsAgree
  <2>1. ShownBy(e, statuses[e].by)
    BY DEF OInv, OneCall, Shown
  <2>2. phase[statuses[e].by] = "done"
    BY <2>1 DEF ShownBy, Busy
  <2> QED BY <2>1, <2>2 DEF ShownBy
<1> QED BY <1>1, AlwaysOneCall, PTL

-----------------------------------------------------------------------------
(* What an execution computes, for any batch and any settings. *)

\* A set of scores has a highest one.
LEMMA HighestExists ==
  ASSUME NEW S \in SUBSET (0 .. 100), S # {}
  PROVE  Max(S) \in S /\ \A x \in S : x <= Max(S)
<1> DEFINE R == {ss \in Nat \X Nat : ss[1] < ss[2]}
           T == {x \in Nat : 100 - x \in S}
<1>1. IsWellFoundedOn(R, Nat)
  BY NatLessThanWellFounded DEF OpToRel
<1>2. T \subseteq Nat /\ T # {}
  <2>1. PICK x \in S : TRUE
    OBVIOUS
  <2>2. 100 - x \in Nat /\ 100 - (100 - x) = x
    OBVIOUS
  <2> QED BY <2>1, <2>2
<1>3. PICK x \in T : \A y \in T : <<y, x>> \notin R
  <2> HIDE DEF R, T
  <2> QED BY <1>1, <1>2, WFMin
<1>4. 100 - x \in S /\ \A y \in S : 100 - x >= y
  <2>1. ASSUME NEW y \in S, y > 100 - x PROVE FALSE
    <3>1. 100 - y \in T
      OBVIOUS
    <3>2. <<100 - y, x>> \in R
      BY <3>1, <2>1
    <3> QED BY <3>1, <3>2, <1>3
  <2> QED BY <2>1
<1> QED BY <1>4 DEF Max

\* The records whose score is at one level.
At(b, l) == {i \in Records(b) : RowLevel(b[i]) = l}

LEMMA BatchTyped ==
  ASSUME NEW b \in Seq(0 .. 100)
  PROVE  /\ Records(b) = 1 .. Len(b) /\ Len(b) \in Nat
         /\ \A i \in Records(b) : b[i] \in 0 .. 100
         /\ IsFiniteSet(Records(b)) /\ Cardinality(Records(b)) = Len(b)
<1>1. Records(b) = 1 .. Len(b) /\ Len(b) \in Nat /\ \A i \in 1 .. Len(b) : b[i] \in 0 .. 100
  BY LenProperties DEF Records
<1>2. /\ IsFiniteSet(1 .. Len(b))
      /\ Cardinality(1 .. Len(b)) = IF 1 > Len(b) THEN 0 ELSE Len(b) - 1 + 1
  <2>1. 1 \in Int /\ Len(b) \in Int
    BY <1>1
  <2> QED BY <2>1, FS_Interval
<1> QED BY <1>1, <1>2

LEMMA LevelsOf ==
  ASSUME NEW s, NEW b, NEW i \in Records(b)
  PROVE  /\ Rows(s, b)[i] = Row(s, b[i])
         /\ Rows(s, b)[i].level = RowLevel(b[i])
         /\ Rows(s, b)[i].class = RowClass(RowLevel(b[i]))
         /\ Rows(s, b)[i].plan = RowPlan(s, RowLevel(b[i]))
BY DEF Rows, Row

LEMMA SameLevel ==
  ASSUME NEW score
  PROVE  SummaryLevel(score) = RowLevel(score)
BY DEF SummaryLevel, RowLevel

LEMMA LevelTyped ==
  ASSUME NEW x \in 0 .. 100
  PROVE  /\ RowLevel(x) \in 1 .. 4
         /\ RowLevel(x) = 4 <=> x >= 90
         /\ RowLevel(x) = 3 <=> x >= 70 /\ x < 90
         /\ RowLevel(x) = 2 <=> x >= 40 /\ x < 70
         /\ RowLevel(x) = 1 <=> x < 40
BY DEF RowLevel

LEMMA LowLevel ==
  ASSUME NEW x \in 0 .. 100, ~(x >= 70)
  PROVE  RowLevel(x) = 2 <=> x >= 40
<1>1. CASE x >= 40
  BY <1>1 DEF RowLevel
<1>2. CASE ~(x >= 40)
  BY <1>2 DEF RowLevel
<1> QED BY <1>1, <1>2

LEMMA RisksTyped ==
  ASSUME NEW b \in Seq(0 .. 100), NEW i \in Records(b)
  PROVE  /\ b[i] \in 0 .. 100
         /\ RowLevel(b[i]) \in 1 .. 4
         /\ RowLevel(b[i]) = 4 <=> b[i] >= 90
         /\ RowLevel(b[i]) = 3 <=> b[i] >= 70 /\ b[i] < 90
         /\ RowLevel(b[i]) = 2 <=> b[i] >= 40 /\ b[i] < 70
         /\ RowLevel(b[i]) >= 3 <=> b[i] >= 70
         /\ ~(b[i] >= 70) => (RowLevel(b[i]) = 2 <=> b[i] >= 40)
<1>1. b[i] \in 0 .. 100
  BY BatchTyped
<1>2. ASSUME NEW x \in 0 .. 100 PROVE RowLevel(x) >= 3 <=> x >= 70
  <2>1. RowLevel(x) >= 3 <=> RowLevel(x) = 3 \/ RowLevel(x) = 4
    <3>1. PICK n \in 1 .. 4 : n = RowLevel(x)
      BY LevelTyped
    <3> QED BY <3>1
  <2>2. x >= 70 <=> (x >= 70 /\ x < 90) \/ x >= 90
    OBVIOUS
  <2> QED BY <2>1, <2>2, LevelTyped
<1> QED BY <1>1, <1>2, LevelTyped, LowLevel

LEMMA AtTyped ==
  ASSUME NEW b \in Seq(0 .. 100), NEW l \in 1 .. 4
  PROVE  /\ At(b, l) \subseteq Records(b) /\ IsFiniteSet(At(b, l))
         /\ Cardinality(At(b, l)) \in Nat
         /\ Cardinality(At(b, l)) > 0 <=> At(b, l) # {}
<1>1. At(b, l) \in SUBSET Records(b)
  BY DEF At
<1>2. IsFiniteSet(At(b, l))
  BY <1>1, BatchTyped, FS_Subset
<1> QED BY <1>1, <1>2, FS_CardinalityType, FS_EmptySet

LEMMA Disjoint ==
  ASSUME NEW S, NEW T, IsFiniteSet(S), IsFiniteSet(T), S \cap T = {}
  PROVE  IsFiniteSet(S \cup T) /\ Cardinality(S \cup T) = Cardinality(S) + Cardinality(T)
BY FS_Union, FS_EmptySet, FS_CardinalityType

\* Every record is at one of the four levels.
LEMMA LevelsAddUp ==
  ASSUME NEW b \in Seq(0 .. 100)
  PROVE  Cardinality(At(b, 1)) + Cardinality(At(b, 2)) + Cardinality(At(b, 3))
           + Cardinality(At(b, 4)) = Len(b)
<1> DEFINE Lo == At(b, 1) \cup At(b, 2)
           Mid == Lo \cup At(b, 3)
<1>1. /\ IsFiniteSet(At(b, 1)) /\ IsFiniteSet(At(b, 2))
      /\ IsFiniteSet(At(b, 3)) /\ IsFiniteSet(At(b, 4))
  BY AtTyped
<1>2. Records(b) = Mid \cup At(b, 4)
  <2>1. \A i \in Records(b) : RowLevel(b[i]) \in 1 .. 4
    BY BatchTyped, LevelTyped
  <2>2. \A i \in Records(b) : RowLevel(b[i]) \in {1, 2, 3, 4}
    BY <2>1
  <2> QED BY <2>2 DEF At
<1>3. At(b, 1) \cap At(b, 2) = {} /\ Lo \cap At(b, 3) = {} /\ Mid \cap At(b, 4) = {}
  BY DEF At
<1>4. IsFiniteSet(Lo) /\ Cardinality(Lo) = Cardinality(At(b, 1)) + Cardinality(At(b, 2))
  BY <1>1, <1>3, Disjoint
<1> HIDE DEF Lo
<1>5. IsFiniteSet(Mid) /\ Cardinality(Mid) = Cardinality(Lo) + Cardinality(At(b, 3))
  BY <1>1, <1>3, <1>4, Disjoint
<1> HIDE DEF Mid
<1>6. Cardinality(Records(b)) = Cardinality(Mid) + Cardinality(At(b, 4))
  BY <1>1, <1>2, <1>3, <1>5, Disjoint
<1> QED BY <1>1, <1>4, <1>5, <1>6, BatchTyped

\* Summary and manifest count the same sets.
LEMMA CountsOf ==
  ASSUME NEW s, NEW b \in Seq(0 .. 100)
  PROVE  /\ BatchSummary(s, b).risk = ManifestSummary(s, b).counts
         /\ \A l \in 1 .. 4 : ManifestSummary(s, b).counts[l] = Cardinality(At(b, l))
<1>1. \A l \in 1 .. 4 : {i \in Records(b) : SummaryLevel(b[i]) = l} = At(b, l)
  BY SameLevel DEF At
<1>2. \A l \in 1 .. 4 : {i \in Records(b) : Rows(s, b)[i].level = l} = At(b, l)
  BY LevelsOf DEF At
<1>3. BatchSummary(s, b).risk
        = [l \in 1 .. 4 |-> Cardinality({i \in Records(b) : SummaryLevel(b[i]) = l})]
  BY DEF BatchSummary
<1>4. ManifestSummary(s, b).counts
        = [l \in 1 .. 4 |-> Cardinality({i \in Records(b) : Rows(s, b)[i].level = l})]
  BY DEF ManifestSummary
<1>5. \A l \in 1 .. 4 : ManifestSummary(s, b).counts[l] = Cardinality(At(b, l))
  BY <1>2, <1>4
<1>6. BatchSummary(s, b).risk = ManifestSummary(s, b).counts
  <2>1. \A l \in 1 .. 4 : {i \in Records(b) : SummaryLevel(b[i]) = l}
                            = {i \in Records(b) : Rows(s, b)[i].level = l}
    BY <1>1, <1>2
  <2> QED BY <2>1, <1>3, <1>4, Zenon
<1> QED BY <1>5, <1>6

\* Who is in a class is at its levels.
LEMMA ClassesOf ==
  ASSUME NEW s, NEW b \in Seq(0 .. 100), NEW c \in Classes
  PROVE  BatchSummary(s, b).sensitivity[c]
           = Cardinality({i \in Records(b) : Rows(s, b)[i].class = c})
<1> DEFINE Of(k) == {i \in Records(b) : Rows(s, b)[i].class = k}
<1>1. \A i \in Records(b) : RowLevel(b[i]) \in 1 .. 4
  BY BatchTyped, LevelTyped
<1>2. /\ Of("public") = At(b, 1) /\ Of("internal") = At(b, 2)
      /\ Of("confidential") = At(b, 3) \cup At(b, 4)
  BY <1>1, LevelsOf DEF At, RowClass
<1>3. Cardinality(At(b, 3) \cup At(b, 4)) = Cardinality(At(b, 3)) + Cardinality(At(b, 4))
  <2>1. At(b, 3) \cap At(b, 4) = {}
    BY DEF At
  <2>2. IsFiniteSet(At(b, 3)) /\ IsFiniteSet(At(b, 4))
    BY AtTyped
  <2> QED BY <2>1, <2>2, Disjoint
<1>4. BatchSummary(s, b).sensitivity[c]
        = CASE c = "public"   -> BatchSummary(s, b).risk[1]
            [] c = "internal" -> BatchSummary(s, b).risk[2]
            [] OTHER          -> BatchSummary(s, b).risk[3] + BatchSummary(s, b).risk[4]
  BY DEF BatchSummary
<1> HIDE DEF Of
<1>5. BatchSummary(s, b).sensitivity[c] = Cardinality(Of(c))
  <2>1. \A l \in 1 .. 4 : BatchSummary(s, b).risk[l] = Cardinality(At(b, l))
    BY CountsOf
  <2>2. /\ BatchSummary(s, b).risk[1] = Cardinality(At(b, 1))
        /\ BatchSummary(s, b).risk[2] = Cardinality(At(b, 2))
        /\ BatchSummary(s, b).risk[3] + BatchSummary(s, b).risk[4]
             = Cardinality(At(b, 3)) + Cardinality(At(b, 4))
    BY <2>1
  <2> QED BY <1>2, <1>3, <1>4, <2>2 DEF Classes
<1> QED BY <1>5 DEF Of

\* In a batch, the class that dominates is some record's.
LEMMA DominantIsThere ==
  ASSUME NEW s, NEW b \in Seq(0 .. 100), b # <<>>, NEW c \in DecisionRequest(s, b).classes
  PROVE  \E i \in Records(b) : Rows(s, b)[i].class = c
<1> DEFINE Of(k) == {i \in Records(b) : Rows(s, b)[i].class = k}
<1>1. c \in Classes
  BY DEF DecisionRequest, DominantClasses
<1>2. \A k \in Classes : BatchSummary(s, b).sensitivity[k] = Cardinality(Of(k))
  BY ClassesOf
<1>3. \A k \in Classes : Cardinality(Of(c)) >= Cardinality(Of(k))
  BY <1>1, <1>2 DEF DecisionRequest, DominantClasses
<1>4. PICK i \in Records(b) : i = 1
  BY BatchTyped
<1>5. PICK k \in Classes : i \in Of(k)
  BY LevelsOf DEF RowClass, Classes
<1>6. \A l \in Classes : IsFiniteSet(Of(l)) /\ Cardinality(Of(l)) \in Nat
  BY BatchTyped, FS_Subset, FS_CardinalityType
<1>7. Cardinality(Of(k)) # 0
  BY <1>5, <1>6, FS_EmptySet, Zenon
<1>8. Of(c) # {}
  <2>1. Cardinality(Of(c)) # 0
    <3>1. /\ Cardinality(Of(c)) \in Nat /\ Cardinality(Of(k)) \in Nat
          /\ Cardinality(Of(c)) >= Cardinality(Of(k))
      BY <1>1, <1>3, <1>6
    <3> HIDE DEF Of
    <3> QED BY <3>1, <1>7
  <2> QED BY <2>1, FS_EmptySet
<1> QED BY <1>8

LEMMA PlannedIsFlagged ==
  ASSUME NEW s, NEW b \in Seq(0 .. 100)
  PROVE  /\ \A i \in Exceptions(b) : Rows(s, b)[i].plan.action # "none"
         /\ BatchSummary(s, b).planned <= ManifestSummary(s, b).planned
<1> DEFINE Risky == {i \in Records(b) : Rows(s, b)[i].level >= 3}
<1>1. \A i \in Exceptions(b) : i \in Records(b) /\ RowLevel(b[i]) = 4
  BY BatchTyped, LevelTyped DEF Exceptions
<1>2. \A i \in Exceptions(b) : Rows(s, b)[i].plan.action # "none"
  BY <1>1, LevelsOf DEF RowPlan
<1>3. Exceptions(b) \in SUBSET Risky
  BY <1>1, LevelsOf
<1>4. IsFiniteSet(Risky)
  BY BatchTyped, FS_Subset
<1>5. /\ Cardinality(Exceptions(b)) <= Cardinality(Risky)
      /\ Cardinality(Risky) \in Nat
  BY <1>3, <1>4, FS_Subset, FS_CardinalityType
<1>6. BatchSummary(s, b).planned = IF PlansWriteback(s) THEN Cardinality(Exceptions(b)) ELSE 0
  BY DEF BatchSummary
<1>7. ManifestSummary(s, b).planned = Cardinality(Risky)
  BY DEF ManifestSummary
<1> QED BY <1>2, <1>5, <1>6, <1>7

\* The highest score of a batch is a record's, or zero.
LEMMA MaxRiskOf ==
  ASSUME NEW b \in Seq(0 .. 100)
  PROVE  /\ MaxRisk(b) \in 0 .. 100
         /\ \A i \in Records(b) : b[i] <= MaxRisk(b)
         /\ MaxRisk(b) # 0 => \E i \in Records(b) : b[i] = MaxRisk(b)
<1> DEFINE S == {0} \cup {b[i] : i \in Records(b)}
<1>1. S \in SUBSET (0 .. 100) /\ S # {}
  <2>1. \A i \in Records(b) : b[i] \in 0 .. 100
    BY BatchTyped
  <2>2. \A x \in {b[i] : i \in Records(b)} : x \in 0 .. 100
    BY <2>1
  <2>3. 0 \in 0 .. 100
    OBVIOUS
  <2> QED BY <2>2, <2>3, Zenon
<1>2. MaxRisk(b) = Max(S)
  BY DEF MaxRisk
<1>3. Max(S) \in S /\ \A x \in S : x <= Max(S)
  <2> HIDE DEF S
  <2> QED BY <1>1, HighestExists
<1> QED BY <1>1, <1>2, <1>3

LEMMA MaxRiskReached ==
  ASSUME NEW b \in Seq(0 .. 100), NEW t \in 1 .. 100
  PROVE  MaxRisk(b) >= t <=> \E i \in Records(b) : b[i] >= t
<1>1. MaxRisk(b) \in 0 .. 100
  BY MaxRiskOf
<1>2. ASSUME MaxRisk(b) >= t PROVE \E i \in Records(b) : b[i] >= t
  <2>1. MaxRisk(b) # 0
    BY <1>1, <1>2
  <2>2. PICK i \in Records(b) : b[i] = MaxRisk(b)
    BY <2>1, MaxRiskOf
  <2> QED BY <1>2, <2>2
<1>3. ASSUME NEW i \in Records(b), b[i] >= t PROVE MaxRisk(b) >= t
  <2>1. PICK m \in 0 .. 100 : m = MaxRisk(b)
    BY <1>1
  <2>2. PICK x \in 0 .. 100 : x = b[i] /\ x <= m /\ x >= t
    BY <1>3, <2>1, RisksTyped, MaxRiskOf
  <2>3. m >= t
    BY <2>2
  <2> QED BY <2>1, <2>3
<1> QED BY <1>2, <1>3

\* The severity by count and the severity by score differ where their thresholds do.
LEMMA SeveritiesDiffer ==
  ASSUME NEW m \in 0 .. 100, NEW counts,
         counts[4] > 0 <=> m >= 90,
         ~(counts[4] > 0) => (counts[3] > 0 <=> m >= 70),
         ~(counts[4] > 0) /\ ~(counts[3] > 0) => (counts[2] > 0 <=> m >= 40),
         counts[4] \in Nat, counts[3] \in Nat, counts[2] \in Nat
  PROVE  SeverityOfCounts(counts) = SeverityOfRisk(m) \/ m \in {0} \cup 40 .. 44
<1>1. CASE m >= 90
  BY <1>1 DEF SeverityOfCounts, SeverityOfRisk
<1>2. CASE m \in 70 .. 89
  BY <1>2 DEF SeverityOfCounts, SeverityOfRisk
<1>3. CASE m \in 45 .. 69
  BY <1>3 DEF SeverityOfCounts, SeverityOfRisk
<1>4. CASE m \in 1 .. 39
  BY <1>4 DEF SeverityOfCounts, SeverityOfRisk
<1> QED BY <1>1, <1>2, <1>3, <1>4

LEMMA SeveritiesOf ==
  ASSUME NEW s, NEW b \in Seq(0 .. 100),
         SeverityOfCounts(ManifestSummary(s, b).counts) # SeverityOfRisk(MaxRisk(b))
  PROVE  MaxRisk(b) \in {0} \cup 40 .. 44
<1> DEFINE counts == ManifestSummary(s, b).counts
<1>1. \A l \in 1 .. 4 : counts[l] = Cardinality(At(b, l))
  BY CountsOf
<1>2. \A l \in 1 .. 4 : counts[l] \in Nat /\ (counts[l] > 0 <=> \E i \in Records(b) : RowLevel(b[i]) = l)
  BY <1>1, AtTyped DEF At
<1>3. /\ counts[4] > 0 <=> \E i \in Records(b) : RowLevel(b[i]) = 4
      /\ counts[3] > 0 <=> \E i \in Records(b) : RowLevel(b[i]) = 3
      /\ counts[2] > 0 <=> \E i \in Records(b) : RowLevel(b[i]) = 2
      /\ counts[4] \in Nat /\ counts[3] \in Nat /\ counts[2] \in Nat
  BY <1>2
<1> HIDE DEF counts
<1>4. counts[4] > 0 <=> \E i \in Records(b) : b[i] >= 90
  BY <1>3, RisksTyped
<1>5. ~(counts[4] > 0) => (counts[3] > 0 <=> \E i \in Records(b) : b[i] >= 70)
  <2> SUFFICES ASSUME \A i \in Records(b) : ~(b[i] >= 90)
               PROVE  counts[3] > 0 <=> \E i \in Records(b) : b[i] >= 70
    BY <1>4
  <2>1. \A i \in Records(b) : RowLevel(b[i]) = 3 <=> b[i] >= 70
    BY RisksTyped
  <2> QED BY <1>3, <2>1
<1>6. ~(counts[4] > 0) /\ ~(counts[3] > 0) => (counts[2] > 0 <=> \E i \in Records(b) : b[i] >= 40)
  <2> SUFFICES ASSUME \A i \in Records(b) : ~(b[i] >= 70)
               PROVE  counts[2] > 0 <=> \E i \in Records(b) : b[i] >= 40
    BY <1>5
  <2>1. \A i \in Records(b) : RowLevel(b[i]) = 2 <=> b[i] >= 40
    BY RisksTyped
  <2> QED BY <1>3, <2>1
<1>7. /\ counts[4] > 0 <=> MaxRisk(b) >= 90
      /\ ~(counts[4] > 0) => (counts[3] > 0 <=> MaxRisk(b) >= 70)
      /\ ~(counts[4] > 0) /\ ~(counts[3] > 0) => (counts[2] > 0 <=> MaxRisk(b) >= 40)
  <2>1. 90 \in 1 .. 100 /\ 70 \in 1 .. 100 /\ 40 \in 1 .. 100
    OBVIOUS
  <2> QED BY <1>4, <1>5, <1>6, <2>1, MaxRiskReached
<1>8. MaxRisk(b) \in 0 .. 100
  BY MaxRiskOf
<1>9. SeverityOfCounts(counts) = SeverityOfRisk(MaxRisk(b)) \/ MaxRisk(b) \in {0} \cup 40 .. 44
  BY <1>3, <1>7, <1>8, SeveritiesDiffer
<1> QED BY <1>9 DEF counts

LEMMA ObjectSeverity ==
  ASSUME NEW x \in 0 .. 100, SeverityOfRisk(x) # Levels[RowLevel(x)]
  PROVE  x \in {0} \cup 40 .. 44
BY LevelTyped DEF SeverityOfRisk, Levels

LEMMA CountsDoAgree ==
  ASSUME NEW s, NEW b \in Seq(0 .. 100)
  PROVE  CountsAgree(s, b)
<1>1. BatchSummary(s, b).risk = ManifestSummary(s, b).counts
  BY CountsOf
<1>2. ManifestSummary(s, b).counts[1] + ManifestSummary(s, b).counts[2]
        + ManifestSummary(s, b).counts[3] + ManifestSummary(s, b).counts[4] = Len(b)
  BY CountsOf, LevelsAddUp
<1>3. ASSUME NEW d \in DecisionDocument(s, b), NEW e \in BatchDocument(s, b), d.severity # e.severity
      PROVE  MaxRisk(b) \in {0} \cup 40 .. 44
  <2>1. d.severity = SeverityOfRisk(MaxRisk(b))
    BY DEF DecisionDocument, Decision, DecisionRequest
  <2>2. e.severity = SeverityOfCounts(ManifestSummary(s, b).counts)
    BY DEF BatchDocument
  <2> QED BY <1>3, <2>1, <2>2, SeveritiesOf
<1>4. ASSUME NEW d \in ObjectDocuments(s, b), d.severity # Levels[Rows(s, b)[d.of].level]
      PROVE  b[d.of] \in {0} \cup 40 .. 44
  <2>1. PICK i \in Records(b) : d.of = i /\ d.severity = SeverityOfRisk(b[i])
    BY DEF ObjectDocuments
  <2>2. b[i] \in 0 .. 100 /\ Rows(s, b)[i].level = RowLevel(b[i])
    BY BatchTyped, LevelsOf
  <2> QED BY <1>4, <2>1, <2>2, ObjectSeverity
<1> QED BY <1>1, <1>2, <1>3, <1>4, ClassesOf, DominantIsThere, PlannedIsFlagged DEF CountsAgree

\* Rows, receipts and provenance authorise the same.
LEMMA AuthorisationDoesAgree ==
  ASSUME NEW s \in Settings, NEW b \in Seq(0 .. 100)
  PROVE  AuthorisationAgrees(s, b)
<1> DEFINE Same == PlansWriteback(s) /\ s.asked \in {"none", s.action} /\ (\E i \in Records(b) : b[i] >= 70)
           Authorised == \E i \in Records(b) : CanApply(s, Rows(s, b)[i])
           Planned == \E r \in Receipts(s, b, Allowed) :
                        ~r.dryRun /\ r.status = "planned" /\ ActionRequested(s) # "none"
<1>1. /\ s.tier \in Tiers /\ s.action \in Modes \cup {"none"} /\ s.asked \in Modes \cup {"none"}
      /\ s.writeback \in BOOLEAN /\ s.content \in BOOLEAN
  BY RecordsAssumption
<1>2. ASSUME Same PROVE Authorised <=> s.action = "apply" /\ s.writeback
  <2>1. PICK i \in Records(b) : b[i] >= 70
    BY <1>2
  <2>2. b[i] \in 0 .. 100 /\ RowLevel(b[i]) \in 1 .. 4
    BY RisksTyped
  <2>3. RowLevel(b[i]) \in 1 .. 4 /\ RowLevel(b[i]) >= 3
    BY <2>1, RisksTyped
  <2>4. Rows(s, b)[i].plan = RowPlan(s, RowLevel(b[i]))
    BY LevelsOf
  <2>5. s.action = "apply" /\ s.writeback => CanApply(s, Rows(s, b)[i])
    BY <2>3, <2>4 DEF CanApply, RowPlan
  <2> QED BY <2>5 DEF CanApply
<1>3. ASSUME Same PROVE Planned <=> s.action = "apply" /\ s.writeback
  <2>1. PlansWriteback(s) /\ ActionRequested(s) # "none"
    BY <1>3 DEF ActionRequested
  <2>2. Planned <=> ~DryRun(s)
    <3>1. \A r : r \in Receipts(s, b, Allowed) <=>
                   r = [status |-> "planned", dryRun |-> DryRun(s), applied |-> FALSE,
                        refs |-> SampleRefs(b)]
      BY <2>1 DEF Receipts, ReceiptStatus
    <3>2. PICK r : r = [status |-> "planned", dryRun |-> DryRun(s), applied |-> FALSE,
                        refs |-> SampleRefs(b)]
      OBVIOUS
    <3>3. r.status = "planned" /\ (r.dryRun <=> DryRun(s))
      BY <3>2
    <3> QED BY <2>1, <3>1, <3>2, <3>3
  <2>3. EnvelopeMode(s) = "apply" <=> s.action = "apply"
    BY <1>1, <1>3 DEF EnvelopeMode, Modes
  <2> QED BY <1>1, <2>2, <2>3 DEF DryRun
<1>4. \A verdict \in Decisions \ {Allowed} : \A r \in Receipts(s, b, verdict) : r.status = "blocked"
  BY DEF Receipts, ReceiptStatus
<1>5. \A d \in Documents(s, b) : ~d.applied
  BY DEF Documents, BatchDocument, ObjectDocuments, DecisionDocument, ActionDocuments, Receipts
<1>6. OperationOf(s) = "classify_and_apply_tags" <=> RowPlan(s, 4).decision = "allow"
  BY <1>1 DEF OperationOf, RowPlan
<1> QED BY <1>2, <1>3, <1>4, <1>5, <1>6 DEF AuthorisationAgrees

LEMMA IntentsDoAgree == IntentsAgree
<1> SUFFICES ASSUME NEW operation \in Mutations \cup {"list_blobs", "writeback_batch"},
                    NEW mode \in Modes, NEW complete \in BOOLEAN, NEW decided \in BOOLEAN
             PROVE  LET result == EvaluateIntent(operation, mode, complete, decided) IN
                      /\ result.status = "ok" => ("bounded_preview" \in result.obligations
                                                    <=> operation \notin Mutations)
                      /\ result.status = "ok" /\ operation \in Restricted =>
                           \E r \in result.receipts : r.status = "planned" /\ (r.dryRun <=> mode # "apply")
                      /\ result.status # "ok" => result.receipts = {}
  BY DEF IntentsAgree
<1> DEFINE result == EvaluateIntent(operation, mode, complete, decided)
<1>1. CASE ~complete \/ ~decided
  <2>1. result.status # "ok" /\ result.receipts = {}
    BY <1>1 DEF EvaluateIntent
  <2> QED BY <2>1
<1>2. CASE complete /\ decided
  <2>1. /\ result.status = "ok" /\ result.obligations = Obligations(operation \in Mutations)
        /\ result.receipts = IntentReceipts(operation, mode, Allowed)
    BY <1>2 DEF EvaluateIntent
  <2>2. "bounded_preview" \in result.obligations <=> operation \notin Mutations
    BY <2>1 DEF Obligations
  <2>3. ASSUME operation \in Restricted
        PROVE  \E r \in result.receipts : r.status = "planned" /\ (r.dryRun <=> mode # "apply")
    <3>1. NeedsReceipt(operation)
      BY <2>3 DEF NeedsReceipt, Mutations
    <3>2. [status |-> ReceiptStatus(Allowed), dryRun |-> mode # "apply", applied |-> FALSE]
            \in result.receipts
      BY <2>1, <3>1 DEF IntentReceipts
    <3> QED BY <3>2 DEF ReceiptStatus
  <2> QED BY <2>1, <2>2, <2>3
<1> QED BY <1>1, <1>2

\* Whatever is recorded of an execution adds up.
THEOREM RecordsDoAddUp == ExecutionAddsUp /\ (RunSpec => []RecordsAddUp)
<1>1. ExecutionAddsUp
  BY CountsDoAgree, AuthorisationDoesAgree, IntentsDoAgree, RecordsAssumption DEF ExecutionAddsUp
<1>2. RecordsAddUp
  BY <1>1 DEF RecordsAddUp
<1> QED BY <1>1, <1>2, PTL

-----------------------------------------------------------------------------
(* Why a call ends: it has a bounded number of steps.                        *)

\* Where it stands in Work, ...
PhasesLeft(c) ==
  CASE phase[c] = "ready"      -> 8
    [] phase[c] = "policy"     -> 7
    [] phase[c] = "prepare"    -> 6
    [] phase[c] = "manifest"   -> 5
    [] phase[c] = "index"      -> 4
    [] phase[c] = "status"     -> 3
    [] phase[c] = "summary"    -> 2
    [] phase[c] = "provenance" -> 1
    [] OTHER                   -> 0

\* ... and where its resolution stands.
LooksLeft(c) ==
  CASE pc[c] = "locate"    -> 9
    [] pc[c] = "hash"      -> 8
    [] pc[c] = "artifact"  -> 7
    [] pc[c] = "signature" -> 6
    [] pc[c] = "parse"     -> 5
    [] pc[c] = "lock"      -> 4
    [] pc[c] = "active"    -> 3
    [] pc[c] = "lkg"       -> 2
    [] pc[c] = "fallback"  -> 1
    [] OTHER               -> 0

StepsLeft(c) == 10 * PhasesLeft(c) + LooksLeft(c)

LEMMA StepsBounded ==
  ASSUME NEW c \in Calls
  PROVE  PhasesLeft(c) \in 0 .. 8 /\ LooksLeft(c) \in 0 .. 9 /\ StepsLeft(c) \in 0 .. 89
<1>1. PhasesLeft(c) \in 0 .. 8
  BY DEF PhasesLeft
<1>2. LooksLeft(c) \in 0 .. 9
  BY DEF LooksLeft
<1> HIDE DEF PhasesLeft, LooksLeft
<1> QED BY <1>1, <1>2 DEF StepsLeft

\* A call that moves on to a later phase has fewer steps left, wherever its
\* resolution is; one that stays in its phase, if its resolution moves on.
LEMMA FewerSteps ==
  ASSUME NEW p \in 0 .. 8, NEW q \in 0 .. 8, NEW l \in 0 .. 9, NEW m \in 0 .. 9,
         q < p \/ (q = p /\ m < l)
  PROVE  10 * q + m < 10 * p + l
OBVIOUS

\* Refusing ends the resolution, or leaves it one look at last-known-good.
LEMMA StepLooks ==
  ASSUME IInv, NEW r \in Resolvers, Step(r)
  PROVE  LooksLeft(r)' < LooksLeft(r) /\ \A c \in Resolvers \ {r} : pc'[c] = pc[c]
<1>1. pc \in [Resolvers -> Labels]
  BY DEF IInv, TypeOK
<1> USE <1>1 DEF Goto
<1>2. ASSUME NEW s, Refuse(r, s) PROVE pc' \in {[pc EXCEPT ![r] = "fallback"], [pc EXCEPT ![r] = "idle"]}
  BY <1>2 DEF Refuse, Answered
<1>3. CASE Locate(r) \/ VerifyHash(r)
  <2>1. pc[r] \in {"locate", "hash"}
    BY <1>3 DEF Locate, VerifyHash
  <2>2. \/ pc[r] = "locate" /\ pc' = [pc EXCEPT ![r] = "hash"]
        \/ pc[r] = "hash" /\ pc' = [pc EXCEPT ![r] = "artifact"]
        \/ pc' \in {[pc EXCEPT ![r] = "fallback"], [pc EXCEPT ![r] = "idle"]}
    BY <1>2, <1>3 DEF Locate, VerifyHash
  <2> QED BY <2>1, <2>2 DEF LooksLeft
<1>4. CASE ReadArtifact(r) \/ VerifySignature(r) \/ Parse(r)
  <2>1. pc[r] \in {"artifact", "signature", "parse"}
    BY <1>4 DEF ReadArtifact, VerifySignature, Parse
  <2>2. \/ pc[r] = "artifact" /\ pc' = [pc EXCEPT ![r] = "signature"]
        \/ pc[r] = "signature" /\ pc' = [pc EXCEPT ![r] = "parse"]
        \/ pc[r] = "parse" /\ pc' = [pc EXCEPT ![r] = "lock"]
        \/ pc' \in {[pc EXCEPT ![r] = "fallback"], [pc EXCEPT ![r] = "idle"]}
    BY <1>2, <1>4 DEF ReadArtifact, VerifySignature, Parse
  <2> QED BY <2>1, <2>2 DEF LooksLeft
<1>5. CASE Activate(r) \/ PersistActive(r)
  BY <1>5 DEF Activate, PersistActive, LooksLeft
<1>6. CASE PersistLkg(r) \/ PersistFails(r) \/ Fallback(r)
  <2>1. pc[r] \in {"active", "lkg", "fallback"} /\ pc' = [pc EXCEPT ![r] = "idle"]
    BY <1>6 DEF PersistLkg, PersistFails, Fallback, Answered
  <2> QED BY <2>1 DEF LooksLeft
<1> QED BY <1>3, <1>4, <1>5, <1>6 DEF Step

\* What a call does itself, and what is done for it.
Moves(c) ==
  \/ Work(c) \/ Step(c)
  \/ \E e \in Executions : Reject(c, e)
  \/ \E q \in Requests : Start(c, q)

LEMMA WorkMoves ==
  ASSUME RInv, NEW c \in Calls, NEW d \in Calls,
         \/ Work(d)
         \/ \E e \in Executions : Reject(d, e)
         \/ \E q \in Requests : Start(d, q)
  PROVE  IF c = d THEN PhasesLeft(c)' < PhasesLeft(c)
                  ELSE phase'[c] = phase[c] /\ pc'[c] = pc[c]
<1>1. phase \in [Calls -> Phases]
  BY DEF RInv, RunTypeOK
<1> USE <1>1 DEF Enter
<1>2. CASE PolicyResolved(d) \/ Prepare(d) \/ SaveManifest(d)
  <2>1. /\ pc' = pc
        /\ \E p \in {"prepare", "manifest", "index", "status", "done"} : phase' = [phase EXCEPT ![d] = p]
        /\ \/ phase[d] = "policy" /\ phase'[d] \in {"prepare", "done"}
           \/ phase[d] = "prepare" /\ phase'[d] \in {"manifest", "done"}
           \/ phase[d] = "manifest" /\ phase'[d] \in {"index", "status", "done"}
    BY <1>2 DEF PolicyResolved, Prepare, SaveManifest, Fail, vars, locals
  <2> QED BY <2>1 DEF PhasesLeft
<1>3. CASE PublishDocuments(d) \/ SaveStatus(d) \/ SaveSummary(d) \/ SaveProvenance(d)
  <2>1. /\ pc' = pc
        /\ \/ phase[d] = "index" /\ phase' = [phase EXCEPT ![d] = "status"]
           \/ phase[d] = "status" /\ phase' = [phase EXCEPT ![d] = "summary"]
           \/ phase[d] = "summary" /\ phase' = [phase EXCEPT ![d] = "provenance"]
           \/ phase[d] = "provenance" /\ phase' = [phase EXCEPT ![d] = "done"]
    BY <1>3 DEF PublishDocuments, SaveStatus, SaveSummary, SaveProvenance, vars, locals
  <2> QED BY <2>1 DEF PhasesLeft
<1>4. ASSUME NEW e \in Executions, Reject(d, e)
      PROVE  IF c = d THEN PhasesLeft(c)' < PhasesLeft(c)
                      ELSE phase'[c] = phase[c] /\ pc'[c] = pc[c]
  <2>1. pc' = pc /\ phase[d] = "ready" /\ phase' = [phase EXCEPT ![d] = "done"]
    BY <1>4 DEF Reject, vars, locals
  <2> QED BY <2>1 DEF PhasesLeft
<1>5. ASSUME NEW q \in Requests, Start(d, q)
      PROVE  IF c = d THEN PhasesLeft(c)' < PhasesLeft(c)
                      ELSE phase'[c] = phase[c] /\ pc'[c] = pc[c]
  <2>1. /\ pc' = [pc EXCEPT ![d] = "locate"]
        /\ phase[d] = "ready" /\ phase' = [phase EXCEPT ![d] = "policy"]
    BY <1>5 DEF Start, Request, Goto
  <2> QED BY <2>1 DEF PhasesLeft
<1> QED BY <1>2, <1>3, <1>4, <1>5 DEF Work

\* What any step leaves of a call's steps.
LEMMA CallsMove ==
  ASSUME IInv, RInv, [RunNext]_<<vars, runVars>>, NEW c \in Calls
  PROVE  /\ PhasesLeft(c)' <= PhasesLeft(c)
         /\ PhasesLeft(c)' = PhasesLeft(c) => LooksLeft(c)' <= LooksLeft(c)
         /\ Moves(c) => \/ PhasesLeft(c)' < PhasesLeft(c)
                        \/ PhasesLeft(c)' = PhasesLeft(c) /\ LooksLeft(c)' < LooksLeft(c)
<1>0. /\ phase \in [Calls -> Phases] /\ Calls = Resolvers
      /\ PhasesLeft(c) \in 0 .. 8 /\ LooksLeft(c) \in 0 .. 9
      /\ PhasesLeft(c)' \in 0 .. 8 /\ LooksLeft(c)' \in 0 .. 9
  <2>1. PhasesLeft(c) \in 0 .. 8 /\ PhasesLeft(c)' \in 0 .. 8
    BY DEF PhasesLeft
  <2>2. LooksLeft(c) \in 0 .. 9 /\ LooksLeft(c)' \in 0 .. 9
    BY DEF LooksLeft
  <2> QED BY <2>1, <2>2 DEF RInv, RunTypeOK, Calls
<1>1. ASSUME phase'[c] = phase[c] PROVE PhasesLeft(c)' = PhasesLeft(c)
  BY <1>1 DEF PhasesLeft
<1>2. ASSUME pc'[c] = pc[c] PROVE LooksLeft(c)' = LooksLeft(c)
  BY <1>2 DEF LooksLeft
<1> DEFINE Less == /\ PhasesLeft(c)' <= PhasesLeft(c)
                   /\ PhasesLeft(c)' = PhasesLeft(c) => LooksLeft(c)' <= LooksLeft(c)
<1>3. ASSUME NEW d \in Calls,
             \/ Work(d)
             \/ \E e \in Executions : Reject(d, e)
             \/ \E q \in Requests : Start(d, q)
      PROVE  Less /\ (c = d => PhasesLeft(c)' < PhasesLeft(c))
  <2>1. CASE c = d
    <3>1. PhasesLeft(c)' < PhasesLeft(c)
      BY <1>3, <2>1, WorkMoves
    <3> QED BY <1>0, <3>1
  <2>2. CASE c # d
    <3>1. PhasesLeft(c)' = PhasesLeft(c) /\ LooksLeft(c)' = LooksLeft(c)
      BY <1>1, <1>2, <1>3, <2>2, WorkMoves
    <3> QED BY <1>0, <2>2, <3>1
  <2> QED BY <2>1, <2>2
<1>4. ASSUME Elsewhere PROVE Less
  <2>1. PhasesLeft(c)' = PhasesLeft(c)
    BY <1>1, <1>4 DEF Elsewhere, runVars, calls
  <2>2. ASSUME NEW r \in Resolvers, Step(r) PROVE LooksLeft(c)' <= LooksLeft(c)
    <3>1. CASE r = c
      <4>1. LooksLeft(c)' < LooksLeft(c)
        BY <2>2, <3>1, StepLooks
      <4> QED BY <1>0, <4>1
    <3>2. CASE r # c
      <4>1. LooksLeft(c)' = LooksLeft(c)
        BY <1>0, <1>2, <2>2, <3>2, StepLooks
      <4> QED BY <1>0, <4>1
    <3> QED BY <3>1, <3>2
  <2>3. ASSUME \A r \in Resolvers : ~Step(r) PROVE LooksLeft(c)' <= LooksLeft(c)
    <3>1. pc' = pc
      BY <1>4, <2>3 DEF Elsewhere, Sign, Publish, SetGitUnavailable, locals
    <3> QED BY <1>0, <1>2, <3>1
  <2>4. LooksLeft(c)' <= LooksLeft(c)
    BY <2>2, <2>3
  <2> QED BY <1>0, <2>1, <2>4
<1>5. ASSUME CrashAgent PROVE Less
  <2>1. phase'[c] \in {phase[c], "done"} /\ pc'[c] = "idle"
    BY <1>0, <1>5 DEF CrashAgent, Crash
  <2>2. LooksLeft(c)' = 0
    BY <2>1 DEF LooksLeft
  <2>3. PhasesLeft(c)' = PhasesLeft(c) \/ PhasesLeft(c)' = 0
    BY <2>1 DEF PhasesLeft
  <2> QED BY <1>0, <2>2, <2>3
<1>6. ASSUME UNCHANGED <<vars, runVars>> PROVE Less
  <2>1. PhasesLeft(c)' = PhasesLeft(c) /\ LooksLeft(c)' = LooksLeft(c)
    BY <1>1, <1>2, <1>6 DEF vars, locals, runVars, calls
  <2> QED BY <1>0, <2>1
<1>7. Less
  BY <1>3, <1>4, <1>5, <1>6 DEF RunNext
<1>8. ASSUME Step(c) PROVE LooksLeft(c)' < LooksLeft(c)
  BY <1>0, <1>8, StepLooks
<1> HIDE DEF PhasesLeft, LooksLeft
<1> QED BY <1>0, <1>3, <1>7, <1>8 DEF Moves

\* A call ends: it has at most 89 steps, each that it takes, or that is taken for
\* it, leaves it fewer, whatever else is resolved or executed, published, failed
\* or crashed, and no step of anyone leaves it more.
THEOREM CallsWearOff ==
  RunSpec =>
    /\ [](\A c \in Calls : StepsLeft(c) \in 0 .. 89)
    /\ [][\A c \in Calls :
            /\ StepsLeft(c)' <= StepsLeft(c)
            /\ Moves(c) => StepsLeft(c)' < StepsLeft(c)]_<<vars, runVars>>
<1>1. \A c \in Calls : StepsLeft(c) \in 0 .. 89
  BY StepsBounded
<1>2. IInv /\ RInv /\ [RunNext]_<<vars, runVars>> =>
        [\A c \in Calls :
            /\ StepsLeft(c)' <= StepsLeft(c)
            /\ Moves(c) => StepsLeft(c)' < StepsLeft(c)]_<<vars, runVars>>
  <2> SUFFICES ASSUME IInv, RInv, [RunNext]_<<vars, runVars>>, NEW c \in Calls
               PROVE  /\ StepsLeft(c)' <= StepsLeft(c)
                      /\ Moves(c) => StepsLeft(c)' < StepsLeft(c)
    OBVIOUS
  <2>1. /\ PhasesLeft(c) \in 0 .. 8 /\ LooksLeft(c) \in 0 .. 9
        /\ PhasesLeft(c)' \in 0 .. 8 /\ LooksLeft(c)' \in 0 .. 9
    <3>1. PhasesLeft(c) \in 0 .. 8 /\ PhasesLeft(c)' \in 0 .. 8
      BY DEF PhasesLeft
    <3>2. LooksLeft(c) \in 0 .. 9 /\ LooksLeft(c)' \in 0 .. 9
      BY DEF LooksLeft
    <3> QED BY <3>1, <3>2
  <2>2. /\ StepsLeft(c) = 10 * PhasesLeft(c) + LooksLeft(c)
        /\ StepsLeft(c)' = 10 * PhasesLeft(c)' + LooksLeft(c)'
    BY DEF StepsLeft
  <2>3. /\ PhasesLeft(c)' <= PhasesLeft(c)
        /\ PhasesLeft(c)' = PhasesLeft(c) => LooksLeft(c)' <= LooksLeft(c)
        /\ Moves(c) => \/ PhasesLeft(c)' < PhasesLeft(c)
                       \/ PhasesLeft(c)' = PhasesLeft(c) /\ LooksLeft(c)' < LooksLeft(c)
    BY CallsMove
  <2> QED BY <2>1, <2>2, <2>3, FewerSteps
<1>3. RunSpec => [](IInv /\ RInv)
  <2>1. ResolverInv => IInv
    BY DEF ResolverInv
  <2> QED BY <2>1, RunInductive, PTL DEF RunSpec
<1> QED BY <1>1, <1>2, <1>3, PTL DEF RunSpec

=============================================================================
