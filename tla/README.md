# Verification of the data agent and its control plane

This directory holds a TLA+ development for `data-agent-local-resolution`: a Data
Agent that scans Azure Blob accounts, resolves signed policies, plans and applies
governed write-backs, and a control plane (`cmd/platform-api`) that hands out leases,
keeps approvals and collects evidence. Modules are checked with TLC and, where the
tables below say so, proved with TLAPS.

Contents: 1 inventory, 2 modules and how they correspond to the code, 3 runs and
bounds, 4 fairness, 5 proofs, 6 what the runs contradict and what is known beyond
them, 7 not modelled, 8 plan.

## 1. Inventory

Paths are relative to `src/internal/` unless they start with `cmd/`.

### 1.1 Async scan jobs and workers
`api/azureblob_async_scan_worker.go`, `api/azureblob_async_scan_handlers.go`,
`controlplane/azureblob_scan_jobs.go`, `controlplane/azureblob_scan_jobs_admin.go`

- *State*: a map of jobs (status, cancel flag, checkpoint, counters, lease owner,
  expiry and heartbeat) under one mutex, rewritten to one JSON file before every
  unlock, with errors ignored; per job a normalized result file that workers rewrite without a lock; the
  portal's inventory.
- *Operations*: queue, get, resume, pause, cancel, complete, fail, checkpoint,
  reclaim stale leases, reset, import; a goroutine per resume that acquires the lease
  and lists page after page.
- *Hard*: several workers of one job; requests between any two steps of a worker;
  copies of the job that are stored after the lock was dropped; leases that expire
  under a worker; errors of file writes that are ignored, those of the job itself
  included; listings without a deadline; crashes and torn files.
- *Correct means*: one scanner at a time while nobody clears the lease; the checkpoint
  never passes a page that was not stored; a completed job delivered its scopes; the
  limit holds; one record per blob; a running job is scanned by somebody.

### 1.2 Control plane: jobs, leases, approvals, evidence
`platform/store.go`, `platform/approval_store.go`, `platform/server.go`,
`platform/approval_handlers.go`

- *State*: SQLite tables behind one mutex, opened without a busy timeout: jobs, leases,
  approvals, and evidence per execution; identifiers are made of the second.
- *Operations*: create job, next lease, heartbeat, create, list, get and decide
  approvals (with lazy expiry), store action results.
- *Hard*: a job that replaces another one of the same second; an assignment whose write
  is refused; a heartbeat that is stored whatever the lease's status is; the newest 100
  approvals taken before they are filtered.
- *Correct means*: a lease that was created is executed and ends, an ended lease stays
  ended, and what the evidence says was done.

### 1.3 Governed lease execution and write-back
`api/controlplane_handlers.go`, `api/writeback_batch_handlers.go`,
`api/azureblob_actions_handlers.go`, `execution/manifest.go`, `execution/actions.go`,
`controlplane/client.go`, `cmd/policy-agent/main.go`

- *State*: that of a request; the manifest in the local store; tags and metadata on the
  blobs.
- *Operations*: poll a lease, scan, start the execution, report, write back
  automatically, upload evidence; batch and single write-backs asked for by a user;
  executions that a user starts without a lease, of any id and in any mode.
- *Hard*: every call runs under the request's context, also those that report its
  end; handlers overlap on one manifest; results are read in one step and uploaded
  in another; errors are ignored.
- *Correct means*: no blob is written without an approval, nor by a batch for an execution
  that nobody asked for in apply mode with write-back; evidence claims nothing that was not
  done.

### 1.4 Execution orchestrator and embedded Guardian
`execution/orchestrator.go`, `manager.go`, `manifest.go`, `actions.go`, `workflow.go`,
`guardian_embedded.go`

- *State*: the manager's three maps in memory (status, summary and provenance per
  execution); the manifest in the local store; search documents.
- *Operations*: Start, which resolves the policy, the workflow and the batch, asks the
  Guardian, stores the manifest, publishes documents and saves the status; EvaluateIntent.
- *Hard*: several calls may name one execution and replace each other's records one by
  one; each phase may fail; the policy is resolved long before the manifest is stored; the
  maps are lost in a crash and the rest is not; summary, manifest, receipts, provenance and
  documents are computed by functions of their own from one batch.
- *Correct means*: what is shown as completed has its evidence, made under a verified
  policy; one that used another policy or was not indexed is shown as degraded; a failure
  is recorded; the records of one execution are of one call and say the same.

### 1.5 Policy resolver
`policyresolver/resolver.go`, `cache.go`, `git_resolver.go`, `hash.go`, `signature.go`

- *State*: per data store, the active policy in memory, its file, and a last-known-good
  file; a switch that makes the repository count as unavailable.
- *Operations*: resolve (hash, signature, parse: three reads of the artifact), activate
  (memory, then two files, under a lock), fall back to last-known-good.
- *Hard*: an artifact replaced between the reads; resolutions that activate at once; an
  activation that fails after the memory changed; a crash between the two files; a
  fallback that is not verified again.
- *Correct means*: what is in use was hashed, signed and parsed as one artifact; a lease
  gets the policy it names, or one it allows for; memory and files agree.

### 1.6 Governance evaluation
`platform/governance.go`, `platform/approval_store.go`: a pure decision over roles,
regions, operations and selected policies, and the approvers an approval lists.
*Correct means*: a role or jurisdiction that blocks is never loosened by a later rule;
whatever destroys or applies is reviewed by somebody; asking for more never gets less.

### 1.7 Sources, configuration, secrets and the portal's state
`api/server.go`, `api/admin_handlers.go`, `api/portal_options_handlers.go`,
`connectors/azureblob/config.go`, `connectors/azureblob/runtime_config.go`,
`secretstore/secretstore.go`, `portalstate/store.go`, `portalstate/admin.go`

- *State*: the connector's configuration in memory; one secret file under a mutex; the
  portal's state (sources, containers, blobs, evidence, audit, actions), each list with a
  cap, in memory and in one file that is rewritten in place.
- *Operations*: save, change and delete a source, set its access, scan, seed, discover,
  test, list options, reset (with or without everything), import (with or without reset).
- *Hard*: every request takes the locks of the three stores one step at a time; upserts of
  containers and blobs take the portal's lock twice; the configuration is read again in
  the middle of a request; a reset removes the secret file without its mutex; a torn
  write, or one that failed and whose error is ignored.
- *Correct means*: a secret is what its last writer made of it; no item without its source;
  what was answered is on record.
- `adminReset` and `adminImport` are written but not registered in `Routes()` at this commit.
  `SourceInventory` and `AsyncScan` have them all the same, which only adds behaviours; the
  workbench is modelled without.

### 1.8 Azure Blob workbench
`api/azureblob_workbench_handlers.go`, `api/azureblob_portal_state.go`, `api/authorization.go`

- *State*: the account itself (external) and the portal's records of what was done.
- *Operations*: fifteen: list, view, download, create, update, set metadata and tags,
  copy, move, set tier, rehydrate, create and delete containers and blobs.
- *Hard*: an upload is up to four calls, each of which may fail or lose its answer; whether
  a blob exists is asked before it is written; other clients use the account; audit mode
  only records who was not allowed; records are saved in four steps after the fact.
- *Correct means*: no unconfirmed, dry or unauthorized change; records are true; nothing is
  overwritten or removed that nobody asked to overwrite or remove.

### 1.9 Sessions, runtimes, posture scans, and other parts
- `api/auth_handlers.go`: users and sessions in two files; each request looks its session up
  twice. *Correct means*: a session ends with its life, its idle window and its logout,
  restarts included, and not before.
- `connectors/runtime/runtime.go`, `ai/runtime/runtime.go`: one call of an external runtime
  behind a gate. *Correct means*: nothing is applied that the gate did not let through, and
  no answer claims what did not happen.
- `dspm/engine.go`: risk, class and next tier of one object. *Correct means*: a deeper scan
  never takes back what a shallower one found.
- Search index backends, data passports, portal reads and exports, contracts, configuration,
  command line tools: single calls without state of their own between calls;
  `PROJECT.json` gives the reason for each.

### 1.10 How the parts meet
- The agent's poller calls the agent's own `run-next-lease` every few seconds; that
  handler calls the control plane (`NextLease`, heartbeats, evidence), the connector,
  the orchestrator (which calls resolver and Guardian), and the local store.
- Portal users call the control plane (jobs, approvals) and the agent (async scans,
  executions, batch and single write-backs).
- Async scan workers call the job store, the portal state, the connector and write the
  normalized files that the orchestrator later plans from.
- Source requests and workbench requests share the portal's state, the configuration and
  the secrets; both run under a session, whose role authorizes them.

## 2. Modules

| Module | Stands for | Extends |
|---|---|---|
| `ScanJobStore` | the job record and what every critical section does to it, as functions of the record | |
| `AsyncScan` | workers, requests, lease expiry, faults, crashes; one action per critical section or file access | `ScanJobStore` |
| `AsyncScanProperties` | what is expected of it, and what the documents say | `AsyncScan` |
| `ScanLease` | the abstract lease: granted if free or expired, renewed by its owner, dropped by its owner or a clearing request, expired, brought back by a restart | |
| `ScanStop` | `AsyncScan` with a history variable that counts pages listed after a stop | `AsyncScanProperties` |
| `AsyncScanProofs` | proofs (section 5) of all safety properties of the scan | `ScanStop` |
| `ControlPlane` | jobs, leases, approvals; every method is one step under the store's mutex | |
| `LeaseExecution` | handlers of the agent, the local store's manifest, Azure, calls in flight | `ControlPlane` |
| `LeaseExecutionProperties` | what is expected of them; implements `GovernedWriteback` | `LeaseExecution`, `GovernedWriteback` (as `Governed`) |
| `GovernedWriteback` | abstract: decisions, plans, writes and what is shown of them, with no handlers and one store | |
| `LeaseExecutionProofs` | proofs (section 5) | `LeaseExecutionProperties` |
| `VerifiedPolicy` | abstract: what resolving promises, with no repository and no files | |
| `PolicyResolution` | resolutions, the cache and its files, the publisher; with its properties; implements `VerifiedPolicy` | `VerifiedPolicy` (as `Promised`) |
| `PolicyResolutionProofs` | proofs (section 5) | `PolicyResolution` |
| `Orchestrator` | calls of Start over the resolver; with its properties | `PolicyResolution`, `ExecutionRecords` |
| `OrchestratorProofs` | proofs (section 5) | `Orchestrator`, `PolicyResolutionProofs` |
| `ExecutionRecords` | what Start and EvaluateIntent compute: summary, manifest rows, decisions, receipts, documents; as operators | |
| `PortalState` | the portal's state as one value, and what each method of its store does to it | |
| `PortalProofs` | what the portal's methods keep of items and records | `PortalState` |
| `SourceInventory` | source requests over configuration, secrets and portal state | `PortalState` |
| `InventoryProofs` | proofs (section 5) | `SourceInventory`, `PortalProofs` |
| `Workbench` | workbench requests over the account and the portal state | `PortalState` |
| `WorkbenchProofs` | proofs (section 5) | `Workbench`, `PortalProofs` |
| `Sessions` | users, sessions, their files, the two lookups of a request | |
| `Governance` | the governance decision and approvers; operators | |
| `ExternalRuntimes` | the outcomes of one call of a connector's or an AI runtime; operators | |
| `DspmScan` | risk, class and next tier of one object; operators | |
| `Access` | sessions and those operators next to each other | `Sessions`, `Governance`, `ExternalRuntimes`, `DspmScan` |
| `AccessProofs` | proofs (section 5) | `Access` |
| `MC...` | listings, requests and plans for TLC, and symmetry | |

Each module with actions has a block "Weakened forms": variants of one operator that
stand for plausible mistakes in the code. Nothing uses them; every property can be shown
to notice one of them (`PROJECT.json`, "mutants").

### 2.1 State and code, async scan

| Variable | In the code |
|---|---|
| `job` | `AzureBlobScanJob` in the store's map and file: `status`, `cancel` (`CancelRequested`), `cp` (segment, `ContinuationMarker`, `ObjectsScanned`), `written` (`RecordsWritten`), `owner`/`live` (`LeaseOwner`, `LeaseExpiresAt` in the future) |
| `jobFile` | the job in the store's file |
| `inventory` | the blobs in `portalstate.Store` |
| `artifact` | records per blob in the job's normalized file |
| `copy` | the job that `transition` returned to Pause, Cancel or Complete, before the second half stores it |
| `at`, `objs`, `page`, `tries`, `snap` | a worker's `job`/`current` copies, the page it listed, its retry counter, the file as it read it |
| `pc` | the next critical section or file access of each goroutine and request |
| `intact` | history: nobody but workers moved the checkpoint, and no results were lost |

Scopes and prefixes are two nested loops in the code; a *segment* is one pair of them,
and `Listing[s]` is what the account lists for it. `Pause`, `Cancel` and `Complete` are
two actions each because the code takes the mutex twice (`transition`, then the copy
with the lease cleared). The worker's page is eight actions, from `check` to
`checkpoint`, because requests, other workers and crashes fall between them.

`Saved` is joined to every step: a step that changes the job ends by writing the file
(`saveLocked`). The write's error is ignored, so with fault `"unsaved"` the file stays as it
was, or is left truncated; `Crash` then goes on with what the file holds. The portal's
state ignores its errors as well: with the same fault a crash may leave any list of blobs.

### 2.2 State and code, leases

| Variable | In the code |
|---|---|
| `clock`, `created` | the second that names job, lease and execution, and the jobs created in it |
| `lease`, `jobStatus`, `approvals` | the control plane's tables; `approvals` in the order of `updated_at`, each with its operation and its action type |
| `pc`, `work`, `todo`, `snap`, `gone` | a handler: its next step, what it works on, the items left, the results it read, whether its caller is gone (`r.Context()` is cancelled) |
| `manifests`, `plan`, `rows` | the agent's local store: the executions that have a manifest, the action plan of each, its rows |
| `evidence` | the action results the control plane holds |
| `beats` | heartbeats whose sender has timed out and which the control plane will still process |
| `written` | history: writes that reached Azure |
| `grants` | history: how often a lease was handed out (0, 1, or 2 for more) |
| `started` | history: what users asked of each execution that they started |

Run `lease_faults` also checks that all this implements `GovernedWriteback`, whose state is
what somebody who knows nothing of handlers sees:

| Variable of `GovernedWriteback` | Its value here |
|---|---|
| `wanted` | `WantedExecutions`: asked for in apply mode with write-back, by the request of a job or by a user who started an execution of that id |
| `approved` | `ApprovedOperations`: per execution, the kinds of operation that an approved request names, as operation or as action type |
| `planned` | `manifests` |
| `written` | `written` |
| `shown` | `ShownFiles`: the files whose evidence says completed |
| `ended` | `EndedLeases`: executions whose lease or job is shown as completed |

All write-backs share the steps `Approve`/`Block`, `ListActionPlan`, `Skip`, `Apply`,
`Mark`, `Collect`, `Upload`, as they share code: the automatic one calls the batch's
internal function, and the single action has one item and its own rules for the
Guardian's decision and the manifest. `StartExecution` is `POST /v1/execution/start`: it has
the steps of the orchestrator in common with a lease's handler, and nothing else; the
second form of that request makes up an id that no job has.

An approval covers a write-back if its `operation` or its `action_type` names it
(`Covered`). The two are separate fields of the request, and governance and the default
approvers look at the first alone.

Two effects of SQLite are part of the model. Both stores are opened without a busy
timeout and with a pool of connections, so a write is refused at once while another
connection has a read open.
- `NextLease` assigns the lease while its own query over the leases is open, and drops
  the error. Whether the write is refused depends on the driver and on how many rows are
  left to read, so the model has both outcomes: fault `"unassigned"` lets the lease be
  handed out and stay pending.
- Handlers of the agent share the local store. Fault `"busy"` lets a query fail while
  another handler is active. Without it, a local query fails only if the request's
  context is cancelled.

### 2.3 State and code, policy resolution

| Variable | In the code |
|---|---|
| `repo` | per version, `compiled-policy.json` and the artifact that `compiled-policy.sig` was made of |
| `gitDown` | `Resolver.gitDown` |
| `active`, `activeFile`, `lkgFile` | one entry of `PolicyCache.active`, and its files in `baseDir` and `lkgDir` |
| `holder` | who holds `PolicyCache.mu` for writing |
| `pc`, `lease`, `read` | a call of `ResolveAndActivatePolicy`: its next file access, its lease, what it read last |
| `answer` | its `ResolveResult`, with the lease it answers |
| `signed`, `proven`, `agree` | history: what was signed, what was active, whether the last activation was completed |

A policy context is the artifact that was parsed together with the hash that the lease
named, which the code copies into `ArtifactHash`: only in this way can a context claim a
hash that its contents do not have. Each look at the repository is an action, as are the
change of the memory and of each file. `persist` writes a temporary file and renames it,
so that a file is replaced as a whole or not at all.

### 2.4 State and code, orchestrator

| Variable | In the code |
|---|---|
| `phase`, `request`, `behind` | a call of `Start`: its next step, its `ExecutionStartRequest`, whether publishing failed |
| `statuses`, `summaries`, `provenances` | the maps of `Manager`; of summary and provenance, whose they are |
| `manifests` | the manifest in the local store: whose it is, the policy it names and the one that was used |
| `indexed` | the call that last put documents of the execution into the search index |
| `overlapped` | history: executions that two calls worked on at the same time |

`Orchestrator` extends `PolicyResolution`: `Start` takes the step `Request` of the resolver
for the call's lease, which always allows for last-known-good, and the call waits in phase
`policy` while the resolver's steps are taken, until it is answered. A crash of the agent
is one step of both. `Prepare` stands for the workflow, the batch, the Guardian and all that is computed from
them: each may fail, and none changes anything that another call sees. The manager's
methods are a critical section each, and therefore an action each.

### 2.5 State and code, source requests

| Variable | In the code |
|---|---|
| `config` | `RuntimeConfigStore`: its source, and whether an account name is set |
| `secrets`, `holder` | the file of `fileBackend`, and who holds its mutex |
| `portal`, `file` | `portalstate.Store` (module `PortalState`) in memory, and its file |
| `pc`, `request`, `seen`, `source`, `todo`, `copy` | a request: its next step, what it asks for, the configuration and secrets as it read them, what it has yet to store |
| `asked` | history: what the last writer made of each secret |
| `cut`, `wiped` | history: sources removed between the two halves of an upsert; requests whose records were lost, because the state was emptied or a crash found them in no file |
| `fileCut`, `behind` | history: `cut` when the file was written; requests that changed the state since |

An action is one critical section, one file access or one call to the account, in the
order of the code. `Saved` is joined to each step that changes the portal's state
(`Changing`): with fault `"unsaved"` the file stays behind, nobody is told, and a crash goes
back to it. Containers and blobs of a source are in the state or not; which ones
does not matter to what is claimed.

### 2.6 State and code, workbench

| Variable | In the code |
|---|---|
| `containers`, `blobs` | the account: for each part of a blob (content, metadata, tags, tier) who set it last |
| `mode` | the authorization mode of the environment |
| `portal`, `file`, `behind` | as above |
| `pc`, `request`, `todo`, `answers` | a request: its next step, what it asks for, the calls it has yet to make, its answer |
| `written`, `vacant`, `wiped` | history: calls that changed the account; a blob that was not there when the request looked; as above |

### 2.7 State and code, sessions

| Variable | In the code |
|---|---|
| `users`, `sessions` | `authStore` in memory |
| `usersFile`, `sessionsFile` | what the next process would load |
| `token` | the session token a request under way carries, between `WithSessionTouch` and its handler |
| `issuedAt`, `remembered`, `lastUse`, `ended`, `faulty` | history |

### 2.8 Pure operators
`ExecutionRecords`, `Governance`, `ExternalRuntimes` and `DspmScan` have no variables: the
code keeps nothing between the calls. Each has one property that relates the results of
several functions to one another, stated for all inputs of its constants. `Orchestrator`
and `Access` make an invariant of it that is looked at in the initial states only. A call
of a runtime is the set of its possible outcomes; what matches a pattern is given; a field
of an envelope that is not set reads "none".

## 3. Runs

| Run | Question | Properties |
|---|---|---|
| `stale` | pages that outlive their lease, copies stored late, failed listings, writes and saves of the job, crashes, pause, reclaim, and a last step that completes the job, moves its checkpoint or resets | `NoSkip`, `CompletedIsScanned`, `ArtifactUnique`, refinement of `ScanLease` |
| `stop` | one worker under pause, cancel, fail, checkpoint, reclaim, reset, throttling, expiry, crashes, torn files and listings that are never answered | `StopsWithinPage`, `WorkerEnds` |
| `exclusive` | three workers, two operators, a limit, overlapping prefixes, failures, torn files, but nobody clears a held lease, and saves and writes of the results succeed | `OneScanner`, `LimitKept`, `CompletedIsCounted`, `ProgressKept` |
| `resume` | a statement of the documents that the code does not keep | `RunningIsScanned` |
| `lease_faults` | one agent handler and one user, jobs and started executions of one second, an approval by action type, every fault but the connector's | `WritesAreApproved`, `BatchWasWanted`, `EvidenceIsTrue`, `CompletedWasExecuted`, `PlanKept`, `EndIsFinal`, refinement of `GovernedWriteback` (`WritebackGoverned`) |
| `lease_served` | two agents, two leases, failures of scan, connector, authorization, assignment | `LeaseIsServed`, `EvidenceArrives` |
| `lease_stale` | a statement of the documents that the code does not keep | `StaleLeaseRecovers` |
| `policy` | two resolutions, a publisher, an unreadable key, failed writes, crashes | `PolicyIsVerified`, `FailsClosed`, `CacheAgrees`, `PromiseKept` |
| `orchestrator` | two calls of one execution, with different policies, over the resolver with failing writes, the publisher and crashes; every small batch in every mode | `CompletedIsEvidenced`, `ExecutionIsGoverned`, `NotDegradedIsComplete`, `RecordsAgree`, `RecordsAddUp`, `RunningEnds` |
| `inventory` | any three source requests at once, with an account, a local store and a disk that fail, ignored errors of saves, crashes and torn files | `NothingOrphaned`, `SecretsAsAsked`, `AnsweredIsRecorded` |
| `workbench` | any two workbench requests, other clients, failing calls, failed saves, crashes | `WritesAreGoverned`, `RecordsAreTrue`, `NothingLostUnasked` |
| `access` | two requests and two users over sessions that expire, failed writes and restarts; every governance request, runtime call and posture scan of a small instance | `SessionsEnd`, `SessionsLast`, `GovernanceIsStrict`, `CallsAreGated`, `ScansEscalate` |

### 3.1 Bounds and why they are enough
- *Workers and operators.* Every resume uses up a worker, as the code starts a goroutine
  with a fresh identifier. Two workers are a holder and a contender; `exclusive` has a
  third, which arrives when the first is done. Two operators show two resumes at once.
- *Listings.* `TinyListing`: two segments of one page, so that there is one advance to
  another segment. `RepeatingListing`: a segment of one page, and one of two (a
  marker) that lists its blob again. `OverlappingListing`: an empty segment between two that overlap,
  pages of two blobs with a remainder.
- *`Limit`* in `exclusive` is 6, for five places: a page that is listed twice makes the
  counter reach it, and a scan without repetitions ends below it, so that both halves of
  `CompletedIsCounted` are met. There are fewer blobs than the limit, so that the run sees
  only the counter's half of `LimitKept`; the proof covers both, for every limit. 0 is none.
- *`InventoryCap`* is 4, at the number of distinct blobs: nothing is dropped in the
  passing runs. The property says so itself (`Unbounded`).
- *`Untouched`* ends a behaviour of `stale` with the step by which an operator completes the
  job, moves its checkpoint or removes results: after it `NoSkip` and `CompletedIsScanned`
  claim nothing; the others are proved without the bound.
- *Saves that fail* in `stale`. `LeaselessFile`: while the file is behind, it holds a job without
  a lease, as an older lease has expired or does so soon after a restart. `FailsUntilRestart`:
  saves fail up to the restart, since a disk that recovers earlier brings the file back to the
  memory. The view `CountersIgnored` takes states as one that differ in counters only: without a
  limit no step reads them. The proofs use none of the three.
- *`MaxPageRetries`* 1 shows success after a retry and giving up.
- *`MaxSecond`, `MaxAsked`.* One second in which two are asked for, jobs or executions of its id
  that a user starts, is a replaced job, a dry run that is started anew for apply, or an execution
  that is planned again under a batch; two seconds with one job each are two leases for the same
  agents. *`Batches`*: a user's execution has the lease's file, or none. *`MaxLate`*: one
  heartbeat is late at a time.
- *Files and `BatchLimit`.* One file is one item of a plan; two files with a limit of 1
  leave an item that the batch does not reach.
- *Approvals.* One approval is enough for every status and decision; in `lease_faults` it names
  the write-back as its action type only, in the other runs as its operation
  (`ApprovalRequests`). The proofs have any approvals. The window of 100
  only takes approvals away from a handler, which `Block` without an approval shows too.
- *Resolutions and artifacts.* Two resolutions are one that activates and one that waits,
  looks, or falls back meanwhile. Of three artifacts one is not accepted by the parser;
  there is a lease for each, and one of them does not allow for last-known-good. One
  version, as versions are separate directories that no step relates.
- *Calls of the orchestrator.* Two calls of one execution overlap, or follow one another,
  or have a crash between them; each asks for another policy of one version, and only one
  for documents. Executions do not share any state but the resolver's, so that one is
  enough. The unreadable key and the artifact that does not parse are left to run `policy`:
  they only refuse a policy, as a wrong hash does. `Searchable` is true, as no document
  could be published otherwise.
- *Batches.* All batches of up to two scores on both sides of every threshold, longer ones of
  four scores, and one that is longer than a sample of references; every tier, mode and
  setting.
- *Source requests.* Three requests are one that is between two steps, one that changes
  something there, and a third that reads what the two left. Two sources with an account
  each, and the name for a configuration without one. Lists of records hold two (`RecordCap`;
  100 and 1000 in the code), so that records are pushed out. `MostRequests` asks for what has no
  source of its own once, and leaves out the two requests whose steps others have (a reset of
  part, an import that merges). `FailsUndisturbed`: while the file is behind, the requests under
  way are those whose changes are not in it; that others come between is in the proof.
- *Workbench.* Two requests, two blobs, one container; each operation on the first blob, and
  others as dry runs, unconfirmed, incomplete, or by who is not allowed to. Three records
  per list.
- *Sessions.* Two sessions, two users, two requests under way; an idle window of two and a life of
  three within a clock of three, so that a session ends for either reason and can be slid
  across its window. Only remembered sessions: the other kind has other numbers.
- *Governance, runtimes, scans.* All requests over every role and one without a profile, four regions
  with both special ones, five sets of policies; every kind of runtime, with an action for
  each combination of needs; objects with every combination of three patterns in path and content.
- *Symmetry* permutes workers and operators, in runs with safety properties only.

`CHECK_DEADLOCK FALSE` is used everywhere: a job that is finished, with all workers
used up, and a lease that ended really are the end.

### 3.2 Conditions in the properties
They are there where the code cannot do better, and each names the reason:
`Unbounded` and `intact` in `NoSkip` and `CompletedIsScanned` (limit or cap, an operator's
checkpoint, an inventory that a torn or unsaved file lost); a job whose own save failed needs no
exception. `CompletedIsCounted` has `intact` too, and is checked without fault
`"artifact"` (a write of the result file that fails loses records). The four properties of run
`exclusive` are checked without slow pages and without failed saves of the job: a stale checkpoint,
or an older file after a restart, sets the counters back. `WorkerEnds` excepts a listing that is
never answered. An execution that was started once in `PlanKept` (a lease handed out again, or a
user who starts an execution of that id, stores its manifest again, also under a batch), a lease
handed out once in `EndIsFinal`; no late heartbeat and no replaced job in `EndIsFinal`.
`EvidenceArrives` is checked without `"lose"`, `"busy"` and `Impatient`: the code does not
repeat an upload, so the evidence of a lease may be missing after any of them.
`PolicyIsVerified` and `PromiseKept` are checked without fault `"replace"`, which breaks them (section 6):
the publisher may write and sign at any time, but changes a version's artifact only while
no resolution is between its first and its last look at it. `CacheAgrees` speaks of the
time after a completed activation: between the writes, or once one failed, the three differ.
`NotDegradedIsComplete` and `RecordsAgree` are about executions whose calls did not overlap:
overlapping calls replace each other's records one by one. `ExecutionIsGoverned`, too, is
checked without fault `"replace"`.
`NothingOrphaned` leaves out sources that were removed between the halves of an upsert
(`cut`), `AnsweredIsRecorded`, `RecordsAreTrue` and `WritesAreGoverned` requests whose records a
crash lost with a torn file, or because neither the last change that the request made of the
portal's state nor any later one reached the file, and the first of them requests that began
before the state was emptied (`wiped`), `SecretsAsAsked` torn files and a reset that removed the file
while it was being rewritten: in all of these the code does lose what the property claims.
Records pushed out by newer ones count as held (`Holds`).
`SessionsEnd` and `SessionsLast` except sessions after a write that failed, as nobody
looks at it. `NothingLostUnasked` excuses steps of clients outside this program, and an upload
that had found the place vacant: what came there between its look and its write is lost.
`RecordsAddUp` excepts scores 0 and 40 to 44, where the thresholds of two functions differ, and
envelopes that ask for another mode than the execution's.

## 4. Fairness
- *Workers* (`WF` of `WorkerRuns`, each worker's step but a listing): they are goroutines; the Go
  scheduler runs each that can run. A listing is the exception: the client is made without
  options (`api/azureblob_workbench_handlers.go:252`) and the worker's context has no deadline
  (`api/azureblob_async_scan_worker.go:29`), so nothing obliges it to return.
  `WorkerEnds` says so: a worker ends, or is at a listing for ever.
- *Requests that were taken up* (`WF` of `Finish`): the same for a handler's goroutine.
  Nothing obliges an operator or a user to send a request.
- *Handlers of leases* (`WF` of `Step`): as above.
- *Polling* (`WF` of `NextLease`): `startControlPlaneLeasePoller` is a ticker that polls
  for as long as the agent runs.

- *Resolutions* (`SF` of each one's step): handlers as above, but one of them may wait for
  the cache's lock while others take and release it. Go's mutex hands itself over to a
  waiter that has waited for a millisecond, so it does not pass over a waiter for ever.

- *Calls of the orchestrator* (`WF` of `Work`): handlers; while a call waits for the
  resolver the fairness of its resolution moves it on.

The resolver's is the only strong fairness. There is no fairness at all for faults, late heartbeats, lease expiry,
reclaims or users.

## 5. Proofs

| Theorem | Says | Rests on |
|---|---|---|
| `AsyncScanProofs!TypeCorrect` | `Spec => []TypeOK` | `IInv` |
| `AsyncScanProofs!LeaseImplemented` | the job's lease implements `ScanLease` | `TypeOK` |
| `AsyncScanProofs!ScannerIsAlone` | at most one worker is in the page loop, while no request clears the lease and no lease expires under a live worker | `HoldsInv` |
| `AsyncScanProofs!NothingIsSkipped` | `Spec => []NoSkip` | `ScanInv` |
| `AsyncScanProofs!CompletedMeansScanned` | `Spec => []CompletedIsScanned` | `ScanInv` |
| `AsyncScanProofs!ArtifactIsUnique` | `Spec => []ArtifactUnique` | `RecordsInv` |
| `AsyncScanProofs!PagesStop` | `StopSpec => []StopsWithinPage` | `StopInv` |
| `AsyncScanProofs!LimitIsKept` | `Spec => []LimitKept`, if `Unmoved` | `CountInv` |
| `AsyncScanProofs!ProgressIsKept` | `Spec => ProgressKept`, if `Unmoved` | `CountInv` |
| `AsyncScanProofs!CompletionIsCounted` | `Spec => []CompletedIsCounted`, if `Unmoved` and no write of the result file fails | `DeliverInv` |
| `AsyncScanProofs!WorkersWearOff` | `Closer` is well-founded; each step of a worker, and each change of its rank by anyone, lowers its rank | `IInv`, `PageMoves` |
| `LeaseExecutionProofs!LeasesTypeCorrect` | `Spec => []TypeOK` | `IInv` |
| `LeaseExecutionProofs!NoUnapprovedWrites` | `Spec => []WritesAreApproved` | `AInv` |
| `LeaseExecutionProofs!BatchesWereWanted` | `Spec => []BatchWasWanted` | `BInv` |
| `LeaseExecutionProofs!NoFalseEvidence` | `Spec => []EvidenceIsTrue` | `EInv` |
| `LeaseExecutionProofs!CompletionIsExecution` | `Spec => []CompletedWasExecuted` | `CInv` |
| `LeaseExecutionProofs!PlansAreKept` | `Spec => PlanKept` | `KInv` |
| `LeaseExecutionProofs!EndsAreFinal` | `Spec => EndIsFinal` | `GInv` |
| `LeaseExecutionProofs!WritebackIsGoverned` | `Spec => WritebackGoverned`: the handlers and stores implement `GovernedWriteback` | `IInv`, `AInv`, `BInv`, `EInv`, `CInv`, `PInv` |
| `LeaseExecutionProofs!HandlersWearOff` | `Closer` is well-founded; each step of a handler that is not idle, and each change of its rank by anyone, lowers its rank | `IInv` |
| `PolicyResolutionProofs!PolicyTypeCorrect` | `Spec => []TypeOK` | `IInv` |
| `PolicyResolutionProofs!VerifiedWithoutReplacement` | `Spec => []PolicyIsVerified`, unless artifacts are replaced while they are resolved | `VInv` |
| `PolicyResolutionProofs!AnswersFailClosed` | `Spec => []FailsClosed` | `FInv` |
| `PolicyResolutionProofs!CacheIsConsistent` | `Spec => []CacheAgrees` | `CInv` |
| `PolicyResolutionProofs!PromiseIsKept` | `Spec => PromiseKept`, unless artifacts are replaced while they are resolved: `PolicyResolution` implements `VerifiedPolicy` | `IInv`, `VInv`, `FInv`, `CInv`, `HInv` |
| `OrchestratorProofs!RunsResolve` | `RunSpec => Spec`: the orchestrator implements the resolver's specification | |
| `OrchestratorProofs!RunTypeCorrect` | `RunSpec => []RunTypeOK` | `RInv` |
| `OrchestratorProofs!ExecutionsAreGoverned` | `RunSpec => []ExecutionIsGoverned`, unless artifacts are replaced while they are resolved | `ResolverInv`, `VerifiedInv`, `RInv` |
| `OrchestratorProofs!CompletedHasEvidence` | `RunSpec => []CompletedIsEvidenced` | `EInv` |
| `OrchestratorProofs!NotDegradedMeansComplete` | `RunSpec => []NotDegradedIsComplete` | `RInv`, `OInv` |
| `OrchestratorProofs!RecordsAreOfOneCall` | `RunSpec => []RecordsAgree` | `RInv`, `OInv` |
| `OrchestratorProofs!RecordsDoAddUp` | `RunSpec => []RecordsAddUp`: `ExecutionAddsUp`, of every batch, mode, setting and verdict | |
| `OrchestratorProofs!CallsWearOff` | a call has at most 89 steps left; each of its own lowers that, none of anyone raises it | `IInv`, `RInv` |
| `InventoryProofs!InventoryTypeCorrect` | `Spec => []InventoryTypeOK` | `TInv` |
| `InventoryProofs!InventoryIsWhole` | `Spec => []NothingOrphaned` | `OInv` |
| `InventoryProofs!SecretsStayAsAsked` | `Spec => []SecretsAsAsked` | `SecretsInv` |
| `InventoryProofs!AnswersAreRecorded` | `Spec => []AnsweredIsRecorded` | `Recorded`, `FileRecorded` |
| `WorkbenchProofs!WorkbenchTypeCorrect` | `Spec => []WorkbenchTypeOK` | `TInv` |
| `WorkbenchProofs!NothingIsLostUnasked` | `Spec => NothingLostUnasked` | `Standing` |
| `WorkbenchProofs!OnlyGovernedWrites` | `Spec => []WritesAreGoverned` | `Standing`, `Authorized`, `FileAuthorized` |
| `WorkbenchProofs!OnlyTrueRecords` | `Spec => []RecordsAreTrue` | `Truthful`, `Complete`, `FileTruthful`, `FileComplete` |
| `AccessProofs!SessionsTypeCorrect` | `Spec => []SessionsTypeOK` | |
| `AccessProofs!SessionsDoEnd` | `Spec => SessionsEnd` | `SInv` |
| `AccessProofs!SessionsDoLast` | `Spec => SessionsLast` | `SInv` |
| `AccessProofs!GovernanceStrict` | `DecisionsAreStrict`, of every governance request | |
| `AccessProofs!CallsGated` | `RuntimesAreGated`, of every call of a connector or an AI provider | |
| `AccessProofs!ScansDoEscalate` | `Spec => []ScansEscalate`: `TiersEscalate`, of every object, content and finite set of patterns | |

The theorems about scans hold for every set of workers and operators, every listing, page
size, limit, cap and every choice of requests and faults, but for the four with a condition
(`LeaseUndisturbed`: no request clears the lease and no page outlives it, as in run
`exclusive`; `Unmoved`: besides, nobody moves the checkpoint and saves do not fail); those about leases for any
seconds, jobs, handlers, users, plans, batch limits, approvals and faults; those about policies for any
resolutions, versions, artifacts, leases and, but for the second and the last, faults; those about the
orchestrator for any calls, executions and requests as well; those about the inventory, the
workbench, sessions, governance and runtimes for any handlers, sources, blobs, accounts, requests,
lifetimes, faults and any cap on the number of records. Assumed are `WorkersAssumption` (the empty owner
is no worker) and `ScanAssumption` (constants have their types; operators are not
workers; finitely many blobs; at least one segment; pages are not empty),
`ControlPlaneAssumption` and `LeaseExecutionAssumption` (requests, approvals, plans and batches have
their types, and the plan of a lease is not empty), `PolicyAssumption`
(there is a lease, with fields of the right types; the markers for a missing file and a
free lock are no artifact and no resolution), `ContextAssumption` (no policy is not a
policy) and `RequestAssumption` (there is a request, of an execution and for a lease that
allows for last-known-good, as Start makes it), `RecordsAssumption` (batches are sequences of
scores from 0 to 100, settings have their fields); for the other components `InventoryAssumption`,
`TornAssumption`, `WorkbenchAssumption`, `RecordCapAssumption`, `SessionsAssumption`,
`NoneAssumption`, `GovernanceAssumption`, `RuntimesAssumption` and `DspmAssumption` (the markers for nothing, nobody, a torn file and
an absent blob are none of the values they stand beside; what is configured and what a backup
holds are sources; requests have their fields; at least one record is kept; there are
finitely many patterns and finitely many finds in a sample).

- `TypeOK` is not inductive: a marker indexes a listing, so that "the items of a page"
  makes sense only if segment and marker point into it. `IInv` adds `AllPlaced`: every
  stored or copied checkpoint, and every worker's place and page, is inside the listing,
  or past its end.
- `HoldsInv`: a worker between acquiring and releasing owns the lease, and it is live.
  From that two scanners are the same owner. Its hypothesis `LeaseUndisturbed` is the
  requests and the faults of run `exclusive`.
- `NoSkip` is about the stored checkpoint, which comes from a worker's place, from a
  checkpoint of a stale worker, or from a stale copy that Pause, Cancel or Complete store.
  `ScanInv` therefore claims of each of them, not only of the stored job, that what comes
  before it in the order of the scan is in the inventory, and the same of the file, from which a
  restart takes the job, and that a worker whose page has
  no next marker is at the segment's end. The inventory only grows while `intact` and
  `Unbounded` hold, which makes a claim about an old copy stay true: the heart of why
  stale workers do no harm to the checkpoint.
- `RecordsInv`: the file and every worker's copy of it have at most one record per blob. A
  worker that overwrites the file may drop another worker's records, but cannot double
  them.
- `StopInv`: who is about to list has listed nothing since the job was stopped, because it
  looked at the job between its last page and this one.
- `CountInv` holds the inventory, the stored counter and the place of the worker together.
  While the worker that holds the lease is alone, its place is that of the stored checkpoint
  and its page the one that anybody who resumes there would list (`Follows`). What is stored
  was counted, but for that one page: a crash between storing it and counting it loses
  nothing, since the next worker lists the same page, cut by the same limit.
- `DeliverInv` adds the result file: every blob before the checkpoint has its record, the
  counter is at least the places passed, and `records_written` is at most the records there,
  of which a worker that has yet to count its own leaves room (`Delivers`). It has to be said
  as inequalities. Equality is what the documents promise and what the invariant could not
  keep: the proof attempt showed both ways in which a counter goes wrong (section 6).
- Leases. `IInv` adds to the types that a handler that marks an item still has it, and that
  heartbeats under way only say "running" or an end. Four invariants then say what a handler
  may yet do of what the properties say was done: `Authorized` (who is past the gate has an
  approval, and no step takes a decision back), `Faithful` (what a lease's handler, or a
  batch, may apply was asked for, by the request of a job or by a user who started it), `Truthful` (what is about to
  be marked or uploaded as completed was written: rows, copies of rows and evidence) and
  `Stored` (who is about to report the end has stored the manifest).
- `GInv` is about leases that were handed out at most once: the handler that executes one is
  alone, the lease has not ended and no heartbeat under way says so; `EndIsFinal` follows.
  `KInv` is about executions that were started at most once (`Turns`), by a lease or by a user:
  who is going to store the manifest is alone, and there is none to replace. Neither does without
  the count: the store hands a lease out again when its assignment was refused, and nothing
  keeps users from an id that is taken.

- `VInv` follows a resolution: between the looks the published artifact has the lease's
  hash, because it is not replaced; after the second the artifact in hand has it; after the
  third it was signed as well, because every signature is of a signed artifact. From then
  on memory, both files and the answers can only be given what was verified. Falling back
  needs no check of its own, since the file it reads never held anything else.
- `FInv` adds that the last-known-good file was active once, and that a resolution only
  gets to fall back if its lease allows it.
- `CInv`: a resolution between the change of memory and its last write holds the lock, and
  what it has written so far is there. Without the lock (the mutant of `LockIsFree`) two
  activations mix.
- `PromiseKept` maps the memory to the policy in force, the last-known-good file to the policy
  kept last and the lock to whose turn it is; a resolution under way is its lease, an idle one
  its answer. `NextOutside` goes step by step: looking at the repository, `Refuse` with a
  fallback and the first write are stutters; `Activate` puts the lease's artifact in force,
  signed by `VInv`; the last write keeps it, because by `CInv` the memory still holds it; and a
  write that fails gives up by `HInv`, the holder of the lock being between the two. A refusal
  maps to `Deny` only because a lease that allows for last-known-good is answered after looking
  for it, which the mutant of `Refuse` does not do.

- Every step of the orchestrator is a step of the resolver or leaves it alone, so that its
  invariants carry over (`ResolverInv`). `Served` says what a step of the resolver does to a
  call: it keeps its lease until it is answered for that lease, with a policy that was
  active. `RInv` takes that through the phases (`Prepared`), so that the manifest of a call
  is made under the policy it was answered with, although others activate theirs meanwhile.
  `PInv` says that only verified policies were ever active.
- `EInv` adds that a call past its manifest left one; no step removes a manifest.
- `OInv`, for executions whose calls did not overlap: the call under way is alone and has
  recorded its own manifest and documents (`Recording`); and a completed execution is shown by
  a call that, as far as it came, has recorded everything that is there (`ShownBy`). A later
  call of the same execution begins by replacing the status, so that what is left of the
  earlier one is not shown as completed.

- The inventory's `TInv` adds to the types which kinds of requests can stand at which label
  (`Standing`), without which an upsert could not be known to be a scan's, and that who is
  about to store something has something left (`Carrying`). `OInv`: between the halves of an
  upsert its source is listed or was cut. `SecretsInv`: who is about to write the secret file
  has its mutex, and every secret in its copy of the file is what was last asked; that is
  what the mutex is for, and what removing the file without it costs. `Recorded`: a scan at
  its audit row has its evidence, and records are only displaced by newer ones
  (`PortalProofs!NewestKept`). `FileRecorded` says the same of the file, of all but those who
  changed the state since it was written (`behind`): who is not among them has lost nothing when a
  crash goes back to the file. The workbench's invariants about records have such a twin each.
- The workbench's `Standing` ties the label of a request to its calls: what it has made and
  what it has yet to make are together the calls of its operation, so that "ok" can only be
  recorded when nothing is left. `Truthful` adds that records other than denials come after
  the calls, `Complete` that they come in their order, `Authorized` that who was not allowed
  and went on is on record. For `NothingLostUnasked` each call is shown to lose the content
  of no blob but its own, and to belong to its operation (`CallsOf`).
- `SInv` says of both copies of a session that they lie within its life and its last use
  (`Faithful`), and that the two differ only after a file that was not written
  (`Undamaged`); a restart, which takes the file's copy, then neither ends nor extends it.
- `GovernanceStrict` needs no invariant. Asking for an apply changes neither the role's nor
  the jurisdiction's part of a decision (`AsApply`), and who destroys is sent to the contract
  owner whether or not one is named (`OwnerIsAsked`).
- `WritebackIsGoverned` maps each step of a handler, a store or a call in flight to a step of
  `GovernedWriteback` or a stutter; most stutter. `AInv` and `BInv` give a write its approval
  and its plan, `EInv` says that what an upload shows was written, and `CInv` that what is
  reported as completed has its plan. What was missing is `PInv`: a manifest is there as a
  whole or not at all, and the items of a lease or a batch come from one. A heartbeat that
  arrives late is `End` or `Reopen`, which is why the abstract specification has `Reopen`.
- `RecordsDoAddUp` and `ScansDoEscalate` are about sums over sequences and finite sets. They
  are proved by induction on the size, which takes the set of sizes the claim holds for
  instead of a predicate: a number outside it would have a least one below it (`SetInduction`,
  from the well-foundedness of the natural numbers). The
  levels partition the rows of a batch, so that their counts add up to it; and every check of
  a shallower tier has one of its own at a deeper tier that is at least as severe, so that the
  risk, which is the sum of the checks' weights, does not fall.
- `CallsGated` follows the outcomes of a call: every outcome of a connector tells a dry run by
  its request, and reaches the runtime only if no gate stops it (`ConnectorOutcome`).

### 5.1 Why things end
`WorkerEnds`, `LeaseIsServed`, `EvidenceArrives` and `RunningEnds` are liveness properties,
which are checked and cannot be proved here. They rest on two facts: whoever is under way has
finitely many steps left, and it takes the next one. The first is proved, for every listing,
plan, bound and fault:
- `WorkersWearOff`: the rank of a worker is its phase (the whole page loop is one), the
  segments left, the blobs left in this one, the steps left on this page and the attempts left
  at listing it, compared in that order. A page that has a next one holds a blob
  (`PageMoves`), without which an account could keep a worker going with empty pages. A worker
  goes by its own copy of the job: what others do to the stored one cannot send it back.
- `HandlersWearOff`: phase, items left, and whether the first item is yet to be written. A
  handler that is idle may be given another request, so the claim is about the others. The
  automatic write-back goes on as its lease's handler, and the phases are numbered for it to
  come down once.
- `CallsWearOff`: what a call has left is a number. It is bounded although resolutions of
  others come between, as they move neither its phase nor its resolution.

What is not proved is the second: that some step is always possible (`ENABLED`), and that
fairness makes it happen.

Only model-checked, then, is liveness. Every invariant and every action property of a run, and
every refinement, is stated by a theorem; the type invariants are proved for every component
and need no run of their own.

## 6. What the runs contradict, and what is known beyond them

Two runs end in a violation (`PROJECT.json`, "findings").
- `lease_stale`: a handler whose request was closed cannot report its failure; the lease
  stays running.
- `resume`: an operator pauses a job and resumes it before the first worker, which has seen
  the pause, has released its lease. The second worker is refused the lease and ends without
  an error (`api/azureblob_async_scan_worker.go:55`), the first one ends, and the job stays
  "running" with no worker; resuming a running job starts none. The guide says that "Resume
  starts the Azure Blob paging worker" (`docs/everest_enterprise_screen_guide.md:137`).

Met while modelling, without a run of their own. Async scans, leases, policies:
- A worker's `Fail` overwrites "cancelled", and "completed" too, if the worker comes to the
  job late; a resume then lists the last segment again.
- An artifact that is replaced after its signature was verified becomes the active and the
  last-known-good policy unverified, as it is read three times.
- A crash between `Resume` and `AcquireLease` leaves a running job without a lease. Resume
  does nothing for a running job, and reclaim nothing for one without an owner; an operator
  has to pause it first.
- A crash between the two checkpoints at the end of a segment makes a resumed worker list
  the segment again: `objects_scanned` counts it twice. A crash between writing records and
  counting them leaves `records_written` too small. Both counters are listed as what a
  completed job reports (`docs/everest_backend_job_lifecycle_12_scenarios.md:1227`).
- Errors of saving a job are ignored (`controlplane/azureblob_scan_jobs.go:552`): after a restart it
  is as it was last saved. A job that was paused or cancelled may be running again, without a
  worker; one that was completed is listed again from the checkpoint in the file.
- Pause stores the copy it took before, so that a `records_written` recorded in between is
  lost.
- A page on which a segment lists nothing is still checkpointed, but not recorded.
- A torn job file is read as an empty one: the jobs are gone after the restart.
- The portal's copy of a job's status is updated outside the store's lock and may stay
  behind.
- The plan of a batch is not filtered by status: items that are done are applied again,
  and items beyond the limit are never reached.
- Approvals are cut to the newest 100 of all executions before they are filtered.
- Jobs of one second share identifiers; a later one replaces the earlier one's lease in
  whatever state it is.
- If SQLite refuses the assignment in `NextLease`, the same lease is handed out again
  until its first heartbeat is stored.
- An approval counts for its action type as well as for its operation
  (`api/azureblob_actions_handlers.go:588`), while governance and the default approvers were taken
  from the operation alone (`platform/approval_store.go:46`). What the properties say of an
  approval is therefore that one of its two fields names the write-back.
- `POST /v1/execution/start` (`api/server.go:304`) asks for no role and no approval. It replaces the
  manifest of any execution, also under a running batch, and what was done is planned anew; of the
  execution of a dry-run lease it makes one whose rows a batch may apply, once it is approved.
- A single action writes to a blob of an execution that was a dry run, once it is approved.
- Two handlers of one execution may upload the results they read in the opposite order: a
  completed action is shown as pending until the next upload.
- An activation whose first or second write fails is answered as an error, and its policy
  stays active in memory.
- A restarted agent does not load the active policy: it is shown from its file, while a
  fallback uses the other one.
- The orchestrator always allows for last-known-good in the lease it makes, so no execution
  of its own fails closed while that file is there.
- The manifest names the policy version of the lease also when last-known-good was used
  (`Manifest`: `named` and `used`); only the status in memory says so.
- `buildManifest` takes the decision of its rows from mode and settings, not from the
  Guardian's answer.
- An execution is shown as completed before its summary and provenance are there; with a
  disabled search index it completes without documents, and is not degraded.
- A second execution of one lease replaces the manifest, also under a running write-back.

Executions:
- Levels are taken from a score by four functions; the two that make search severities differ
  from the others for 40 to 44 (and 0 is "info" in one of them).
- Flagged and planned in the summary are scores from 90, planned in the manifest from 70.
- In tier_1 with apply mode the manifest authorises rows, while there is neither a receipt
  nor an action in the provenance. A receipt's dry run follows the envelope's mode, a row's
  authorisation the execution's.
- The manifest authorises rows whatever a Guardian other than the embedded one decided.
- The dominant class depends on the order in which a map is ranged over.

Sources, secrets, portal:
- A credential that is saved for one source also becomes the account-level secret, and every
  scan uses the account-level one: sources share the last credential that was saved.
- A save that fails after the secrets were stored (an incomplete configuration) is answered as a
  bad request and keeps the secrets.
- Discover, test and options read the configuration again when they record, so that what
  they found may be listed under another source; a late one brings a deleted source back.
- A request that sets access writes back the configuration it read before: a change in between
  is lost. So is what a deletion decided from the one it read.
- An import gives all items to the first source of the backup, and reverses the order of
  evidence.
- A reset whose local store fails has emptied the portal's state and leaves no audit row.
- Writes of the portal's state ignore their errors (`portalstate/store.go:698`): evidence and audit
  rows of answered requests are gone after a restart if nothing was saved since, a denial that was
  only recorded among them.

Workbench:
- An upload that fails after its content was written is answered with an error and leaves
  no record, as do blocked and failed operations, although the Guardian's obligations ask
  to record "allowed, blocked, skipped, and failed outcomes" (`execution/orchestrator.go:971`).
- A copy is recorded as executed when it was only started; a move leaves its source.
- A deleted blob stays listed in the portal's inventory.

Sessions, approvals, runtimes, scans:
- The first account gets the role it asks for; the comment calls it platform_admin
  (`api/auth_handlers.go:28`). With a torn users file the next signup is the first again.
- A request whose session has ended acts as its headers say.
- A blocked governance decision still creates an approval, and one decision approves it,
  whatever approvers it lists.
- A runtime that times out after applying is reported as failed; unreadable output of a
  process counts as an answer.
- Recommendations of an HTTP AI runtime are passed on without asking for approval; the
  prompt audit says "not sent" when a sent prompt was not answered.
- Evidence that has only a `risk` is ignored by the built-in recommendations, as a missing
  `risk_level` does not read as empty.
- Keywords of low severity count as medium in checks.

## 7. Abstractions, and what is not modelled
- The account does not change during a scan, and the plan that a lease's execution makes is the
  same for every scan: both make "skipped" and "completed" meaningful.
- Identifiers, texts, timestamps, retry and page counters that nothing reads back are left
  out; audit and evidence records other than action results as well.
- `ImportJobs` stores whatever it is given, and is left out; an operator's checkpoint shows
  the same hazard.
- Write-backs by `api/writeback_handlers.go` (one file, without an execution) are not
  modelled, nor is the portal's copy of a scan job's status.
- Passports, scan results, search documents and chats in the portal's state are upserts like
  those of `PortalState`, and are left out; so are the environment and Windows secret stores.
- Regular expressions of the posture scan, texts of prompts and answers, hashing of passwords,
  cookies and headers: what they yield is an input.
- Who may send a source request is not modelled.
- Policy resolution is about one data store: entries and files of others are separate. A
  file that cannot be read counts as missing; hashes and signatures do not collide; what
  the parser demands of an artifact is the set `Valid`.

## 8. Plan

Done so far: the async scan, leases and write-backs, policies, the orchestrator with its
records, sources and secrets, the workbench, sessions, governance, runtimes and scans; and the
proofs of every safety and action property that the runs check, and of every refinement. Left,
in this order:
1. The portal's copy of a scan job's status, composed with `ScanJobStore`'s transitions.
2. `api/writeback_handlers.go`.
