-------------------------- MODULE PolicyResolution --------------------------
(***************************************************************************)
(* How a Data Agent resolves the compiled policy that a lease names, and   *)
(* what it keeps of it (internal/policyresolver): concurrent resolutions   *)
(* read the local repository several times, activate the policy in memory  *)
(* and in two files, and fall back to the last-known-good file.  The       *)
(* publisher writes artifacts and signs them in two steps; file writes may *)
(* fail, and the agent may crash and restart.                              *)
(*                                                                         *)
(* All of this is about one data store: the cache has an entry and two     *)
(* files for each.  An artifact stands for its contents, its hash, and the *)
(* signature made of it: hashes and signatures do not collide.  Leases     *)
(* that ValidateLease refuses change nothing and are left out.             *)
(***************************************************************************)
CONSTANTS Resolvers,   \* concurrent calls of ResolveAndActivatePolicy
          Versions,    \* compiled policy versions: directories of the repository
          Artifacts,   \* the artifacts that are ever published
          Valid,       \* those that ParseCompiledPolicy accepts
          Leases,      \* the leases that policies are resolved for
          Missing,     \* a file that is not there
          NoPolicy,    \* no policy context
          Nobody,      \* the cache's lock is free
          Faults       \* "replace" an artifact while it is resolved, "key",
                       \* "disk", "crash"

ASSUME PolicyAssumption ==
  /\ Valid \subseteq Artifacts
  /\ Leases \subseteq [version : Versions, hash : Artifacts, lkg : BOOLEAN]
  /\ Leases # {}
  /\ Missing \notin Artifacts
  /\ Nobody \notin Resolvers

\* The artifact that was parsed, and the hash that was expected of it.
Context == [content : Artifacts, hash : Artifacts]

ASSUME ContextAssumption == NoPolicy \notin Context

VARIABLES
  repo,        \* per version: the artifact, and the artifact its signature is of
  gitDown,     \* the switch of the endpoints git-unavailable and git-available
  active,      \* the policy in memory
  activeFile,  \* its file
  lkgFile,     \* the last-known-good file
  holder,      \* who holds the cache's lock
  pc,          \* where each resolution stands
  lease,       \* the lease it resolves
  read,        \* the artifact as it was read last
  answer,      \* what the resolution was answered with
  signed,      \* history: artifacts that were signed
  proven,      \* history: contexts that were active
  agree        \* history: the last activation was completed

disk == <<repo, activeFile, lkgFile>>
locals == <<pc, lease, read, answer>>
history == <<signed, proven, agree>>
vars == <<disk, gitDown, active, holder, locals, history>>

Labels == {"idle", "locate", "hash", "artifact", "signature", "parse", "lock",
           "active", "lkg", "fallback"}
Status == {"none", "activated", "degraded_ready", "failed_closed", "rejected", "error"}
Answer == [status : Status, ctx : Context \cup {NoPolicy}, lease : Leases]

AnyLease == CHOOSE l \in Leases : TRUE
NoAnswer == [status |-> "none", ctx |-> NoPolicy, lease |-> AnyLease]

Goto(r, label) == pc' = [pc EXCEPT ![r] = label]

\* An answer without a policy does not depend on the lease.
NotReady(status) == [NoAnswer EXCEPT !.status = status]
Ready(r, status, ctx) == [status |-> status, ctx |-> ctx, lease |-> lease[r]]

Answered(r, a) ==
  /\ Goto(r, "idle")
  /\ answer' = [answer EXCEPT ![r] = a]
  /\ lease' = [lease EXCEPT ![r] = AnyLease]
  /\ read' = [read EXCEPT ![r] = Missing]

\* The artifact of the version that the lease of r names, as it is now.
Published(r) == repo[lease[r].version].artifact
Signature(r) == repo[lease[r].version].signature

-----------------------------------------------------------------------------
(* Weakened forms of operators below, which the properties must tell apart. *)

\* The artifact's hash is not compared with the lease's.
HashMatchesAny(r) == Published(r) # Missing

\* A refused artifact is replaced by the last-known-good one in any case.
RefuseDegrades(r, status) ==
  /\ Goto(r, "fallback")
  /\ UNCHANGED <<lease, read, answer>>

\* Whatever is refused is answered so, without looking for the last-known-good.
RefuseOutright(r, status) == Answered(r, NotReady(status))

\* The cache is changed without its lock.
LockIsFreeAlways == TRUE

-----------------------------------------------------------------------------
(* ResolveAndActivatePolicy. *)

\* fallbackToLKG and securityRejectOrFallback, and the same choice where the
\* repository does not have the artifact.
Refuse(r, status) ==
  IF lease[r].lkg
  THEN Goto(r, "fallback") /\ UNCHANGED <<lease, read, answer>>
  ELSE Answered(r, NotReady(status))

Request(r, l) ==
  /\ pc[r] = "idle"
  /\ lease' = [lease EXCEPT ![r] = l]
  /\ answer' = [answer EXCEPT ![r] = NoAnswer]
  /\ Goto(r, "locate")
  /\ UNCHANGED <<disk, gitDown, active, holder, read, history>>

\* The switch, then the two files, looked for under the version's directory.
Locate(r) ==
  /\ pc[r] = "locate"
  /\ IF gitDown \/ Missing \in {Published(r), Signature(r)}
       THEN Refuse(r, "failed_closed")
       ELSE Goto(r, "hash") /\ UNCHANGED <<lease, read, answer>>
  /\ UNCHANGED <<disk, gitDown, active, holder, history>>

HashMatches(r) == Published(r) = lease[r].hash

VerifyHash(r) ==
  /\ pc[r] = "hash"
  /\ IF HashMatches(r)
       THEN Goto(r, "artifact") /\ UNCHANGED <<lease, read, answer>>
       ELSE Refuse(r, "rejected")
  /\ UNCHANGED <<disk, gitDown, active, holder, history>>

\* VerifyEd25519 reads the key and the artifact ...
ReadArtifact(r) ==
  /\ pc[r] = "artifact"
  /\ \/ /\ Published(r) # Missing
        /\ read' = [read EXCEPT ![r] = Published(r)]
        /\ Goto(r, "signature")
        /\ UNCHANGED <<lease, answer>>
     \/ /\ Published(r) = Missing \/ "key" \in Faults
        /\ Refuse(r, "rejected")
  /\ UNCHANGED <<disk, gitDown, active, holder, history>>

\* ... and then the signature.
VerifySignature(r) ==
  /\ pc[r] = "signature"
  /\ IF Signature(r) = read[r]
       THEN Goto(r, "parse") /\ UNCHANGED <<lease, read, answer>>
       ELSE Refuse(r, "rejected")
  /\ UNCHANGED <<disk, gitDown, active, holder, history>>

\* ParseCompiledPolicy reads the artifact once more.
Parse(r) ==
  /\ pc[r] = "parse"
  /\ IF Published(r) \in Valid
       THEN /\ read' = [read EXCEPT ![r] = Published(r)]
            /\ Goto(r, "lock")
            /\ UNCHANGED <<lease, answer>>
       ELSE Refuse(r, "rejected")
  /\ UNCHANGED <<disk, gitDown, active, holder, history>>

\* The context claims the hash of the lease.
Resolved(r) == [content |-> read[r], hash |-> lease[r].hash]

LockIsFree == holder = Nobody

\* Activate: under the lock, first in memory, ...
Activate(r) ==
  /\ pc[r] = "lock"
  /\ LockIsFree
  /\ holder' = r
  /\ active' = Resolved(r)
  /\ proven' = proven \cup {Resolved(r)}
  /\ agree' = FALSE
  /\ Goto(r, "active")
  /\ UNCHANGED <<disk, gitDown, lease, read, answer, signed>>

\* ... then in the file of the active policy, ...
PersistActive(r) ==
  /\ pc[r] = "active"
  /\ activeFile' = Resolved(r)
  /\ Goto(r, "lkg")
  /\ UNCHANGED <<repo, lkgFile, gitDown, active, holder, lease, read, answer, history>>

\* ... and at last in the last-known-good file.
PersistLkg(r) ==
  /\ pc[r] = "lkg"
  /\ lkgFile' = Resolved(r)
  /\ holder' = Nobody
  /\ agree' = TRUE
  /\ Answered(r, Ready(r, "activated", Resolved(r)))
  /\ UNCHANGED <<repo, activeFile, gitDown, active, signed, proven>>

\* Files are replaced by renaming, so one that is not written stays as it was.
PersistFails(r) ==
  /\ pc[r] \in {"active", "lkg"}
  /\ "disk" \in Faults
  /\ holder' = Nobody
  /\ Answered(r, NotReady("error"))
  /\ UNCHANGED <<disk, gitDown, active, history>>

\* GetLastKnownGood reads the file without the lock.
Fallback(r) ==
  /\ pc[r] = "fallback"
  /\ IF lkgFile = NoPolicy
       THEN Answered(r, NotReady("failed_closed"))
       ELSE Answered(r, Ready(r, "degraded_ready", lkgFile))
  /\ UNCHANGED <<disk, gitDown, active, holder, history>>

-----------------------------------------------------------------------------
(* The environment. *)

\* A resolution is between its first and its last look at the version.
Looking(v) ==
  \E r \in Resolvers :
    lease[r].version = v /\ pc[r] \in {"hash", "artifact", "signature", "parse"}

\* The publisher writes or removes an artifact.
Publish(v, a) ==
  /\ "replace" \in Faults \/ ~Looking(v)
  /\ repo' = [repo EXCEPT ![v].artifact = a]
  /\ UNCHANGED <<activeFile, lkgFile, gitDown, active, holder, locals, history>>

\* policy-tool sign, for the artifact that is there.
Sign(v) ==
  /\ repo[v].artifact # Missing
  /\ repo' = [repo EXCEPT ![v].signature = repo[v].artifact]
  /\ signed' = signed \cup {repo[v].artifact}
  /\ UNCHANGED <<activeFile, lkgFile, gitDown, active, holder, locals, proven, agree>>

SetGitUnavailable ==
  /\ gitDown' = ~gitDown
  /\ UNCHANGED <<disk, active, holder, locals, history>>

\* The restarted agent does not load the active policy.
Crash ==
  /\ "crash" \in Faults
  /\ gitDown' = FALSE
  /\ active' = NoPolicy
  /\ holder' = Nobody
  /\ pc' = [r \in Resolvers |-> "idle"]
  /\ lease' = [r \in Resolvers |-> AnyLease]
  /\ read' = [r \in Resolvers |-> Missing]
  /\ answer' = [r \in Resolvers |-> NoAnswer]
  /\ UNCHANGED <<disk, history>>

-----------------------------------------------------------------------------
Init ==
  /\ repo = [v \in Versions |-> [artifact |-> Missing, signature |-> Missing]]
  /\ gitDown = FALSE
  /\ active = NoPolicy
  /\ activeFile = NoPolicy
  /\ lkgFile = NoPolicy
  /\ holder = Nobody
  /\ pc = [r \in Resolvers |-> "idle"]
  /\ lease = [r \in Resolvers |-> AnyLease]
  /\ read = [r \in Resolvers |-> Missing]
  /\ answer = [r \in Resolvers |-> NoAnswer]
  /\ signed = {}
  /\ proven = {}
  /\ agree = TRUE

Step(r) ==
  \/ Locate(r) \/ VerifyHash(r) \/ ReadArtifact(r) \/ VerifySignature(r) \/ Parse(r)
  \/ Activate(r) \/ PersistActive(r) \/ PersistLkg(r) \/ PersistFails(r) \/ Fallback(r)

Next ==
  \/ \E r \in Resolvers : Step(r) \/ \E l \in Leases : Request(r, l)
  \/ \E v \in Versions : Sign(v) \/ \E a \in Artifacts \cup {Missing} : Publish(v, a)
  \/ SetGitUnavailable \/ Crash

Spec == Init /\ [][Next]_vars

\* A handler goes on.  One that waits for the lock is not passed over for
\* ever: Go's mutex hands itself over to a waiter after a millisecond.
Fairness == \A r \in Resolvers : SF_vars(Step(r))

FairSpec == Spec /\ Fairness

-----------------------------------------------------------------------------
(* Properties. *)

TypeOK ==
  /\ repo \in [Versions -> [artifact : Artifacts \cup {Missing},
                            signature : Artifacts \cup {Missing}]]
  /\ gitDown \in BOOLEAN
  /\ active \in Context \cup {NoPolicy}
  /\ activeFile \in Context \cup {NoPolicy}
  /\ lkgFile \in Context \cup {NoPolicy}
  /\ holder \in Resolvers \cup {Nobody}
  /\ pc \in [Resolvers -> Labels]
  /\ lease \in [Resolvers -> Leases]
  /\ read \in [Resolvers -> Artifacts \cup {Missing}]
  /\ answer \in [Resolvers -> Answer]
  /\ signed \subseteq Artifacts
  /\ proven \subseteq Context
  /\ agree \in BOOLEAN

\* The policies that an execution may be given: the one in memory, those in
\* the two files, and those that resolutions were answered with.
InUse ==
  ({active, activeFile, lkgFile} \cup {answer[r].ctx : r \in Resolvers}) \ {NoPolicy}

\* What is in use has the hash that its lease named and was signed, although
\* the artifact is read three times and the publisher writes it in two steps:
\* as long as nobody replaces it between these reads.
PolicyIsVerified == \A c \in InUse : c.content = c.hash /\ c.content \in signed

\* A lease is answered with the artifact it names, or, only if it allows for
\* it, with a policy that was active once; also when a write failed, after a
\* restart, or in the middle of another activation.
FailsClosed ==
  \A r \in Resolvers :
    LET a == answer[r] IN
      /\ a.status = "activated" => a.ctx.hash = a.lease.hash
      /\ a.status = "degraded_ready" => a.lease.lkg /\ a.ctx \in proven
      /\ a.status \notin {"activated", "degraded_ready"} => a.ctx = NoPolicy

\* Memory and both files agree whenever the last activation was completed:
\* concurrent activations do not mix, and what the API shows after a restart,
\* from the file, is what was active before it.
CacheAgrees == agree => activeFile = lkgFile /\ active \in {NoPolicy, activeFile}

\* What a resolution looks like from outside, between its request and its answer.
Asked == [r \in Resolvers |-> IF pc[r] = "idle" THEN {} ELSE {lease[r]}]
Replied == [r \in Resolvers |-> [status |-> answer[r].status, ctx |-> answer[r].ctx]]

Promised == INSTANCE VerifiedPolicy
              WITH policy <- active, good <- lkgFile, busy <- holder,
                   asked <- Asked, answer <- Replied

\* Resolutions that read and write file by file do as if each took a signed
\* policy in force and kept it before the next one could, or was answered with
\* the one kept last; and none that may use that one is refused while it is there.
PromiseKept == Promised!Spec
=============================================================================
