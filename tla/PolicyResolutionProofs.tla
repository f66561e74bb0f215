----------------------- MODULE PolicyResolutionProofs -----------------------
(***************************************************************************)
(* Proofs about PolicyResolution, for any number of concurrent             *)
(* resolutions, versions, artifacts and leases.                            *)
(***************************************************************************)
EXTENDS PolicyResolution, TLAPS

-----------------------------------------------------------------------------
(* Types. *)

LEMMA LeaseIsThere == AnyLease \in Leases /\ NoAnswer \in Answer
BY PolicyAssumption DEF AnyLease, NoAnswer, Answer, Status

\* What a resolution is answered with has its type.
LEMMA AnswersTyped ==
  ASSUME TypeOK, NEW r \in Resolvers
  PROVE  /\ \A s \in Status : NotReady(s) \in Answer
         /\ \A s \in Status, c \in Context : Ready(r, s, c) \in Answer
         /\ lease[r].hash \in Artifacts /\ lease[r].version \in Versions
         /\ Published(r) \in Artifacts \cup {Missing}
<1>1. \A s \in Status : NotReady(s) \in Answer
  BY LeaseIsThere DEF NotReady, NoAnswer, Answer
<1>2. lease[r] \in Leases
  BY DEF TypeOK
<1>3. \A s \in Status, c \in Context : Ready(r, s, c) \in Answer
  BY <1>2 DEF Ready, Answer
<1>4. lease[r].hash \in Artifacts /\ lease[r].version \in Versions
  BY <1>2, PolicyAssumption
<1> QED BY <1>1, <1>3, <1>4 DEF TypeOK, Published

\* What ends a resolution, and what refuses an artifact.
LEMMA AnsweredTyped ==
  ASSUME TypeOK, NEW r \in Resolvers, NEW a \in Answer, Answered(r, a)
  PROVE  /\ pc' \in [Resolvers -> Labels]
         /\ lease' \in [Resolvers -> Leases]
         /\ read' \in [Resolvers -> Artifacts \cup {Missing}]
         /\ answer' \in [Resolvers -> Answer]
<1>1. pc' \in [Resolvers -> Labels]
  BY DEF TypeOK, Answered, Goto, Labels
<1>2. lease' \in [Resolvers -> Leases]
  BY LeaseIsThere DEF TypeOK, Answered
<1>3. read' \in [Resolvers -> Artifacts \cup {Missing}]
  BY DEF TypeOK, Answered
<1>4. answer' \in [Resolvers -> Answer]
  BY DEF TypeOK, Answered
<1> QED BY <1>1, <1>2, <1>3, <1>4

LEMMA RefuseTyped ==
  ASSUME TypeOK, NEW r \in Resolvers, NEW s \in Status, Refuse(r, s)
  PROVE  /\ pc' \in [Resolvers -> Labels]
         /\ lease' \in [Resolvers -> Leases]
         /\ read' \in [Resolvers -> Artifacts \cup {Missing}]
         /\ answer' \in [Resolvers -> Answer]
<1>1. CASE lease[r].lkg
  BY <1>1 DEF TypeOK, Refuse, Goto, Labels
<1>2. CASE ~lease[r].lkg
  <2>1. Answered(r, NotReady(s))
    BY <1>2 DEF Refuse
  <2> QED BY <2>1, AnsweredTyped, AnswersTyped
<1> QED BY <1>1, <1>2

\* A resolution that goes to activate a policy has read one.
Activating(r) == pc[r] \in {"lock", "active", "lkg"}
HasRead == \A r \in Resolvers : Activating(r) => read[r] \in Artifacts

IInv == TypeOK /\ HasRead

LEMMA InitTyped == Init => IInv
<1> SUFFICES ASSUME Init PROVE IInv
  OBVIOUS
<1>1. /\ pc \in [Resolvers -> Labels]
      /\ repo \in [Versions -> [artifact : Artifacts \cup {Missing},
                               signature : Artifacts \cup {Missing}]]
  BY DEF Init, Labels
<1>2. lease \in [Resolvers -> Leases] /\ answer \in [Resolvers -> Answer]
  BY LeaseIsThere DEF Init
<1>3. HasRead
  BY DEF Init, HasRead, Activating
<1> QED BY <1>1, <1>2, <1>3 DEF Init, TypeOK, IInv

LEMMA ContextResolved ==
  ASSUME IInv, NEW r \in Resolvers, Activating(r)
  PROVE  Resolved(r) \in Context
<1>1. lease[r].hash \in Artifacts
  BY AnswersTyped DEF IInv
<1> QED BY <1>1 DEF IInv, HasRead, Resolved, Context

LEMMA StepTyped == ASSUME IInv, NEW r \in Resolvers, Step(r) PROVE TypeOK'
<1> USE AnswersTyped DEF IInv
<1>0. /\ "failed_closed" \in Status /\ "rejected" \in Status /\ "error" \in Status
      /\ "activated" \in Status /\ "degraded_ready" \in Status
  BY DEF Status
<1>1. CASE Locate(r)
  BY <1>0, <1>1, RefuseTyped DEF Locate, TypeOK, Goto, Labels, disk, history
<1>2. CASE VerifyHash(r)
  BY <1>0, <1>2, RefuseTyped DEF VerifyHash, TypeOK, Goto, Labels, disk, history
<1>3. CASE ReadArtifact(r)
  BY <1>0, <1>3, RefuseTyped DEF ReadArtifact, TypeOK, Goto, Labels, disk, history
<1>4. CASE VerifySignature(r)
  BY <1>0, <1>4, RefuseTyped DEF VerifySignature, TypeOK, Goto, Labels, disk, history
<1>5. CASE Parse(r)
  BY <1>0, <1>5, RefuseTyped DEF Parse, TypeOK, Goto, Labels, disk, history
<1>6. CASE Activate(r)
  <2>1. Resolved(r) \in Context
    BY <1>6, ContextResolved DEF Activate, Activating
  <2> QED BY <2>1, <1>6 DEF Activate, TypeOK, Goto, Labels, disk
<1>7. CASE PersistActive(r)
  <2>1. Resolved(r) \in Context
    BY <1>7, ContextResolved DEF PersistActive, Activating
  <2> QED BY <2>1, <1>7 DEF PersistActive, TypeOK, Goto, Labels, history
<1>8. CASE PersistLkg(r)
  <2>1. Resolved(r) \in Context
    BY <1>8, ContextResolved DEF PersistLkg, Activating
  <2> QED BY <2>1, <1>0, <1>8, AnsweredTyped DEF PersistLkg, TypeOK
<1>9. CASE PersistFails(r)
  BY <1>0, <1>9, AnsweredTyped DEF PersistFails, TypeOK, disk, history
<1>10. CASE Fallback(r)
  BY <1>0, <1>10, AnsweredTyped DEF Fallback, TypeOK, disk, history
<1> QED BY <1>1, <1>2, <1>3, <1>4, <1>5, <1>6, <1>7, <1>8, <1>9, <1>10 DEF Step

LEMMA StepHasRead == ASSUME IInv, NEW r \in Resolvers, Step(r) PROVE HasRead'
<1> USE DEF IInv, HasRead, Activating
<1>1. CASE Locate(r)
  BY <1>1 DEF Locate, TypeOK, Refuse, Answered, Goto
<1>2. CASE VerifyHash(r)
  BY <1>2 DEF VerifyHash, TypeOK, Refuse, Answered, Goto
<1>3. CASE ReadArtifact(r)
  BY <1>3 DEF ReadArtifact, TypeOK, Refuse, Answered, Goto
<1>4. CASE VerifySignature(r)
  BY <1>4 DEF VerifySignature, TypeOK, Refuse, Answered, Goto
<1>5. CASE Parse(r)
  BY <1>5, PolicyAssumption DEF Parse, TypeOK, Refuse, Answered, Goto
<1>6. CASE Activate(r)
  BY <1>6 DEF Activate, TypeOK, Goto
<1>7. CASE PersistActive(r)
  BY <1>7 DEF PersistActive, TypeOK, Goto
<1>8. CASE PersistLkg(r)
  BY <1>8 DEF PersistLkg, TypeOK, Answered, Goto
<1>9. CASE PersistFails(r)
  BY <1>9 DEF PersistFails, TypeOK, Answered, Goto
<1>10. CASE Fallback(r)
  BY <1>10 DEF Fallback, TypeOK, Answered, Goto
<1> QED BY <1>1, <1>2, <1>3, <1>4, <1>5, <1>6, <1>7, <1>8, <1>9, <1>10 DEF Step

LEMMA OtherTyped ==
  ASSUME IInv, [Next]_vars, \A r \in Resolvers : ~Step(r)
  PROVE  IInv'
<1> USE DEF IInv, HasRead, Activating
<1>1. ASSUME NEW r \in Resolvers, NEW l \in Leases, Request(r, l) PROVE IInv'
  BY <1>1, LeaseIsThere DEF Request, TypeOK, Goto, Labels, disk, history
<1>2. ASSUME NEW v \in Versions, Sign(v) PROVE IInv'
  BY <1>2 DEF Sign, TypeOK, locals
<1>3. ASSUME NEW v \in Versions, NEW a \in Artifacts \cup {Missing}, Publish(v, a) PROVE IInv'
  BY <1>3 DEF Publish, TypeOK, locals, history
<1>4. CASE SetGitUnavailable
  BY <1>4 DEF SetGitUnavailable, TypeOK, disk, locals, history
<1>5. CASE Crash
  BY <1>5, LeaseIsThere DEF Crash, TypeOK, Labels, disk, history
<1>6. CASE UNCHANGED vars
  BY <1>6 DEF vars, TypeOK, disk, locals, history
<1> QED BY <1>1, <1>2, <1>3, <1>4, <1>5, <1>6 DEF Next

LEMMA NextTyped == IInv /\ [Next]_vars => IInv'
BY StepTyped, StepHasRead, OtherTyped DEF IInv

\* Every variable keeps its type.
THEOREM PolicyTypeCorrect == Spec => []TypeOK
<1>1. Spec => []IInv
  BY InitTyped, NextTyped, PTL DEF Spec
<1>2. IInv => TypeOK
  BY DEF IInv
<1> QED BY <1>1, <1>2, PTL

-----------------------------------------------------------------------------
(* What is in use was verified, as long as no artifact is replaced while it is *)
(* resolved.                                                                  *)

Verified(c) == c.content = c.hash /\ c.content \in signed

\* What a resolution has seen of the artifact so far.
Seen(r) ==
  /\ pc[r] \in {"artifact", "signature", "parse"} => Published(r) = lease[r].hash
  /\ pc[r] \in {"signature", "parse"} => read[r] = lease[r].hash
  /\ pc[r] = "parse" \/ Activating(r) => read[r] = lease[r].hash /\ read[r] \in signed

VInv ==
  /\ \A c \in {active, activeFile, lkgFile} \ {NoPolicy} : Verified(c)
  /\ \A r \in Resolvers : answer[r].ctx # NoPolicy => Verified(answer[r].ctx)
  /\ \A v \in Versions : repo[v].signature \in signed \cup {Missing}
  /\ \A r \in Resolvers : Seen(r)

LEMMA VInvVerifies == VInv => PolicyIsVerified
BY DEF VInv, Verified, PolicyIsVerified, InUse

LEMMA InitVerified == Init => VInv
BY DEF Init, VInv, Seen, Activating, NoAnswer

\* A resolution that is answered without a policy, or goes to fall back.
LEMMA RefuseVerified ==
  ASSUME IInv, VInv, NEW r \in Resolvers, NEW s \in Status,
         Refuse(r, s) \/ Answered(r, NotReady(s)),
         UNCHANGED <<disk, active, signed>>
  PROVE  VInv'
<1> USE DEF IInv, TypeOK
<1>1. NotReady(s).ctx = NoPolicy
  BY DEF NotReady, NoAnswer
<1>2. /\ pc' = [pc EXCEPT ![r] = "idle"] \/ pc' = [pc EXCEPT ![r] = "fallback"]
      /\ \A q \in Resolvers \ {r} : lease'[q] = lease[q] /\ read'[q] = read[q]
      /\ \A q \in Resolvers : answer'[q].ctx \in {answer[q].ctx, NoPolicy}
  BY <1>1 DEF Refuse, Answered, Goto
<1>3. \A q \in Resolvers : Seen(q)'
  BY <1>2 DEF VInv, Seen, Activating, Published, disk
<1> QED BY <1>2, <1>3 DEF VInv, Verified, disk

\* A resolution that goes on from label to label, and changes no policy.
LEMMA LookVerified ==
  ASSUME IInv, VInv, NEW r \in Resolvers, NEW label \in Labels,
         Goto(r, label), read' \in [Resolvers -> Artifacts \cup {Missing}],
         \A q \in Resolvers \ {r} : read'[q] = read[q],
         Seen(r)',
         UNCHANGED <<disk, active, signed, lease, answer>>
  PROVE  VInv'
<1> USE DEF IInv, TypeOK
<1>1. \A q \in Resolvers \ {r} : Seen(q)'
  BY DEF VInv, Seen, Activating, Published, Goto, disk
<1> QED BY <1>1 DEF VInv, Verified, disk

LEMMA LooksVerified ==
  ASSUME IInv, VInv, NEW r \in Resolvers,
         Locate(r) \/ VerifyHash(r) \/ ReadArtifact(r) \/ VerifySignature(r) \/ Parse(r)
  PROVE  VInv'
<1> USE DEF IInv, TypeOK
<1>0. "failed_closed" \in Status /\ "rejected" \in Status
  BY DEF Status
<1>1. CASE Locate(r)
  <2>1. CASE Goto(r, "hash") /\ UNCHANGED <<lease, read, answer>>
    BY <1>1, <2>1, LookVerified DEF Locate, Labels, Seen, Activating, Goto, history
  <2>2. CASE Refuse(r, "failed_closed")
    BY <1>0, <1>1, <2>2, RefuseVerified DEF Locate, history
  <2> QED BY <1>1, <2>1, <2>2 DEF Locate
<1>2. CASE VerifyHash(r)
  <2>1. CASE HashMatches(r) /\ Goto(r, "artifact") /\ UNCHANGED <<lease, read, answer>>
    BY <1>2, <2>1, LookVerified
       DEF VerifyHash, HashMatches, Labels, Seen, Activating, Goto, history, disk, Published
  <2>2. CASE Refuse(r, "rejected")
    BY <1>0, <1>2, <2>2, RefuseVerified DEF VerifyHash, history
  <2> QED BY <1>2, <2>1, <2>2 DEF VerifyHash
<1>3. CASE ReadArtifact(r)
  <2>1. CASE read' = [read EXCEPT ![r] = Published(r)] /\ Goto(r, "signature")
             /\ UNCHANGED <<lease, answer>>
    <3>1. Seen(r)'
      BY <1>3, <2>1 DEF ReadArtifact, VInv, Seen, Activating, Goto, disk, Published
    <3> QED BY <1>3, <2>1, <3>1, LookVerified, AnswersTyped DEF ReadArtifact, Labels, history
  <2>2. CASE Refuse(r, "rejected")
    BY <1>0, <1>3, <2>2, RefuseVerified DEF ReadArtifact, history
  <2> QED BY <1>3, <2>1, <2>2 DEF ReadArtifact
<1>4. CASE VerifySignature(r)
  <2>1. CASE Signature(r) = read[r] /\ Goto(r, "parse") /\ UNCHANGED <<lease, read, answer>>
    <3>1. read[r] = lease[r].hash /\ lease[r].hash \in Artifacts
          /\ lease[r].version \in Versions
      BY <1>4, AnswersTyped DEF VerifySignature, VInv, Seen
    <3>2. read[r] \in signed
      BY <2>1, <3>1, PolicyAssumption DEF VInv, Signature
    <3>3. Seen(r)'
      BY <1>4, <2>1, <3>1, <3>2
         DEF VerifySignature, VInv, Seen, Activating, Goto, disk, history, Published
    <3> QED BY <1>4, <2>1, <3>3, LookVerified DEF VerifySignature, Labels, history
  <2>2. CASE Refuse(r, "rejected")
    BY <1>0, <1>4, <2>2, RefuseVerified DEF VerifySignature, history
  <2> QED BY <1>4, <2>1, <2>2 DEF VerifySignature
<1>5. CASE Parse(r)
  <2>1. CASE read' = [read EXCEPT ![r] = Published(r)] /\ Goto(r, "lock")
             /\ UNCHANGED <<lease, answer>>
    <3>1. Seen(r)'
      BY <1>5, <2>1 DEF Parse, VInv, Seen, Activating, Goto, disk, history, Published
    <3> QED BY <1>5, <2>1, <3>1, LookVerified, AnswersTyped DEF Parse, Labels, history
  <2>2. CASE Refuse(r, "rejected")
    BY <1>0, <1>5, <2>2, RefuseVerified DEF Parse, history
  <2> QED BY <1>5, <2>1, <2>2 DEF Parse
<1> QED BY <1>1, <1>2, <1>3, <1>4, <1>5

\* The steps under the lock store the policy that was resolved; falling back
\* answers with the one that was stored.
LEMMA StoresVerified ==
  ASSUME IInv, VInv, NEW r \in Resolvers,
         Activate(r) \/ PersistActive(r) \/ PersistLkg(r) \/ PersistFails(r) \/ Fallback(r)
  PROVE  VInv'
<1> USE DEF IInv, TypeOK
<1>0. ASSUME Activating(r) PROVE Verified(Resolved(r))
  BY <1>0 DEF VInv, Seen, Resolved, Verified
<1>1. CASE Activate(r)
  <2>1. Verified(Resolved(r))
    BY <1>0, <1>1 DEF Activate, Activating
  <2>2. \A q \in Resolvers : Seen(q)'
    BY <1>1 DEF Activate, VInv, Seen, Activating, Published, Goto, disk
  <2> QED BY <1>1, <2>1, <2>2 DEF Activate, VInv, Verified, disk
<1>2. CASE PersistActive(r)
  <2>1. Verified(Resolved(r))
    BY <1>0, <1>2 DEF PersistActive, Activating
  <2>2. \A q \in Resolvers : Seen(q)'
    BY <1>2 DEF PersistActive, VInv, Seen, Activating, Published, Goto, history
  <2> QED BY <1>2, <2>1, <2>2 DEF PersistActive, VInv, Verified, history
<1>3. CASE PersistLkg(r)
  <2>1. Verified(Resolved(r))
    BY <1>0, <1>3 DEF PersistLkg, Activating
  <2>2. \A q \in Resolvers : Seen(q)'
    BY <1>3 DEF PersistLkg, VInv, Seen, Activating, Published, Answered, Goto
  <2>3. /\ answer'[r].ctx = Resolved(r)
        /\ \A q \in Resolvers \ {r} : answer'[q] = answer[q]
    BY <1>3 DEF PersistLkg, Answered, Ready
  <2> QED BY <1>3, <2>1, <2>2, <2>3 DEF PersistLkg, VInv, Verified
<1>4. CASE PersistFails(r)
  <2>1. "error" \in Status
    BY DEF Status
  <2> QED BY <1>4, <2>1, RefuseVerified DEF PersistFails, history
<1>5. CASE Fallback(r)
  <2>1. CASE Answered(r, NotReady("failed_closed"))
    <3>1. "failed_closed" \in Status
      BY DEF Status
    <3> QED BY <1>5, <2>1, <3>1, RefuseVerified DEF Fallback, history
  <2>2. CASE lkgFile # NoPolicy /\ Answered(r, Ready(r, "degraded_ready", lkgFile))
    <3>1. \A q \in Resolvers : Seen(q)'
      BY <1>5, <2>2 DEF Fallback, VInv, Seen, Activating, Published, Answered, Goto, disk, history
    <3>2. /\ answer'[r].ctx = lkgFile
          /\ \A q \in Resolvers \ {r} : answer'[q] = answer[q]
      BY <2>2 DEF Answered, Ready
    <3> QED BY <1>5, <2>2, <3>1, <3>2 DEF Fallback, VInv, Verified, disk, history
  <2> QED BY <1>5, <2>1, <2>2 DEF Fallback
<1> QED BY <1>1, <1>2, <1>3, <1>4, <1>5

\* Only here it matters that artifacts are not replaced.
LEMMA PublishVerified ==
  ASSUME IInv, VInv, "replace" \notin Faults,
         NEW v \in Versions, NEW a \in Artifacts \cup {Missing}, Publish(v, a)
  PROVE  VInv'
<1> USE DEF IInv, TypeOK
<1>1. ~Looking(v)
  BY DEF Publish
<1>2. \A u \in Versions : repo'[u].signature = repo[u].signature
  BY DEF Publish
<1>3. \A q \in Resolvers : Seen(q)'
  <2> TAKE q \in Resolvers
  <2>1. CASE lease[q].version = v
    BY <1>1, <2>1 DEF Publish, Looking, VInv, Seen, Activating, locals, history
  <2>2. CASE lease[q].version # v
    <3>1. Published(q)' = Published(q)
      BY <2>2, AnswersTyped DEF Publish, Published, locals
    <3> QED BY <3>1 DEF Publish, VInv, Seen, Activating, locals, history
  <2> QED BY <2>1, <2>2
<1> QED BY <1>2, <1>3 DEF Publish, VInv, Verified, locals, history

LEMMA SignVerified ==
  ASSUME IInv, VInv, NEW v \in Versions, Sign(v)
  PROVE  VInv'
<1> USE DEF IInv, TypeOK
<1>1. \A u \in Versions : /\ repo'[u].artifact = repo[u].artifact
                          /\ repo'[u].signature \in signed' \cup {Missing}
  BY DEF Sign, VInv
<1>2. signed \subseteq signed'
  BY DEF Sign
<1>3. \A q \in Resolvers : Seen(q)'
  <2> TAKE q \in Resolvers
  <2>1. Published(q)' = Published(q)
    BY <1>1, AnswersTyped DEF Sign, Published, locals
  <2> QED BY <1>2, <2>1 DEF Sign, VInv, Seen, Activating, locals
<1> QED BY <1>1, <1>2, <1>3 DEF Sign, VInv, Verified, locals

LEMMA NextVerified == ASSUME "replace" \notin Faults
                      PROVE  IInv /\ VInv /\ [Next]_vars => VInv'
<1> SUFFICES ASSUME IInv, VInv, [Next]_vars PROVE VInv'
  OBVIOUS
<1> USE DEF IInv, TypeOK
<1>1. ASSUME NEW r \in Resolvers, Step(r) PROVE VInv'
  BY <1>1, LooksVerified, StoresVerified DEF Step
<1>2. ASSUME NEW r \in Resolvers, NEW l \in Leases, Request(r, l) PROVE VInv'
  <2>1. \A q \in Resolvers : Seen(q)'
    BY <1>2 DEF Request, VInv, Seen, Activating, Published, Goto, disk, history
  <2>2. \A q \in Resolvers : answer'[q].ctx \in {answer[q].ctx, NoPolicy}
    BY <1>2 DEF Request, NoAnswer
  <2> QED BY <1>2, <2>1, <2>2 DEF Request, VInv, Verified, disk, history
<1>3. ASSUME NEW v \in Versions, Sign(v) PROVE VInv'
  BY <1>3, SignVerified
<1>4. ASSUME NEW v \in Versions, NEW a \in Artifacts \cup {Missing}, Publish(v, a) PROVE VInv'
  BY <1>4, PublishVerified
<1>5. CASE SetGitUnavailable
  BY <1>5 DEF SetGitUnavailable, VInv, Verified, Seen, Activating, Published, disk, locals, history
<1>6. CASE Crash
  BY <1>6 DEF Crash, VInv, Verified, Seen, Activating, NoAnswer, disk, history
<1>7. CASE UNCHANGED vars
  BY <1>7 DEF vars, VInv, Verified, Seen, Activating, Published, disk, locals, history
<1> QED BY <1>1, <1>2, <1>3, <1>4, <1>5, <1>6, <1>7 DEF Next

\* Unless artifacts are replaced while they are resolved, every policy in use
\* has the hash that its lease named, and was signed.
THEOREM VerifiedWithoutReplacement ==
  ASSUME "replace" \notin Faults
  PROVE  Spec => []PolicyIsVerified
<1>1. Init => IInv /\ VInv
  BY InitTyped, InitVerified
<1>2. IInv /\ VInv /\ [Next]_vars => (IInv /\ VInv)'
  BY NextTyped, NextVerified
<1>3. IInv /\ VInv => PolicyIsVerified
  BY VInvVerifies
<1> QED BY <1>1, <1>2, <1>3, PTL DEF Spec

-----------------------------------------------------------------------------
(* A lease is answered with what it names or allows for. *)

\* Answers, and what the next answer is made of.
FInv ==
  /\ lkgFile \in proven \cup {NoPolicy}
  /\ \A r \in Resolvers :
       /\ pc[r] \in {"active", "lkg"} => Resolved(r) \in proven
       /\ pc[r] = "fallback" => lease[r].lkg
  /\ FailsClosed

LEMMA InitFailsClosed == Init => FInv
BY DEF Init, FInv, FailsClosed, NoAnswer

LEMMA RefuseFailsClosed ==
  ASSUME IInv, FInv, NEW r \in Resolvers,
         NEW s \in {"failed_closed", "rejected", "error"},
         Refuse(r, s) \/ Answered(r, NotReady(s)),
         UNCHANGED <<lkgFile, proven>>
  PROVE  FInv'
<1> USE DEF IInv, TypeOK
<1>1. NotReady(s).ctx = NoPolicy /\ NotReady(s).status = s
  BY DEF NotReady, NoAnswer
<1>2. \A q \in Resolvers : /\ pc'[q] \in {"active", "lkg"} => Resolved(q)' \in proven
                           /\ pc'[q] = "fallback" => lease'[q].lkg
  BY DEF Refuse, Answered, Goto, FInv, Resolved
<1>3. FailsClosed'
  BY <1>1 DEF Refuse, Answered, FInv, FailsClosed
<1> QED BY <1>2, <1>3 DEF FInv

\* A resolution that goes on without an answer, and to what it may.
LEMMA GotoFailsClosed ==
  ASSUME IInv, FInv, NEW r \in Resolvers, NEW label \in Labels \ {"fallback"},
         Goto(r, label), \A q \in Resolvers \ {r} : read'[q] = read[q],
         label \in {"active", "lkg"} => Resolved(r)' \in proven',
         proven \subseteq proven',
         UNCHANGED <<lkgFile, lease, answer>>
  PROVE  FInv'
<1> USE DEF IInv, TypeOK
<1>1. \A q \in Resolvers : /\ pc'[q] \in {"active", "lkg"} => Resolved(q)' \in proven'
                           /\ pc'[q] = "fallback" => lease'[q].lkg
  BY DEF Goto, FInv, Resolved
<1> QED BY <1>1 DEF FInv, FailsClosed

LEMMA StepFailsClosed == ASSUME IInv, FInv, NEW r \in Resolvers, Step(r) PROVE FInv'
<1> USE DEF IInv, TypeOK
<1>1. CASE Locate(r)
  <2>1. CASE Refuse(r, "failed_closed")
    BY <1>1, <2>1, RefuseFailsClosed DEF Locate, disk, history
  <2>2. CASE Goto(r, "hash") /\ UNCHANGED <<lease, read, answer>>
    BY <1>1, <2>2, GotoFailsClosed DEF Locate, Labels, disk, history
  <2> QED BY <1>1, <2>1, <2>2 DEF Locate
<1>2. CASE VerifyHash(r)
  <2>1. CASE Refuse(r, "rejected")
    BY <1>2, <2>1, RefuseFailsClosed DEF VerifyHash, disk, history
  <2>2. CASE Goto(r, "artifact") /\ UNCHANGED <<lease, read, answer>>
    BY <1>2, <2>2, GotoFailsClosed DEF VerifyHash, Labels, disk, history
  <2> QED BY <1>2, <2>1, <2>2 DEF VerifyHash
<1>3. CASE ReadArtifact(r)
  <2>1. CASE Refuse(r, "rejected")
    BY <1>3, <2>1, RefuseFailsClosed DEF ReadArtifact, disk, history
  <2>2. CASE Goto(r, "signature") /\ read' = [read EXCEPT ![r] = Published(r)]
             /\ UNCHANGED <<lease, answer>>
    BY <1>3, <2>2, GotoFailsClosed DEF ReadArtifact, Labels, disk, history
  <2> QED BY <1>3, <2>1, <2>2 DEF ReadArtifact
<1>4. CASE VerifySignature(r)
  <2>1. CASE Refuse(r, "rejected")
    BY <1>4, <2>1, RefuseFailsClosed DEF VerifySignature, disk, history
  <2>2. CASE Goto(r, "parse") /\ UNCHANGED <<lease, read, answer>>
    BY <1>4, <2>2, GotoFailsClosed DEF VerifySignature, Labels, disk, history
  <2> QED BY <1>4, <2>1, <2>2 DEF VerifySignature
<1>5. CASE Parse(r)
  <2>1. CASE Refuse(r, "rejected")
    BY <1>5, <2>1, RefuseFailsClosed DEF Parse, disk, history
  <2>2. CASE Goto(r, "lock") /\ read' = [read EXCEPT ![r] = Published(r)]
             /\ UNCHANGED <<lease, answer>>
    BY <1>5, <2>2, GotoFailsClosed DEF Parse, Labels, disk, history
  <2> QED BY <1>5, <2>1, <2>2 DEF Parse
<1>6. CASE Activate(r)
  <2>1. Resolved(r)' \in proven' /\ proven \subseteq proven'
    BY <1>6 DEF Activate, Resolved
  <2> QED BY <1>6, <2>1, GotoFailsClosed DEF Activate, Labels, disk
<1>7. CASE PersistActive(r)
  <2>1. Resolved(r)' \in proven'
    BY <1>7 DEF PersistActive, Resolved, FInv, history
  <2> QED BY <1>7, <2>1, GotoFailsClosed DEF PersistActive, Labels, history
<1>8. CASE PersistLkg(r)
  <2>1. /\ answer'[r].ctx.hash = answer'[r].lease.hash
        /\ answer'[r].status = "activated"
        /\ \A q \in Resolvers \ {r} : answer'[q] = answer[q]
    BY <1>8 DEF PersistLkg, Answered, Ready, Resolved
  <2>2. Resolved(r) \in proven
    BY <1>8 DEF PersistLkg, FInv
  <2>3. \A q \in Resolvers : /\ pc'[q] \in {"active", "lkg"} => Resolved(q)' \in proven'
                             /\ pc'[q] = "fallback" => lease'[q].lkg
    BY <1>8 DEF PersistLkg, Answered, Goto, FInv, Resolved
  <2> QED BY <1>8, <2>1, <2>2, <2>3 DEF PersistLkg, FInv, FailsClosed
<1>9. CASE PersistFails(r)
  BY <1>9, RefuseFailsClosed DEF PersistFails, disk, history
<1>10. CASE Fallback(r)
  <2>1. CASE lkgFile = NoPolicy
    BY <1>10, <2>1, RefuseFailsClosed DEF Fallback, disk, history
  <2>2. CASE lkgFile # NoPolicy
    <3>1. /\ answer'[r].status = "degraded_ready"
          /\ answer'[r].lease.lkg
          /\ answer'[r].ctx \in proven
          /\ \A q \in Resolvers \ {r} : answer'[q] = answer[q]
      BY <1>10, <2>2 DEF Fallback, Answered, Ready, FInv
    <3>2. \A q \in Resolvers : /\ pc'[q] \in {"active", "lkg"} => Resolved(q)' \in proven'
                               /\ pc'[q] = "fallback" => lease'[q].lkg
      BY <1>10, <2>2 DEF Fallback, Answered, Goto, FInv, Resolved, history
    <3> QED BY <1>10, <3>1, <3>2 DEF Fallback, FInv, FailsClosed, disk, history
  <2> QED BY <2>1, <2>2
<1> QED BY <1>1, <1>2, <1>3, <1>4, <1>5, <1>6, <1>7, <1>8, <1>9, <1>10 DEF Step

LEMMA NextFailsClosed == IInv /\ FInv /\ [Next]_vars => FInv'
<1> SUFFICES ASSUME IInv, FInv, [Next]_vars PROVE FInv'
  OBVIOUS
<1> USE DEF IInv, TypeOK
<1>1. ASSUME NEW r \in Resolvers, Step(r) PROVE FInv'
  BY <1>1, StepFailsClosed
<1>2. ASSUME NEW r \in Resolvers, NEW l \in Leases, Request(r, l) PROVE FInv'
  <2>1. \A q \in Resolvers : /\ pc'[q] \in {"active", "lkg"} => Resolved(q)' \in proven'
                             /\ pc'[q] = "fallback" => lease'[q].lkg
    BY <1>2 DEF Request, Goto, FInv, Resolved, history
  <2>2. \A q \in Resolvers : answer'[q] = NoAnswer \/ answer'[q] = answer[q]
    BY <1>2 DEF Request
  <2> QED BY <1>2, <2>1, <2>2 DEF Request, FInv, FailsClosed, NoAnswer, disk, history
<1>3. ASSUME NEW v \in Versions, Sign(v) PROVE FInv'
  BY <1>3 DEF Sign, FInv, FailsClosed, Resolved, locals
<1>4. ASSUME NEW v \in Versions, NEW a \in Artifacts \cup {Missing}, Publish(v, a) PROVE FInv'
  BY <1>4 DEF Publish, FInv, FailsClosed, Resolved, locals, history
<1>5. CASE SetGitUnavailable
  BY <1>5 DEF SetGitUnavailable, FInv, FailsClosed, Resolved, disk, locals, history
<1>6. CASE Crash
  BY <1>6 DEF Crash, FInv, FailsClosed, NoAnswer, disk, history
<1>7. CASE UNCHANGED vars
  BY <1>7 DEF vars, FInv, FailsClosed, Resolved, disk, locals, history
<1> QED BY <1>1, <1>2, <1>3, <1>4, <1>5, <1>6, <1>7 DEF Next

\* A resolution is answered with a policy of the hash its lease names, or, if
\* the lease allows for it, with one that was active before; or with none.
\* Artifacts may be replaced, writes fail, and the agent crash.
THEOREM AnswersFailClosed == Spec => []FailsClosed
<1>1. Init => IInv /\ FInv
  BY InitTyped, InitFailsClosed
<1>2. IInv /\ FInv /\ [Next]_vars => (IInv /\ FInv)'
  BY NextTyped, NextFailsClosed
<1>3. FInv => FailsClosed
  BY DEF FInv
<1> QED BY <1>1, <1>2, <1>3, PTL DEF Spec

-----------------------------------------------------------------------------
(* Memory and files agree when no activation is going on or was cut off. *)

\* The one that activates holds the lock, and what it has written is there.
CInv ==
  /\ \A r \in Resolvers :
       /\ pc[r] \in {"active", "lkg"} => holder = r /\ active = Resolved(r) /\ ~agree
       /\ pc[r] = "lkg" => activeFile = Resolved(r)
  /\ CacheAgrees

LEMMA InitAgrees == Init => CInv
BY DEF Init, CInv, CacheAgrees

\* Steps of r that leave the cache alone.
LEMMA LocalAgrees ==
  ASSUME IInv, CInv, NEW r \in Resolvers,
         pc[r] \notin {"active", "lkg"},
         \A q \in Resolvers \ {r} : pc'[q] = pc[q] /\ lease'[q] = lease[q] /\ read'[q] = read[q],
         pc'[r] \notin {"active", "lkg"},
         UNCHANGED <<activeFile, lkgFile, active, holder, agree>>
  PROVE  CInv'
BY DEF CInv, CacheAgrees, Resolved

LEMMA StepAgrees == ASSUME IInv, CInv, NEW r \in Resolvers, Step(r) PROVE CInv'
<1> USE DEF IInv, TypeOK
<1>1. CASE Locate(r)
  BY <1>1, LocalAgrees DEF Locate, Refuse, Answered, Goto, disk, history
<1>2. CASE VerifyHash(r)
  BY <1>2, LocalAgrees DEF VerifyHash, Refuse, Answered, Goto, disk, history
<1>3. CASE ReadArtifact(r)
  BY <1>3, LocalAgrees DEF ReadArtifact, Refuse, Answered, Goto, disk, history
<1>4. CASE VerifySignature(r)
  BY <1>4, LocalAgrees DEF VerifySignature, Refuse, Answered, Goto, disk, history
<1>5. CASE Parse(r)
  BY <1>5, LocalAgrees DEF Parse, Refuse, Answered, Goto, disk, history
<1>6. CASE Activate(r)
  <2>1. \A q \in Resolvers : pc[q] \notin {"active", "lkg"}
    BY <1>6, PolicyAssumption DEF Activate, LockIsFree, CInv
  <2>2. Resolved(r)' = Resolved(r) /\ pc' = [pc EXCEPT ![r] = "active"]
    BY <1>6 DEF Activate, Resolved, Goto
  <2> QED BY <1>6, <2>1, <2>2 DEF Activate, CInv, CacheAgrees
<1>7. CASE PersistActive(r)
  <2>1. \A q \in Resolvers \ {r} : pc[q] \notin {"active", "lkg"}
    BY <1>7 DEF PersistActive, CInv
  <2>2. Resolved(r)' = Resolved(r) /\ pc' = [pc EXCEPT ![r] = "lkg"]
    BY <1>7 DEF PersistActive, Resolved, Goto
  <2> QED BY <1>7, <2>1, <2>2 DEF PersistActive, CInv, CacheAgrees, history
<1>8. CASE PersistLkg(r)
  <2>1. \A q \in Resolvers : pc'[q] \notin {"active", "lkg"}
    BY <1>8 DEF PersistLkg, Answered, Goto, CInv
  <2> QED BY <1>8, <2>1 DEF PersistLkg, CInv, CacheAgrees
<1>9. CASE PersistFails(r)
  <2>1. \A q \in Resolvers : pc'[q] \notin {"active", "lkg"}
    BY <1>9 DEF PersistFails, Answered, Goto, CInv
  <2> QED BY <1>9, <2>1 DEF PersistFails, CInv, CacheAgrees, disk, history
<1>10. CASE Fallback(r)
  BY <1>10, LocalAgrees DEF Fallback, Answered, Goto, disk, history
<1> QED BY <1>1, <1>2, <1>3, <1>4, <1>5, <1>6, <1>7, <1>8, <1>9, <1>10 DEF Step

LEMMA NextAgrees == IInv /\ CInv /\ [Next]_vars => CInv'
<1> SUFFICES ASSUME IInv, CInv, [Next]_vars PROVE CInv'
  OBVIOUS
<1> USE DEF IInv, TypeOK
<1>1. ASSUME NEW r \in Resolvers, Step(r) PROVE CInv'
  BY <1>1, StepAgrees
<1>2. ASSUME NEW r \in Resolvers, NEW l \in Leases, Request(r, l) PROVE CInv'
  BY <1>2, LocalAgrees DEF Request, Goto, disk, history
<1>3. ASSUME NEW v \in Versions, Sign(v) PROVE CInv'
  BY <1>3 DEF Sign, CInv, CacheAgrees, Resolved, locals
<1>4. ASSUME NEW v \in Versions, NEW a \in Artifacts \cup {Missing}, Publish(v, a) PROVE CInv'
  BY <1>4 DEF Publish, CInv, CacheAgrees, Resolved, locals, history
<1>5. CASE SetGitUnavailable
  BY <1>5 DEF SetGitUnavailable, CInv, CacheAgrees, Resolved, disk, locals, history
<1>6. CASE Crash
  BY <1>6 DEF Crash, CInv, CacheAgrees, disk, history
<1>7. CASE UNCHANGED vars
  BY <1>7 DEF vars, CInv, CacheAgrees, Resolved, disk, locals, history
<1> QED BY <1>1, <1>2, <1>3, <1>4, <1>5, <1>6, <1>7 DEF Next

\* After a completed activation the policy in memory and in both files is the
\* same, however many resolutions activate at once, and across crashes.
THEOREM CacheIsConsistent == Spec => []CacheAgrees
<1>1. Init => IInv /\ CInv
  BY InitTyped, InitAgrees
<1>2. IInv /\ CInv /\ [Next]_vars => (IInv /\ CInv)'
  BY NextTyped, NextAgrees
<1>3. CInv => CacheAgrees
  BY DEF CInv
<1> QED BY <1>1, <1>2, <1>3, PTL DEF Spec

-----------------------------------------------------------------------------
(* Refinement: VerifiedPolicy. *)

\* Who holds the lock is between the change of memory and its last write.
HInv == \A r \in Resolvers : holder = r => pc[r] \in {"active", "lkg"}

LEMMA InitHeld == Init => HInv
BY PolicyAssumption DEF Init, HInv

LEMMA NextHeld == IInv /\ CInv /\ HInv /\ [Next]_vars => HInv'
<1> SUFFICES ASSUME IInv, CInv, HInv, [Next]_vars PROVE HInv'
  OBVIOUS
<1> USE PolicyAssumption DEF IInv, TypeOK, HInv
<1>1. ASSUME NEW r \in Resolvers, Step(r) PROVE HInv'
  <2>1. CASE Locate(r) \/ VerifyHash(r) \/ ReadArtifact(r) \/ VerifySignature(r) \/ Parse(r)
    BY <2>1 DEF Locate, VerifyHash, ReadArtifact, VerifySignature, Parse, Refuse, Answered, Goto
  <2>2. CASE Activate(r)
    BY <2>2 DEF Activate, Goto
  <2>3. CASE PersistActive(r)
    BY <2>3 DEF PersistActive, Goto
  <2>4. CASE PersistLkg(r) \/ PersistFails(r)
    BY <2>4 DEF PersistLkg, PersistFails
  <2>5. CASE Fallback(r)
    BY <2>5 DEF Fallback, Answered, Goto
  <2> QED BY <1>1, <2>1, <2>2, <2>3, <2>4, <2>5 DEF Step
<1>2. ASSUME NEW r \in Resolvers, NEW l \in Leases, Request(r, l) PROVE HInv'
  BY <1>2 DEF Request, Goto
<1>3. ASSUME NEW v \in Versions, Sign(v) PROVE HInv'
  BY <1>3 DEF Sign, locals
<1>4. ASSUME NEW v \in Versions, NEW a \in Artifacts \cup {Missing}, Publish(v, a) PROVE HInv'
  BY <1>4 DEF Publish, locals
<1>5. CASE SetGitUnavailable
  BY <1>5 DEF SetGitUnavailable, locals
<1>6. CASE Crash
  BY <1>6 DEF Crash
<1>7. CASE UNCHANGED vars
  BY <1>7 DEF vars, locals
<1> QED BY <1>1, <1>2, <1>3, <1>4, <1>5, <1>6, <1>7 DEF Next

\* What an answer looks like from outside, and what a step that gives none does.
LEMMA AnsweredOutside ==
  ASSUME IInv, NEW r \in Resolvers, NEW a, Answered(r, a)
  PROVE  Promised!Answers(r, [status |-> a.status, ctx |-> a.ctx])
<1> USE DEF IInv, TypeOK
<1>1. Asked' = [Asked EXCEPT ![r] = {}]
  BY DEF Asked, Answered, Goto
<1>2. Replied' = [Replied EXCEPT ![r] = [status |-> a.status, ctx |-> a.ctx]]
  BY DEF Replied, Answered
<1> QED BY <1>1, <1>2 DEF Promised!Answers

LEMMA NothingOutside ==
  ASSUME IInv, NEW r \in Resolvers, NEW label \in Labels \ {"idle"}, pc[r] # "idle",
         Goto(r, label), UNCHANGED <<lease, answer>>
  PROVE  Asked' = Asked /\ Replied' = Replied
BY DEF IInv, TypeOK, Goto, Asked, Replied

\* A refused lease is denied, or looks for the last-known-good unseen.
LEMMA RefusedOutside ==
  ASSUME IInv, HInv, NEW r \in Resolvers, NEW status \in {"failed_closed", "rejected"},
         pc[r] \notin {"idle", "active", "lkg"}, Refuse(r, status),
         UNCHANGED <<signed, active, lkgFile, holder>>
  PROVE  Promised!Next \/ UNCHANGED <<Asked, Replied>>
<1>1. CASE lease[r].lkg
  BY <1>1, NothingOutside DEF Refuse, Labels
<1>2. CASE ~lease[r].lkg
  <2>1. NotReady(status).status = status /\ NotReady(status).ctx = NoPolicy
    BY DEF NotReady, NoAnswer
  <2>2. Promised!Answers(r, Promised!Reply(status, NoPolicy))
    BY <1>2, <2>1, AnsweredOutside DEF Refuse, Promised!Reply
  <2>3. Asked[r] = {lease[r]} /\ lease[r] \in Leases /\ holder # r
    BY DEF IInv, TypeOK, Asked, HInv
  <2>4. Promised!Deny(r, lease[r])
    BY <1>2, <2>2, <2>3 DEF Promised!Deny
  <2> QED BY <2>3, <2>4 DEF Promised!Next
<1> QED BY <1>1, <1>2

LEMMA StepOutside ==
  ASSUME IInv, VInv, FInv, CInv, HInv, NEW r \in Resolvers, Step(r)
  PROVE  Promised!Next \/ UNCHANGED Promised!vars
<1> USE DEF IInv, TypeOK
<1>0. pc[r] # "idle" /\ Asked[r] = {lease[r]} /\ lease[r] \in Leases
  BY DEF Step, Locate, VerifyHash, ReadArtifact, VerifySignature, Parse, Activate,
         PersistActive, PersistLkg, PersistFails, Fallback, Asked
<1>1. CASE Locate(r) \/ VerifyHash(r) \/ ReadArtifact(r) \/ VerifySignature(r) \/ Parse(r)
  <2>1. UNCHANGED <<signed, active, lkgFile, holder>> /\ pc[r] \notin {"idle", "active", "lkg"}
    BY <1>1 DEF Locate, VerifyHash, ReadArtifact, VerifySignature, Parse, disk, history
  <2>2. \/ \E status \in {"failed_closed", "rejected"} : Refuse(r, status)
        \/ /\ \E label \in Labels \ {"idle"} : Goto(r, label)
           /\ UNCHANGED <<lease, answer>>
    BY <1>1 DEF Locate, VerifyHash, ReadArtifact, VerifySignature, Parse, Labels
  <2>3. Promised!Next \/ UNCHANGED <<Asked, Replied>>
    BY <2>1, <2>2, RefusedOutside, NothingOutside
  <2> QED BY <2>1, <2>3 DEF Promised!vars
<1>2. CASE Activate(r)
  <2>1. Asked' = Asked /\ Replied' = Replied
    BY <1>0, <1>2, NothingOutside DEF Activate, Labels
  <2>2. read[r] = lease[r].hash /\ lease[r].hash \in signed
    BY <1>2 DEF Activate, VInv, Seen, Activating
  <2>3. Promised!Activate(r, lease[r])
    BY <1>0, <1>2, <2>1, <2>2
       DEF Activate, LockIsFree, Resolved, Promised!Activate, Promised!Named, disk
  <2> QED BY <1>0, <2>3 DEF Promised!Next
<1>3. CASE PersistActive(r)
  <2>1. Asked' = Asked /\ Replied' = Replied
    BY <1>0, <1>3, NothingOutside DEF PersistActive, Labels
  <2> QED BY <1>3, <2>1 DEF PersistActive, history, Promised!vars
<1>4. CASE PersistLkg(r)
  <2>1. holder = r /\ active = Resolved(r)
    BY <1>4 DEF PersistLkg, CInv
  <2>2. Resolved(r) = Promised!Named(lease[r])
    BY <1>4 DEF PersistLkg, VInv, Seen, Activating, Resolved, Promised!Named
  <2>3. Promised!Answers(r, Promised!Reply("activated", active))
    <3>1. Ready(r, "activated", Resolved(r)).status = "activated"
          /\ Ready(r, "activated", Resolved(r)).ctx = active
      BY <2>1 DEF Ready
    <3> QED BY <1>4, <3>1, AnsweredOutside DEF PersistLkg, Promised!Reply
  <2>4. Promised!Keep(r, lease[r])
    BY <1>0, <1>4, <2>1, <2>2, <2>3 DEF PersistLkg, Promised!Keep
  <2> QED BY <1>0, <2>4 DEF Promised!Next
<1>5. CASE PersistFails(r)
  <2>1. holder = r
    BY <1>5 DEF PersistFails, CInv
  <2>2. NotReady("error").status = "error" /\ NotReady("error").ctx = NoPolicy
    BY DEF NotReady, NoAnswer
  <2>3. Promised!Answers(r, Promised!Reply("error", NoPolicy))
    BY <1>5, <2>2, AnsweredOutside DEF PersistFails, Promised!Reply
  <2>4. Promised!GiveUp(r)
    BY <1>5, <2>1, <2>3 DEF PersistFails, Promised!GiveUp, disk, history
  <2> QED BY <2>4 DEF Promised!Next
<1>6. CASE Fallback(r)
  <2>1. holder # r /\ lease[r].lkg /\ UNCHANGED <<signed, active, lkgFile, holder>>
    BY <1>6 DEF Fallback, HInv, FInv, disk, history
  <2>2. CASE lkgFile = NoPolicy
    <3>1. NotReady("failed_closed").status = "failed_closed"
          /\ NotReady("failed_closed").ctx = NoPolicy
      BY DEF NotReady, NoAnswer
    <3>2. Promised!Answers(r, Promised!Reply("failed_closed", NoPolicy))
      BY <1>6, <2>2, <3>1, AnsweredOutside DEF Fallback, Promised!Reply
    <3>3. Promised!Deny(r, lease[r])
      BY <1>0, <2>1, <2>2, <3>2 DEF Promised!Deny
    <3> QED BY <1>0, <3>3 DEF Promised!Next
  <2>3. CASE lkgFile # NoPolicy
    <3>1. Ready(r, "degraded_ready", lkgFile).status = "degraded_ready"
          /\ Ready(r, "degraded_ready", lkgFile).ctx = lkgFile
      BY DEF Ready
    <3>2. Promised!Answers(r, Promised!Reply("degraded_ready", lkgFile))
      BY <1>6, <2>3, <3>1, AnsweredOutside DEF Fallback, Promised!Reply
    <3>3. Promised!Degrade(r, lease[r])
      BY <1>0, <2>1, <2>3, <3>2 DEF Promised!Degrade
    <3> QED BY <1>0, <3>3 DEF Promised!Next
  <2> QED BY <2>2, <2>3
<1> QED BY <1>1, <1>2, <1>3, <1>4, <1>5, <1>6 DEF Step

LEMMA NextOutside ==
  IInv /\ VInv /\ FInv /\ CInv /\ HInv /\ [Next]_vars => [Promised!Next]_(Promised!vars)
<1> SUFFICES ASSUME IInv, VInv, FInv, CInv, HInv, [Next]_vars
             PROVE  Promised!Next \/ UNCHANGED Promised!vars
  OBVIOUS
<1> USE DEF IInv, TypeOK
<1>1. ASSUME NEW r \in Resolvers, Step(r) PROVE Promised!Next \/ UNCHANGED Promised!vars
  BY <1>1, StepOutside
<1>2. ASSUME NEW r \in Resolvers, NEW l \in Leases, Request(r, l) PROVE Promised!Next
  <2>1. Asked[r] = {} /\ Asked' = [Asked EXCEPT ![r] = {l}]
    BY <1>2 DEF Request, Goto, Asked
  <2>2. Replied' = [Replied EXCEPT ![r] = Promised!Reply("none", NoPolicy)]
    BY <1>2 DEF Request, Replied, NoAnswer, Promised!Reply
  <2>3. Promised!Ask(r, l)
    BY <1>2, <2>1, <2>2 DEF Request, Promised!Ask, disk, history
  <2> QED BY <2>3 DEF Promised!Next
<1>3. ASSUME NEW v \in Versions, Sign(v) PROVE Promised!Next
  <2>1. Asked' = Asked /\ Replied' = Replied
    BY <1>3 DEF Sign, Asked, Replied, locals
  <2>2. repo[v].artifact \in Artifacts
    BY <1>3 DEF Sign
  <2>3. Promised!Sign(repo[v].artifact)
    BY <1>3, <2>1 DEF Sign, Promised!Sign
  <2> QED BY <2>2, <2>3 DEF Promised!Next
<1>4. ASSUME NEW v \in Versions, NEW a \in Artifacts \cup {Missing}, Publish(v, a)
      PROVE  UNCHANGED Promised!vars
  BY <1>4 DEF Publish, Asked, Replied, locals, history, Promised!vars
<1>5. CASE SetGitUnavailable
  BY <1>5 DEF SetGitUnavailable, Asked, Replied, disk, locals, history, Promised!vars
<1>6. CASE Crash
  <2>1. Asked' = [r \in Resolvers |-> {}]
    BY <1>6 DEF Crash, Asked
  <2>2. Replied' = [r \in Resolvers |-> Promised!Reply("none", NoPolicy)]
    BY <1>6 DEF Crash, Replied, NoAnswer, Promised!Reply
  <2>3. Promised!Restart
    BY <1>6, <2>1, <2>2 DEF Crash, Promised!Restart, disk, history
  <2> QED BY <2>3 DEF Promised!Next
<1>7. CASE UNCHANGED vars
  BY <1>7 DEF vars, Asked, Replied, disk, locals, history, Promised!vars
<1> QED BY <1>1, <1>2, <1>3, <1>4, <1>5, <1>6, <1>7 DEF Next

LEMMA InitOutside == Init => Promised!Init
<1> SUFFICES ASSUME Init PROVE Promised!Init
  OBVIOUS
<1>1. Asked = [r \in Resolvers |-> {}]
  BY DEF Init, Asked
<1>2. Replied = [r \in Resolvers |-> Promised!Reply("none", NoPolicy)]
  BY DEF Init, Replied, NoAnswer, Promised!Reply
<1> QED BY <1>1, <1>2 DEF Init, Promised!Init

\* Unless artifacts are replaced while they are resolved, resolutions that look
\* at the repository and at the cache file by file implement VerifiedPolicy.
THEOREM PromiseIsKept ==
  ASSUME "replace" \notin Faults
  PROVE  Spec => PromiseKept
<1>1. Init => IInv /\ VInv /\ FInv /\ CInv /\ HInv
  BY InitTyped, InitVerified, InitFailsClosed, InitAgrees, InitHeld
<1>2. IInv /\ VInv /\ FInv /\ CInv /\ HInv /\ [Next]_vars => (IInv /\ VInv /\ FInv /\ CInv /\ HInv)'
  BY NextTyped, NextVerified, NextFailsClosed, NextAgrees, NextHeld
<1> QED BY <1>1, <1>2, InitOutside, NextOutside, PTL DEF Spec, PromiseKept, Promised!Spec
=============================================================================
