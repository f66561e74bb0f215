----------------------------- MODULE PortalProofs -----------------------------
(***************************************************************************)
(* What the methods of the portal's state keep of its records, for any cap *)
(* on their number.                                                        *)
(***************************************************************************)
EXTENDS PortalState, SequenceTheorems, TLAPS

\* The portal's state with these sources, records and actions.
Portals(S, R, A) ==
  [sources : SUBSET S, containers : SUBSET S, blobs : SUBSET S,
   evidence : Seq(R), audit : Seq(R), actions : Seq(A), history : Seq(R)]

\* Nothing is among the records that was not there or is not the new one.
NoneAdded(old, new, r) ==
  \A i \in DOMAIN new : new[i] = r \/ \E k \in DOMAIN old : new[i] = old[k]

LEMMA NewestKept ==
  ASSUME NEW R, NEW old \in Seq(R), NEW r \in R
  PROVE  LET new == NewestOf(<<r>> \o old) IN
           /\ new \in Seq(R)
           /\ Holds(new, r)
           /\ \A x : Holds(old, x) => Holds(new, x)
           /\ NoneAdded(old, new, r)
<1> DEFINE all == <<r>> \o old
           new == NewestOf(all)
<1>1. /\ all \in Seq(R) /\ Len(all) = Len(old) + 1 /\ Len(old) \in Nat /\ all[1] = r
      /\ \A i \in 1 .. Len(old) : all[i + 1] = old[i]
  OBVIOUS
<1>2. \A i \in 1 .. Len(all) : i = 1 \/ (i - 1 \in 1 .. Len(old) /\ all[i] = old[i - 1])
  BY <1>1
<1>3. CASE Len(old) + 1 > RecordCap
  <2>1. new = SubSeq(all, 1, RecordCap) /\ RecordCap \in Nat /\ RecordCap <= Len(all)
    BY <1>1, <1>3, RecordCapAssumption DEF NewestOf
  <2>2. new \in Seq(R) /\ Len(new) = RecordCap /\ \A i \in 1 .. RecordCap : new[i] = all[i]
    <3> DEFINE n == RecordCap
    <3>1. n \in Int /\ 1 \in Int /\ 1 <= n /\ n - 1 + 1 = n
      BY RecordCapAssumption
    <3>2. \A i \in 1 .. n : all[i] \in R /\ 1 + i - 1 = i
      BY <1>1, <2>1, <3>1
    <3>3. /\ SubSeq(all, 1, n) \in Seq(R)
          /\ Len(SubSeq(all, 1, n)) = n
          /\ \A i \in 1 .. n : SubSeq(all, 1, n)[i] = all[1 + i - 1]
      <4> HIDE DEF all, n
      <4> QED BY <3>1, <3>2, SubSeqProperties
    <3> QED BY <2>1, <3>2, <3>3
  <2>3. NoneAdded(old, new, r)
    BY <1>1, <1>2, <2>1, <2>2 DEF NoneAdded
  <2> QED BY <2>2, <2>3 DEF Holds
<1>4. CASE ~(Len(old) + 1 > RecordCap)
  <2>1. new = all
    BY <1>1, <1>4 DEF NewestOf
  <2>2. Holds(new, r)
    BY <1>1, <2>1 DEF Holds
  <2>3. ASSUME NEW x, Holds(old, x) PROVE Holds(new, x)
    <3>1. PICK i \in 1 .. Len(old) : old[i] = x
      BY <1>1, <1>4, <2>3, RecordCapAssumption DEF Holds
    <3>2. i + 1 \in DOMAIN new /\ new[i + 1] = x
      BY <1>1, <2>1, <3>1
    <3> QED BY <3>2 DEF Holds
  <2>4. NoneAdded(old, new, r)
    BY <1>1, <1>2, <2>1 DEF NoneAdded
  <2> QED BY <1>1, <2>1, <2>2, <2>3, <2>4
<1> QED BY <1>3, <1>4

\* The inventory's methods leave the records alone, and keep the type.
LEMMA InventoryMethods ==
  ASSUME NEW S, NEW R, NEW A, NEW p \in Portals(S, R, A), NEW s \in S
  PROVE  /\ WithSource(p, s) \in Portals(S, R, A)
         /\ WithoutSource(p, s) \in Portals(S, R, A)
         /\ WithContainers(p, s) \in Portals(S, R, A)
         /\ WithBlobs(p, s) \in Portals(S, R, A)
         /\ \A q \in {WithSource(p, s), WithoutSource(p, s), WithContainers(p, s), WithBlobs(p, s)} :
              q.evidence = p.evidence /\ q.audit = p.audit
                /\ q.actions = p.actions /\ q.history = p.history
         /\ WithSource(p, s).sources = p.sources \cup {s}
         /\ WithSource(p, s).containers = p.containers
         /\ WithSource(p, s).blobs = p.blobs
         /\ WithoutSource(p, s).sources = p.sources \ {s}
         /\ WithoutSource(p, s).containers = p.containers \ {s}
         /\ WithoutSource(p, s).blobs = p.blobs \ {s}
         /\ WithContainers(p, s).sources = p.sources
         /\ WithContainers(p, s).containers = p.containers \cup {s}
         /\ WithContainers(p, s).blobs = p.blobs
         /\ WithBlobs(p, s).sources = p.sources
         /\ WithBlobs(p, s).containers = p.containers
         /\ WithBlobs(p, s).blobs = p.blobs \cup {s}
BY DEF Portals, WithSource, WithoutSource, WithContainers, WithBlobs

\* The records' methods add one to the newest of theirs, and leave all else.
LEMMA RecordMethods ==
  ASSUME NEW S, NEW R, NEW A, NEW p \in Portals(S, R, A), NEW r \in R, NEW a \in A
  PROVE  /\ WithEvidence(p, r) \in Portals(S, R, A)
         /\ WithAudit(p, r) \in Portals(S, R, A)
         /\ WithHistory(p, r) \in Portals(S, R, A)
         /\ WithAction(p, a) \in Portals(S, R, A)
         /\ \A q \in {WithEvidence(p, r), WithAudit(p, r), WithHistory(p, r), WithAction(p, a)} :
              q.sources = p.sources /\ q.containers = p.containers /\ q.blobs = p.blobs
         /\ \A q \in {WithEvidence(p, r), WithHistory(p, r), WithAction(p, a)} : q.audit = p.audit
         /\ \A q \in {WithAudit(p, r), WithHistory(p, r), WithAction(p, a)} : q.evidence = p.evidence
         /\ \A q \in {WithEvidence(p, r), WithAudit(p, r), WithHistory(p, r)} : q.actions = p.actions
         /\ \A q \in {WithEvidence(p, r), WithAudit(p, r), WithAction(p, a)} : q.history = p.history
         /\ WithEvidence(p, r).evidence = NewestOf(<<r>> \o p.evidence)
         /\ WithAudit(p, r).audit = NewestOf(<<r>> \o p.audit)
         /\ WithHistory(p, r).history = NewestOf(<<r>> \o p.history)
         /\ WithAction(p, a).actions = NewestOf(<<a>> \o p.actions)
<1>1. p.evidence \in Seq(R) /\ p.audit \in Seq(R) /\ p.actions \in Seq(A) /\ p.history \in Seq(R)
  BY DEF Portals
<1>2. /\ NewestOf(<<r>> \o p.evidence) \in Seq(R) /\ NewestOf(<<r>> \o p.audit) \in Seq(R)
      /\ NewestOf(<<a>> \o p.actions) \in Seq(A) /\ NewestOf(<<r>> \o p.history) \in Seq(R)
  BY <1>1, NewestKept
<1> QED BY <1>2 DEF Portals, WithEvidence, WithAudit, WithHistory, WithAction

LEMMA NothingRecorded == \A S, R, A : EmptyPortal \in Portals(S, R, A)
BY DEF EmptyPortal, Portals
=============================================================================
