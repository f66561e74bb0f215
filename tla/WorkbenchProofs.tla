---------------------------- MODULE WorkbenchProofs ----------------------------
(***************************************************************************)
(* Proofs about Workbench, for any number of requests, blobs and           *)
(* containers, any requests, both modes and all faults.                    *)
(***************************************************************************)
EXTENDS Workbench, PortalProofs

-----------------------------------------------------------------------------
(* The calls of a request.                                                 *)

LEMMA ElementsOf ==
  ASSUME NEW S, NEW s \in Seq(S), s # <<>>
  PROVE  /\ Head(s) \in S /\ Tail(s) \in Seq(S)
         /\ Elements(s) = {Head(s)} \cup Elements(Tail(s))
         /\ Len(s) <= 1 => Elements(Tail(s)) = {}
         /\ Len(s) > 1 => Tail(s) # <<>>
<1>1. /\ Head(s) \in S /\ Tail(s) \in Seq(S) /\ Len(Tail(s)) = Len(s) - 1
      /\ \A i \in 1 .. Len(Tail(s)) : Tail(s)[i] = s[i + 1]
  BY HeadTailProperties
<1>2. Head(s) = s[1] /\ Len(s) \in Nat /\ Len(s) >= 1
  OBVIOUS
<1>3. \A i \in 1 .. Len(s) : i = 1 \/ (i - 1 \in 1 .. Len(Tail(s)) /\ s[i] = Tail(s)[i - 1])
  BY <1>1, <1>2
<1>4. \A i \in 1 .. Len(Tail(s)) : i + 1 \in 1 .. Len(s)
  BY <1>1, <1>2
<1>5. DOMAIN s = 1 .. Len(s) /\ DOMAIN Tail(s) = 1 .. Len(Tail(s))
  BY <1>1
<1>6. Elements(s) = {Head(s)} \cup Elements(Tail(s))
  <2> HIDE DEF Elements
  <2>1. \A x \in Elements(s) : x = Head(s) \/ x \in Elements(Tail(s))
    BY <1>2, <1>3, <1>5 DEF Elements
  <2>2. Head(s) \in Elements(s)
    BY <1>2, <1>5 DEF Elements
  <2>3. \A x \in Elements(Tail(s)) : x \in Elements(s)
    BY <1>1, <1>4, <1>5 DEF Elements
  <2> QED BY <2>1, <2>2, <2>3
<1>7. Len(s) <= 1 => Elements(Tail(s)) = {}
  BY <1>1, <1>2, <1>5 DEF Elements
<1>8. Len(s) > 1 => Tail(s) # <<>>
  <2>1. Len(s) > 1 => Len(Tail(s)) # 0 /\ Len(<<>>) = 0
    BY <1>1, <1>2
  <2>2. Tail(s) = <<>> => Len(Tail(s)) = Len(<<>>)
    OBVIOUS
  <2> QED BY <2>1, <2>2
<1> QED BY <1>1, <1>6, <1>7, <1>8

LEMMA ElementsJoined ==
  ASSUME NEW S, NEW s \in Seq(S), NEW t \in Seq(S)
  PROVE  /\ s \o t \in Seq(S)
         /\ Elements(s \o t) = Elements(s) \cup Elements(t)
         /\ s # <<>> => s \o t # <<>>
<1>1. /\ s \o t \in Seq(S) /\ Len(s \o t) = Len(s) + Len(t) /\ Len(s) \in Nat /\ Len(t) \in Nat
      /\ \A i \in 1 .. Len(s) + Len(t) :
           (s \o t)[i] = IF i <= Len(s) THEN s[i] ELSE t[i - Len(s)]
  BY ConcatProperties
<1>2. /\ DOMAIN s = 1 .. Len(s) /\ DOMAIN t = 1 .. Len(t)
      /\ DOMAIN (s \o t) = 1 .. Len(s) + Len(t)
  BY <1>1
<1>3. \A i \in 1 .. Len(s) : i \in 1 .. Len(s) + Len(t) /\ (s \o t)[i] = s[i]
  BY <1>1
<1>4. \A i \in 1 .. Len(t) : i + Len(s) \in 1 .. Len(s) + Len(t) /\ (s \o t)[i + Len(s)] = t[i]
  BY <1>1
<1>5. \A i \in 1 .. Len(s) + Len(t) :
        \/ i \in 1 .. Len(s) /\ (s \o t)[i] = s[i]
        \/ i - Len(s) \in 1 .. Len(t) /\ (s \o t)[i] = t[i - Len(s)]
  BY <1>1
<1>6. \A x \in Elements(s \o t) : x \in Elements(s) \cup Elements(t)
  BY <1>2, <1>5 DEF Elements
<1>7. \A x \in Elements(s) : x \in Elements(s \o t)
  BY <1>2, <1>3 DEF Elements
<1>8. \A x \in Elements(t) : x \in Elements(s \o t)
  BY <1>2, <1>4 DEF Elements
<1>9. s # <<>> => s \o t # <<>>
  <2>1. s # <<>> => Len(s \o t) # 0 /\ Len(<<>>) = 0
    BY <1>1
  <2>2. s \o t = <<>> => Len(s \o t) = Len(<<>>)
    OBVIOUS
  <2> QED BY <2>1, <2>2
<1> QED BY <1>1, <1>6, <1>7, <1>8, <1>9

LEMMA ElementsListed ==
  /\ Elements(<<>>) = {}
  /\ \A a : Elements(<<a>>) = {a}
  /\ \A a, b, c : Elements(<<a, b, c>>) = {a, b, c}
<1>1. Elements(<<>>) = {}
  BY DEF Elements
<1>2. ASSUME NEW a PROVE Elements(<<a>>) = {a}
  <2>1. DOMAIN <<a>> = {1} /\ <<a>>[1] = a
    OBVIOUS
  <2> QED BY <2>1 DEF Elements
<1>3. ASSUME NEW a, NEW b, NEW c PROVE Elements(<<a, b, c>>) = {a, b, c}
  <2> DEFINE s == <<a, b, c>>
  <2>1. DOMAIN s = {1, 2, 3} /\ s[1] = a /\ s[2] = b /\ s[3] = c
    OBVIOUS
  <2> HIDE DEF s
  <2> QED BY <2>1 DEF Elements
<1> QED BY <1>1, <1>2, <1>3

\* What is called for which operation.
LEMMA CallsOf ==
  ASSUME NEW q \in Requests
  PROVE  /\ Writes(q) \in Seq(Calls)
         /\ q.op \in Mutations <=> Writes(q) # <<>>
         /\ "upload" \in Elements(Writes(q)) => q.op \in {"create_blob", "update_blob"}
         /\ "copy" \in Elements(Writes(q)) => q.op \in {"copy_blob", "move_blob"}
         /\ "drop" \in Elements(Writes(q)) => q.op = "delete_container"
         /\ "delete" \in Elements(Writes(q)) => q.op = "delete_blob"
<1>1. \A c \in Calls : <<c>> \in Seq(Calls) /\ <<c>> # <<>>
  OBVIOUS
<1>2. CASE q.op \in {"create_blob", "update_blob"}
  <2> DEFINE first == <<"upload">>
             more == IF q.extras THEN <<"headers", "metadata", "tags">> ELSE <<>>
  <2>1. Writes(q) = first \o more
    BY <1>2 DEF Writes
  <2>2. first \in Seq(Calls) /\ more \in Seq(Calls) /\ first # <<>>
    <3>1. {"upload", "headers", "metadata", "tags"} \subseteq Calls
      BY DEF Calls
    <3>2. <<"headers", "metadata", "tags">> \in Seq(Calls) /\ <<>> \in Seq(Calls)
      BY <3>1
    <3> QED BY <1>1, <3>1, <3>2
  <2>3. Elements(first) = {"upload"} /\ Elements(more) \subseteq {"headers", "metadata", "tags"}
    BY ElementsListed
  <2> HIDE DEF first, more
  <2> QED BY <1>2, <2>1, <2>2, <2>3, ElementsJoined DEF Mutations
<1>3. CASE q.op \notin {"create_blob", "update_blob"}
  <2> DEFINE call == CASE q.op = "set_metadata" -> "metadata"
                       [] q.op = "set_tags" -> "tags"
                       [] q.op \in {"copy_blob", "move_blob"} -> "copy"
                       [] q.op \in {"set_tier", "rehydrate_blob"} -> "tier"
                       [] q.op = "create_container" -> "create"
                       [] q.op = "delete_container" -> "drop"
                       [] q.op = "delete_blob" -> "delete"
  <2>1. CASE q.op \in Mutations
    <3>1. Writes(q) = <<call>> /\ call \in Calls
      BY <1>3, <2>1 DEF Writes, Mutations, Calls
    <3>2. Elements(Writes(q)) = {call}
      BY <3>1, ElementsListed
    <3>3. /\ call = "copy" => q.op \in {"copy_blob", "move_blob"}
          /\ call = "drop" => q.op = "delete_container"
          /\ call = "delete" => q.op = "delete_blob"
          /\ call # "upload"
      BY <1>3, <2>1 DEF Mutations
    <3> HIDE DEF call
    <3> QED BY <1>1, <2>1, <3>1, <3>2, <3>3
  <2>2. CASE q.op \notin Mutations
    <3>1. Writes(q) = <<>>
      BY <1>3, <2>2 DEF Writes, Mutations
    <3>2. Elements(Writes(q)) = {}
      BY <3>1, ElementsListed
    <3> QED BY <2>2, <3>1, <3>2
  <2> QED BY <2>1, <2>2
<1> QED BY <1>2, <1>3

-----------------------------------------------------------------------------
(* The inductive invariant: where a request stands tells what it has done.   *)

Portal == Portals({Source}, Records, ActionRecords)

\* All that a request must make of the account.
All(h) == Elements(Writes(request[h]))

Standing(h) ==
  /\ pc[h] \in {"ready", "intent", "check"} => written[h] = {}
  /\ pc[h] # "done" => answers[h] = "none"
  /\ pc[h] = "check" => /\ Op(h) = "create_blob"
                        /\ request[h].dry \/ todo[h] = Writes(request[h])
  /\ pc[h] = "write" => /\ todo[h] # <<>>
                        /\ written[h] \cup Elements(todo[h]) = All(h)
                        /\ Op(h) = "create_blob" => request[h].overwrite \/ vacant[h]
  /\ pc[h] = "write" \/ written[h] # {} =>
       /\ Mutates(h) /\ ~request[h].dry
       /\ NeedsConfirmation(Op(h)) => request[h].confirmed
  /\ pc[h] \in {"read", "record", "evidence", "audit", "action"} =>
       written[h] = IF Previews(h) THEN {} ELSE All(h)
  /\ pc[h] = "action" => Mutates(h)

TInv ==
  /\ StateOK
  /\ portal \in Portal
  /\ \A h \in Handlers : Standing(h)

LEMMA OthersStand ==
  ASSUME TInv, NEW h \in Handlers, Step(h), NEW g \in Handlers, g # h
  PROVE  /\ pc'[g] = pc[g] /\ request'[g] = request[g] /\ todo'[g] = todo[g]
         /\ answers'[g] = answers[g] /\ written'[g] = written[g] /\ vacant'[g] = vacant[g]
<1> USE DEF Goto, Answer, TInv, StateOK
<1>1. ASSUME NEW q \in Requests, Begin(h, q)
      PROVE  /\ pc'[g] = pc[g] /\ request'[g] = request[g] /\ todo'[g] = todo[g]
             /\ answers'[g] = answers[g] /\ written'[g] = written[g] /\ vacant'[g] = vacant[g]
  BY <1>1 DEF Begin
<1>2. CASE Refuse(h) \/ Prepare(h) \/ CheckExistence(h)
  BY <1>2 DEF Refuse, Prepare, CheckExistence
<1>3. CASE Write(h) \/ WriteFails(h) \/ Read(h)
  BY <1>3 DEF Write, WriteFails, Read
<1>4. CASE RecordInventory(h) \/ RecordEvidence(h) \/ RecordAudit(h) \/ RecordAction(h)
  BY <1>4 DEF RecordInventory, RecordEvidence, RecordAudit, RecordAction
<1> QED BY <1>1, <1>2, <1>3, <1>4 DEF Step

LEMMA StandingStep ==
  ASSUME TInv, NEW h \in Handlers, Step(h)
  PROVE  Standing(h)'
<1> USE DEF Goto, Answer, TInv, StateOK
<1>0. request[h] \in Requests /\ (Mutates(h) <=> Writes(request[h]) # <<>>)
        /\ (~Mutates(h) => All(h) = {})
  BY CallsOf, ElementsListed DEF Mutates, Op, All
<1>1. ASSUME NEW q \in Requests, Begin(h, q) PROVE Standing(h)'
  BY <1>1 DEF Begin, Standing
<1>2. CASE Refuse(h)
  BY <1>2 DEF Refuse, Standing, Mutates, Op
<1>3. CASE Prepare(h)
  <2>1. /\ pc[h] = "intent" /\ written[h] = {} /\ answers[h] = "none"
        /\ UNCHANGED <<request, written, vacant>>
    BY <1>3 DEF Prepare, Standing
  <2>2. CASE ~Previews(h) /\ NeedsConfirmation(Op(h)) /\ ~request[h].confirmed
    BY <1>3, <2>1, <2>2 DEF Prepare, Standing, Mutates, Op
  <2>3. CASE ~(~Previews(h) /\ NeedsConfirmation(Op(h)) /\ ~request[h].confirmed)
    <3>1. /\ todo'[h] = IF request[h].dry THEN <<>> ELSE Writes(request[h])
          /\ pc'[h] = IF ChecksExistence(h) THEN "check"
                      ELSE IF Previews(h) THEN "record"
                      ELSE IF Mutates(h) THEN "write" ELSE "read"
          /\ answers'[h] = "none"
      BY <1>3, <2>1, <2>3 DEF Prepare
    <3>2. CASE ChecksExistence(h)
      BY <2>1, <3>1, <3>2 DEF ChecksExistence, Standing, Mutates, Op
    <3>3. CASE ~ChecksExistence(h) /\ Previews(h)
      BY <2>1, <3>1, <3>3 DEF Standing, Previews, Mutates, Op
    <3>4. CASE ~ChecksExistence(h) /\ ~Previews(h) /\ Mutates(h)
      <4>1. pc'[h] = "write" /\ ~request[h].dry /\ todo'[h] = Writes(request[h])
        BY <3>1, <3>4 DEF Previews
      <4> QED BY <1>0, <2>1, <2>3, <3>1, <3>4, <4>1 DEF Standing, ChecksExistence, Mutates, Op, All
    <3>5. CASE ~ChecksExistence(h) /\ ~Previews(h) /\ ~Mutates(h)
      BY <1>0, <2>1, <3>1, <3>5 DEF Standing, Previews, Mutates, Op, All
    <3> QED BY <3>2, <3>3, <3>4, <3>5
  <2> QED BY <2>2, <2>3
<1>4. CASE CheckExistence(h)
  <2>1. /\ pc[h] = "check" /\ written[h] = {} /\ answers[h] = "none" /\ Op(h) = "create_blob"
        /\ request[h].dry \/ todo[h] = Writes(request[h])
        /\ UNCHANGED <<request, written, todo>>
    BY <1>4 DEF CheckExistence, Standing
  <2>2. Mutates(h) /\ ~NeedsConfirmation(Op(h))
    BY <2>1 DEF Mutates, Mutations, NeedsConfirmation
  <2>3. CASE IsThere(request[h].blob)
    BY <1>4, <2>1, <2>3 DEF CheckExistence, Standing, Mutates, Op
  <2>4. CASE ~IsThere(request[h].blob)
    <3>1. pc'[h] = (IF Previews(h) THEN "record" ELSE "write") /\ vacant'[h] /\ answers'[h] = "none"
      BY <1>4, <2>1, <2>4 DEF CheckExistence
    <3> QED BY <1>0, <2>1, <2>2, <3>1 DEF Standing, Previews, Mutates, Op, All
  <2> QED BY <2>3, <2>4
<1>5. CASE Write(h)
  <2>1. /\ pc[h] = "write" /\ todo[h] # <<>> /\ todo[h] \in Seq(Calls) /\ answers[h] = "none"
        /\ written[h] \cup Elements(todo[h]) = All(h)
        /\ Op(h) = "create_blob" => request[h].overwrite \/ vacant[h]
        /\ Mutates(h) /\ ~request[h].dry
        /\ NeedsConfirmation(Op(h)) => request[h].confirmed
    BY <1>5 DEF Write, Standing
  <2>2. /\ written'[h] = written[h] \cup {Head(todo[h])} /\ todo'[h] = Tail(todo[h])
        /\ pc'[h] = IF Len(todo[h]) > 1 THEN "write"
                    ELSE IF ReadsDetails(Op(h)) THEN "read" ELSE "record"
        /\ UNCHANGED <<request, answers, vacant>>
    BY <1>5 DEF Write
  <2>3. written'[h] \cup Elements(todo'[h]) = All(h)
    BY <2>1, <2>2, ElementsOf
  <2>4. CASE Len(todo[h]) > 1
    <3>1. todo'[h] # <<>> /\ pc'[h] = "write"
      BY <2>1, <2>2, <2>4, ElementsOf
    <3> QED BY <2>1, <2>2, <2>3, <3>1 DEF Standing, Mutates, Op, All
  <2>5. CASE ~(Len(todo[h]) > 1)
    <3>1. Len(todo[h]) <= 1
      BY <2>1, <2>5
    <3>2. Elements(todo'[h]) = {} /\ pc'[h] \in {"read", "record"}
      BY <2>1, <2>2, <2>5, <3>1, ElementsOf
    <3> QED BY <2>1, <2>2, <2>3, <3>2 DEF Standing, Mutates, Op, All, Previews
  <2> QED BY <2>4, <2>5
<1>6. CASE WriteFails(h)
  <2>1. pc'[h] = "done" /\ pc[h] = "write" /\ UNCHANGED request
    BY <1>6 DEF WriteFails
  <2> QED BY <2>1 DEF Standing, Mutates, Op
<1>7. CASE Read(h)
  BY <1>7 DEF Read, Standing, Mutates, Op, All, Previews
<1>8. CASE RecordInventory(h) \/ RecordEvidence(h)
  BY <1>8 DEF RecordInventory, RecordEvidence, Standing, Mutates, Op, All, Previews
<1>9. CASE RecordAudit(h) \/ RecordAction(h)
  BY <1>9 DEF RecordAudit, RecordAction, Standing, Mutates, Op, All, Previews
<1> QED BY <1>1, <1>2, <1>3, <1>4, <1>5, <1>6, <1>7, <1>8, <1>9 DEF Step

-----------------------------------------------------------------------------
(* Every variable keeps its type. *)

\* What a call makes of the account is typed.
LEMMA AccountTyped ==
  ASSUME StateOK, NEW h \in Handlers, NEW call \in Calls, CanDo(call, request[h])
  PROVE  /\ Done(call, request[h], h) \in [Blobs -> [Parts -> Setters] \cup {Absent}]
         /\ ContainersAfter(call, request[h]) \subseteq Containers
<1> DEFINE q == request[h]
           Kept == [Parts -> Setters] \cup {Absent}
<1>1. q.blob \in Blobs /\ q.target \in Blobs /\ h \in Setters
  BY WorkbenchAssumption DEF StateOK, RequestSet, Setters
<1>2. Holder[q.blob] \in Containers
  BY <1>1, WorkbenchAssumption
<1>3. blobs \in [Blobs -> Kept] /\ AllOf(h) \in Kept
  BY <1>1 DEF StateOK, AllOf
<1>4. ContainersAfter(call, q) \subseteq Containers
  BY <1>2 DEF ContainersAfter, StateOK
<1>5. \A b \in Blobs, x \in Kept : [blobs EXCEPT ![b] = x] \in [Blobs -> Kept]
  <2> HIDE DEF Kept
  <2> QED BY <1>3
<1>6. CASE call = "upload"
  <2>1. Done(call, q, h) = [blobs EXCEPT ![q.blob] = AllOf(h)]
    BY <1>6 DEF Done
  <2> QED BY <1>1, <1>3, <1>4, <1>5, <2>1
<1>7. CASE call = "copy"
  <2>1. blobs[q.blob] \in [Parts -> Setters]
    BY <1>1, <1>3, <1>7 DEF CanDo, IsThere
  <2>2. [blobs[q.blob] EXCEPT !.tags = h, !.tier = h] \in Kept
    BY <1>1, <2>1
  <2>3. Done(call, q, h) = [blobs EXCEPT ![q.target] = [blobs[q.blob] EXCEPT !.tags = h, !.tier = h]]
    BY <1>7 DEF Done
  <2> QED BY <1>1, <1>4, <1>5, <2>2, <2>3
<1>8. CASE call = "drop"
  <2>1. Done(call, q, h) = [b \in Blobs |-> IF Holder[b] = Holder[q.blob] THEN Absent ELSE blobs[b]]
    BY <1>8 DEF Done
  <2>2. Absent \in Kept /\ \A b \in Blobs : blobs[b] \in Kept
    BY <1>3
  <2> HIDE DEF Kept
  <2> QED BY <1>4, <2>1, <2>2 DEF Kept
<1>9. CASE call = "delete"
  <2>1. Done(call, q, h) = [blobs EXCEPT ![q.blob] = Absent]
    BY <1>9 DEF Done
  <2> QED BY <1>1, <1>4, <1>5, <2>1
<1>10. CASE call \in {"metadata", "tags", "tier"}
  <2>1. blobs[q.blob] \in [Parts -> Setters]
    BY <1>1, <1>3, <1>10 DEF CanDo, IsThere
  <2>2. [blobs[q.blob] EXCEPT ![call] = h] \in Kept
    BY <1>1, <2>1
  <2>3. Done(call, q, h) = [blobs EXCEPT ![q.blob] = [blobs[q.blob] EXCEPT ![call] = h]]
    BY <1>10 DEF Done
  <2> QED BY <1>1, <1>4, <1>5, <2>2, <2>3
<1>11. CASE call \in {"headers", "create"}
  <2>1. Done(call, q, h) = blobs
    BY <1>11 DEF Done
  <2> QED BY <1>3, <1>4, <2>1
<1> QED BY <1>6, <1>7, <1>8, <1>9, <1>10, <1>11 DEF Calls

LEMMA RecordsTyped ==
  ASSUME NEW h \in Handlers
  PROVE  /\ Denial(h) \in Records /\ Record(h, Status(h)) \in Records
         /\ Record(h, ActionStatus(Status(h))) \in ActionRecords
BY DEF Denial, Record, Records, Status, ActionStatus, ActionRecords

\* What the portal's methods make of its state.
LEMMA PortalAfter ==
  ASSUME NEW p \in Portal, NEW r \in Records, NEW a \in ActionRecords
  PROVE  /\ WithSource(p, Source) \in Portal /\ WithContainers(p, Source) \in Portal
         /\ WithBlobs(p, Source) \in Portal /\ WithHistory(p, r) \in Portal
         /\ WithEvidence(p, r) \in Portal /\ WithAudit(p, r) \in Portal
         /\ WithAction(p, a) \in Portal
<1>1. Source \in {Source}
  OBVIOUS
<1>2. /\ WithSource(p, Source) \in Portal /\ WithContainers(p, Source) \in Portal
      /\ WithBlobs(p, Source) \in Portal
  BY <1>1, InventoryMethods DEF Portal
<1>3. /\ WithHistory(p, r) \in Portal /\ WithEvidence(p, r) \in Portal
      /\ WithAudit(p, r) \in Portal /\ WithAction(p, a) \in Portal
  BY RecordMethods DEF Portal
<1> QED BY <1>2, <1>3

\* What an inventory's update and the history row make of it.
LEMMA InventoryAfter ==
  ASSUME portal \in Portal, NEW h \in Handlers, RecordInventory(h)
  PROVE  /\ portal' \in Portal
         /\ portal'.evidence = portal.evidence /\ portal'.audit = portal.audit
         /\ portal'.actions = portal.actions
         /\ portal'.history = NewestOf(<<Record(h, Status(h))>> \o portal.history)
<1> DEFINE listed == WithSource(portal, Source)
           held == IF ~Previews(h) /\ Op(h) \in {"list_containers", "create_container"}
                     THEN WithContainers(listed, Source) ELSE listed
           full == IF ~Previews(h) /\ (Op(h) = "list_blobs" \/ ReadsDetails(Op(h)))
                     THEN WithBlobs(held, Source) ELSE held
           Same(p) == p \in Portal /\ p.evidence = portal.evidence /\ p.audit = portal.audit
                        /\ p.actions = portal.actions /\ p.history = portal.history
<1>1. \A p \in Portal : Same(p) =>
        Same(WithSource(p, Source)) /\ Same(WithContainers(p, Source)) /\ Same(WithBlobs(p, Source))
  BY DEF Portal, Portals, WithSource, WithContainers, WithBlobs
<1>2. Same(listed)
  BY <1>1
<1>3. Same(held)
  BY <1>1, <1>2
<1>4. Same(full)
  BY <1>1, <1>3
<1>5. portal' = WithHistory(full, Record(h, Status(h)))
  BY DEF RecordInventory
<1> HIDE DEF full
<1>6. \A p \in Portal, r \in Records :
        /\ WithHistory(p, r) \in Portal
        /\ WithHistory(p, r).evidence = p.evidence /\ WithHistory(p, r).audit = p.audit
        /\ WithHistory(p, r).actions = p.actions
        /\ WithHistory(p, r).history = NewestOf(<<r>> \o p.history)
  <2> SUFFICES ASSUME NEW p \in Portal, NEW r \in Records
               PROVE  /\ WithHistory(p, r) \in Portal
                      /\ WithHistory(p, r).evidence = p.evidence /\ WithHistory(p, r).audit = p.audit
                      /\ WithHistory(p, r).actions = p.actions
                      /\ WithHistory(p, r).history = NewestOf(<<r>> \o p.history)
    OBVIOUS
  <2>1. [by |-> h, status |-> "executed"] \in ActionRecords
    BY DEF ActionRecords
  <2>2. WithHistory(p, r) \in Portal
    BY <2>1, PortalAfter
  <2> QED BY <2>2 DEF Portal, Portals, WithHistory
<1> QED BY <1>4, <1>5, <1>6, RecordsTyped

LEMMA TypeStep ==
  ASSUME TInv, NEW h \in Handlers, Step(h)
  PROVE  StateOK' /\ (portal \in Portal)'
<1> USE DEF Goto, Answer, TInv
<1>0. /\ Record(h, Status(h)) \in Records /\ Denial(h) \in Records
      /\ Record(h, ActionStatus(Status(h))) \in ActionRecords
  BY RecordsTyped
<1>1. ASSUME NEW q \in Requests, Begin(h, q) PROVE StateOK' /\ (portal \in Portal)'
  <2>1. portal' \in Portal
    BY <1>0, <1>1, PortalAfter DEF Begin
  <2> QED BY <1>1, <2>1 DEF Begin, StateOK, PortalOK, Labels, Portal, Portals
<1>2. CASE Refuse(h)
  BY <1>2 DEF Refuse, StateOK, Labels
<1>3. CASE Prepare(h)
  <2>1. Writes(request[h]) \in Seq(Calls) /\ <<>> \in Seq(Calls)
    BY CallsOf DEF StateOK
  <2> QED BY <1>3, <2>1 DEF Prepare, StateOK, Labels
<1>4. CASE CheckExistence(h)
  BY <1>4 DEF CheckExistence, StateOK, Labels
<1>5. CASE Write(h)
  <2>1. todo[h] \in Seq(Calls) /\ todo[h] # <<>>
    BY <1>5 DEF Write, Standing, StateOK
  <2>2. Head(todo[h]) \in Calls /\ Tail(todo[h]) \in Seq(Calls)
    BY <2>1, HeadTailProperties
  <2>3. /\ blobs' \in [Blobs -> [Parts -> Setters] \cup {Absent}] /\ containers' \subseteq Containers
    BY <1>5, <2>2, AccountTyped DEF Write
  <2> QED BY <1>5, <2>2, <2>3 DEF Write, StateOK, Labels
<1>6. CASE WriteFails(h)
  <2>1. todo[h] \in Seq(Calls) /\ todo[h] # <<>>
    BY <1>6 DEF WriteFails, Standing, StateOK
  <2>2. Head(todo[h]) \in Calls
    BY <2>1, HeadTailProperties
  <2>3. /\ blobs' \in [Blobs -> [Parts -> Setters] \cup {Absent}] /\ containers' \subseteq Containers
        /\ written' \in [Handlers -> SUBSET Calls]
    BY <1>6, <2>2, AccountTyped DEF WriteFails, StateOK
  <2> QED BY <1>6, <2>3 DEF WriteFails, StateOK, Labels
<1>7. CASE Read(h)
  BY <1>7 DEF Read, StateOK, Labels
<1>8. CASE RecordInventory(h)
  <2>1. portal' \in Portal
    BY <1>8, InventoryAfter
  <2> QED BY <1>8, <2>1 DEF RecordInventory, StateOK, PortalOK, Labels, Portal, Portals
<1>9. CASE RecordEvidence(h)
  <2>1. portal' \in Portal
    BY <1>0, <1>9, PortalAfter DEF RecordEvidence
  <2> QED BY <1>9, <2>1 DEF RecordEvidence, StateOK, PortalOK, Labels, Portal, Portals
<1>10. CASE RecordAudit(h)
  <2>1. portal' \in Portal
    BY <1>0, <1>10, PortalAfter DEF RecordAudit
  <2> QED BY <1>10, <2>1 DEF RecordAudit, StateOK, PortalOK, Labels, Portal, Portals
<1>11. CASE RecordAction(h)
  <2>1. portal' \in Portal
    BY <1>0, <1>11, PortalAfter DEF RecordAction
  <2> QED BY <1>11, <2>1 DEF RecordAction, Status, StateOK, PortalOK, Labels, Portal, Portals
<1> QED BY <1>1, <1>2, <1>3, <1>4, <1>5, <1>6, <1>7, <1>8, <1>9, <1>10, <1>11 DEF Step

\* So does the portal's file.
FInv == file \in Portal /\ behind \subseteq Handlers

LEMMA TInvStep == TInv /\ FInv /\ [Next]_vars => TInv'
<1> SUFFICES ASSUME TInv, FInv, [Next]_vars PROVE TInv'
  OBVIOUS
<1>1. ASSUME NEW h \in Handlers, Step(h) PROVE TInv'
  <2>1. ASSUME NEW g \in Handlers PROVE Standing(g)'
    <3>1. CASE g = h
      BY <1>1, <3>1, StandingStep
    <3>2. CASE g # h
      <4>1. /\ pc'[g] = pc[g] /\ request'[g] = request[g] /\ todo'[g] = todo[g]
            /\ answers'[g] = answers[g] /\ written'[g] = written[g] /\ vacant'[g] = vacant[g]
        BY <1>1, <3>2, OthersStand
      <4> QED BY <4>1 DEF TInv, Standing, Mutates, Op, All, Previews
    <3> QED BY <3>1, <3>2
  <2> QED BY <1>1, <2>1, TypeStep DEF TInv
<1>2. CASE \E b \in Blobs : OthersWrite(b)
  <2>1. PICK b \in Blobs : OthersWrite(b)
    BY <1>2
  <2>2. AllOf(Original) \in [Parts -> Setters]
    BY DEF AllOf, Setters
  <2> QED BY <2>1, <2>2 DEF OthersWrite, TInv, StateOK, Standing, Mutates, Op, All, Previews
<1>3. CASE Crash
  <2>1. EmptyPortal \in Portal
    BY NothingRecorded DEF Portal
  <2>2. portal' \in Portal
    BY <1>3, <2>1 DEF Crash, FInv
  <2>3. \A h \in Handlers : Standing(h)'
    BY <1>3 DEF Crash, TInv, StateOK, Standing, Mutates, Op
  <2>4. StateOK'
    BY <1>3, <2>2 DEF Crash, Begun, TInv, FInv, StateOK, PortalOK, Portal, Portals, Labels
  <2> QED BY <2>2, <2>3, <2>4 DEF TInv
<1>4. CASE UNCHANGED vars
  BY <1>4 DEF vars, TInv, StateOK, PortalOK, Portal, Standing, Mutates, Op, All, Previews
<1> QED BY <1>1, <1>2, <1>3, <1>4 DEF Next

LEMMA FInvStep == TInv /\ FInv /\ [Next]_vars /\ TInv' => FInv'
BY DEF Next, Saved, OthersWrite, Crash, vars, TInv, FInv, Portal

LEMMA InitTyped == Init => TInv /\ FInv
<1> SUFFICES ASSUME Init PROVE TInv /\ FInv
  OBVIOUS
<1>1. portal \in Portal
  BY NothingRecorded DEF Init, Portal
<1>2. AnyRequest \in Requests
  BY WorkbenchAssumption DEF AnyRequest
<1>3. AllOf(Original) \in [Parts -> Setters]
  BY DEF AllOf, Setters
<1>4. StateOK
  BY <1>1, <1>2, <1>3 DEF Init, StateOK, PortalOK, Labels, Portal, Portals
<1>5. \A h \in Handlers : Standing(h)
  BY DEF Init, Standing
<1> QED BY <1>1, <1>4, <1>5 DEF Init, TInv, FInv

LEMMA AlwaysTyped == Spec => [](TInv /\ FInv)
BY InitTyped, TInvStep, FInvStep, PTL DEF Spec

\* Every variable of Workbench keeps its type.
THEOREM WorkbenchTypeCorrect == Spec => []WorkbenchTypeOK
<1>1. TInv /\ FInv => WorkbenchTypeOK
  BY DEF TInv, FInv, WorkbenchTypeOK, FileOK, PortalOK, Portal, Portals
<1> QED BY <1>1, AlwaysTyped, PTL

-----------------------------------------------------------------------------
(* Who may change the account. *)

\* A denial is on record, unless a crash lost it.
OnRecord(h) == h \in wiped \/ Holds(portal.audit, Denial(h))

Authorized(h) ==
  pc[h] # "ready" /\ (pc[h] # "done" \/ written[h] # {}) =>
    Allowed(request[h]) \/ (mode = "audit" /\ OnRecord(h))

\* The audit rows of a state go over to the next one.
AuditGoes ==
  /\ wiped \subseteq wiped'
  /\ \A g \in Handlers : /\ Holds(portal.audit, Denial(g)) => Holds(portal'.audit, Denial(g))
                         /\ Holds(portal.audit, Record(g, Status(g))) =>
                              Holds(portal'.audit, Record(g, Status(g)))

LEMMA AuditKept ==
  ASSUME TInv, NEW h \in Handlers, Step(h)
  PROVE  AuditGoes
<1>1. CASE UNCHANGED <<portal, wiped>>
  BY <1>1 DEF AuditGoes
<1>2. ASSUME NEW r \in Records, portal' = WithAudit(portal, r), wiped' = wiped PROVE AuditGoes
  <2>1. portal.audit \in Seq(Records) /\ portal'.audit = NewestOf(<<r>> \o portal.audit)
    BY <1>2 DEF TInv, Portal, Portals, WithAudit
  <2> QED BY <1>2, <2>1, NewestKept DEF AuditGoes
<1>3. ASSUME portal'.audit = portal.audit, wiped' = wiped PROVE AuditGoes
  BY <1>3 DEF AuditGoes
<1>4. ASSUME NEW q \in Requests, Begin(h, q) PROVE AuditGoes
  BY <1>1, <1>2, <1>4, RecordsTyped DEF Begin
<1>5. CASE Refuse(h) \/ Prepare(h) \/ CheckExistence(h) \/ Write(h) \/ WriteFails(h) \/ Read(h)
  BY <1>1, <1>5 DEF Refuse, Prepare, CheckExistence, Write, WriteFails, Read
<1>6. CASE RecordInventory(h)
  BY <1>3, <1>6, InventoryAfter DEF RecordInventory, TInv
<1>7. CASE RecordEvidence(h)
  <2>1. portal'.audit = portal.audit /\ wiped' = wiped
    BY <1>7 DEF RecordEvidence, WithEvidence, TInv, Portal, Portals
  <2> QED BY <1>3, <2>1
<1>8. CASE RecordAudit(h)
  BY <1>2, <1>8, RecordsTyped DEF RecordAudit
<1>9. CASE RecordAction(h)
  <2>1. portal'.audit = portal.audit /\ wiped' = wiped
    BY <1>9 DEF RecordAction, WithAction, TInv, Portal, Portals
  <2> QED BY <1>3, <2>1
<1> QED BY <1>4, <1>5, <1>6, <1>7, <1>8, <1>9 DEF Step

LEMMA AuthorizedStep ==
  ASSUME TInv, \A g \in Handlers : Authorized(g), NEW h \in Handlers, Step(h)
  PROVE  \A g \in Handlers : Authorized(g)'
<1>0. mode' = mode
  BY DEF Step, Begin, Refuse, Prepare, CheckExistence, Write, WriteFails, Read,
         RecordInventory, RecordEvidence, RecordAudit, RecordAction
<1>1. AuditGoes
  BY AuditKept
<1>2. ASSUME NEW g \in Handlers, g # h PROVE Authorized(g)'
  <2>1. pc'[g] = pc[g] /\ request'[g] = request[g] /\ written'[g] = written[g]
    BY <1>2, OthersStand
  <2> QED BY <1>0, <1>1, <2>1 DEF Authorized, OnRecord, AuditGoes, Denial, Record
<1>3. Authorized(h)'
  <2> USE DEF Goto, Answer, TInv, StateOK
  <2>1. ASSUME NEW q \in Requests, Begin(h, q) PROVE Authorized(h)'
    <3>1. request'[h] = q /\ written'[h] = {} /\ wiped' = wiped
      BY <2>1 DEF Begin, Standing
    <3>2. CASE Allowed(q)
      BY <3>1, <3>2 DEF Authorized, Allowed
    <3>3. CASE ~Allowed(q) /\ mode = "enforce"
      BY <2>1, <3>1, <3>3 DEF Authorized, Begin
    <3>4. CASE ~Allowed(q) /\ mode # "enforce"
      <4>1. mode = "audit"
        BY <3>4, WorkbenchAssumption
      <4>2. portal' = WithAudit(portal, Denial(h))
        BY <2>1, <3>4 DEF Begin, MustAudit
      <4>3. portal.audit \in Seq(Records) /\ portal'.audit = NewestOf(<<Denial(h)>> \o portal.audit)
        BY <4>2 DEF Portal, Portals, WithAudit
      <4>4. Holds(portal'.audit, Denial(h))
        <5>1. \A r \in Records, old \in Seq(Records) : Holds(NewestOf(<<r>> \o old), r)
          BY NewestKept
        <5> QED BY <4>3, <5>1, RecordsTyped
      <4> QED BY <1>0, <4>1, <4>4 DEF Authorized, OnRecord, Denial, Record
    <3> QED BY <3>2, <3>3, <3>4
  <2>2. ASSUME ~(\E q \in Requests : Begin(h, q)) PROVE Authorized(h)'
    <3>1. /\ request'[h] = request[h] /\ pc[h] \notin {"ready", "done"}
      BY <2>2 DEF Step, Refuse, Prepare, CheckExistence, Write, WriteFails, Read,
                  RecordInventory, RecordEvidence, RecordAudit, RecordAction
    <3>2. Allowed(request[h]) \/ (mode = "audit" /\ OnRecord(h))
      BY <3>1 DEF Authorized
    <3> QED BY <1>0, <1>1, <3>1, <3>2 DEF Authorized, OnRecord, AuditGoes, Allowed, Denial, Record
  <2> QED BY <2>1, <2>2
<1> QED BY <1>2, <1>3

\* The same of the file, but for who changed the portal's state since.
FileAuthorized(h) ==
  pc[h] # "ready" /\ (pc[h] # "done" \/ written[h] # {}) =>
    \/ Allowed(request[h])
    \/ mode = "audit" /\ (h \in wiped \cup behind \/ Holds(file.audit, Denial(h)))

\* A save brings the file up to date; if it fails, its request is behind.
LEMMA FileAuthorizedStep ==
  ASSUME TInv, \A g \in Handlers : Authorized(g)' /\ FileAuthorized(g),
         NEW h \in Handlers, Step(h), Saved(h)
  PROVE  \A g \in Handlers : FileAuthorized(g)'
<1>0. mode' = mode /\ wiped' = wiped
  BY DEF Step, Begin, Refuse, Prepare, CheckExistence, Write, WriteFails, Read,
         RecordInventory, RecordEvidence, RecordAudit, RecordAction
<1>1. CASE file' = portal' /\ behind' = {}
  BY <1>1 DEF Authorized, OnRecord, FileAuthorized, Denial, Record
<1>2. CASE /\ file' = file
           /\ (behind' = behind /\ ~Saves(h)) \/ behind' = behind \cup {h}
  <2>1. ASSUME NEW g \in Handlers, g # h PROVE FileAuthorized(g)'
    <3>1. pc'[g] = pc[g] /\ request'[g] = request[g] /\ written'[g] = written[g]
      BY <2>1, OthersStand
    <3> QED BY <1>0, <1>2, <3>1 DEF FileAuthorized, Denial, Record
  <2>2. FileAuthorized(h)'
    <3>1. CASE h \in behind'
      BY <1>0, <3>1 DEF Authorized, FileAuthorized
    <3>2. CASE h \notin behind'
      <4>1. ~Saves(h)
        BY <1>2, <3>2
      <4>2. ASSUME NEW q \in Requests, Begin(h, q) PROVE FileAuthorized(h)'
        <5>1. request'[h] = q /\ pc[h] = "ready"
          BY <4>2 DEF Begin, TInv, StateOK
        <5>2. Allowed(q)
          BY <4>1, <5>1 DEF Saves, MustAudit
        <5> QED BY <5>1, <5>2 DEF FileAuthorized, Allowed
      <4>3. ASSUME ~(\E q \in Requests : Begin(h, q)) PROVE FileAuthorized(h)'
        <5>1. request'[h] = request[h] /\ pc[h] \notin {"ready", "done"}
          BY <4>3 DEF Step, Refuse, Prepare, CheckExistence, Write, WriteFails, Read,
                      RecordInventory, RecordEvidence, RecordAudit, RecordAction
        <5> QED BY <1>0, <1>2, <5>1 DEF FileAuthorized, Allowed, Denial, Record
      <4> QED BY <4>2, <4>3
    <3> QED BY <3>1, <3>2
  <2> QED BY <2>1, <2>2
<1> QED BY <1>1, <1>2 DEF Saved

AInv == \A h \in Handlers : Authorized(h) /\ FileAuthorized(h)

LEMMA AuthorizedNext == TInv /\ AInv /\ [Next]_vars => AInv'
<1> SUFFICES ASSUME TInv, AInv, [Next]_vars
             PROVE  \A h \in Handlers : Authorized(h)' /\ FileAuthorized(h)'
  BY DEF AInv
<1>1. ASSUME NEW h \in Handlers, Step(h), Saved(h)
      PROVE  \A g \in Handlers : Authorized(g)' /\ FileAuthorized(g)'
  BY <1>1, AuthorizedStep, FileAuthorizedStep DEF AInv
<1> USE DEF AInv, Authorized, FileAuthorized, OnRecord, Allowed, Denial, Record
<1>2. CASE \E b \in Blobs : OthersWrite(b)
  BY <1>2 DEF OthersWrite
<1>3. CASE Crash
  <2>1. /\ UNCHANGED <<mode, request, written>> /\ file' = portal'
        /\ \A h \in Handlers : pc'[h] # "ready" => pc[h] # "ready" /\ pc'[h] = "done"
    BY <1>3 DEF Crash
  <2>2. CASE wiped' = wiped \cup Begun
    BY <2>1, <2>2 DEF Begun
  <2>3. CASE portal' = file /\ wiped' = wiped \cup behind
    BY <2>1, <2>3
  <2> QED BY <1>3, <2>2, <2>3 DEF Crash
<1>4. CASE UNCHANGED vars
  BY <1>4 DEF vars
<1> QED BY <1>1, <1>2, <1>3, <1>4 DEF Next

\* Only confirmed requests of roles that are allowed, or are on record unless a
\* crash lost it, change the account.
THEOREM OnlyGovernedWrites == Spec => []WritesAreGoverned
<1>1. Init => AInv
  BY DEF Init, AInv, Authorized, FileAuthorized
<1>2. TInv /\ AInv => WritesAreGoverned
  <2> SUFFICES ASSUME TInv, NEW h \in Handlers, Authorized(h), written[h] # {}
               PROVE  /\ ~request[h].dry
                      /\ NeedsConfirmation(request[h].op) => request[h].confirmed
                      /\ \/ request[h].role \in AllowedRoles(request[h].op)
                         \/ mode = "audit" /\ (h \in wiped \/ Holds(portal.audit, Denial(h)))
    BY DEF WritesAreGoverned, AInv
  <2>1. Standing(h) /\ pc[h] # "ready"
    BY DEF TInv, Standing
  <2> QED BY <2>1 DEF Standing, Authorized, Allowed, OnRecord, Mutates, Op
<1> QED BY <1>1, <1>2, AuthorizedNext, AlwaysTyped, PTL DEF Spec

-----------------------------------------------------------------------------
(* What is recorded. *)

AllRecords(p) ==
  Elements(p.evidence) \cup Elements(p.audit) \cup Elements(p.actions) \cup Elements(p.history)

\* What a record says of the request that made it.
Says(r, h) ==
  /\ r.status \in {"ok", "executed"} => written[h] = All(h)
  /\ r.status \in {"preview", "planned"} => written[h] = {}

\* A record other than a denial is made when the calls are behind.
Truthful(h) ==
  \A r \in AllRecords(portal) : r.by = h /\ r.status # "denied" =>
     pc[h] \in {"evidence", "audit", "action", "done"} /\ Says(r, h)

\* The records of an answer are written in their order.
Complete(h) ==
  h \notin wiped =>
    /\ pc[h] \in {"audit", "action"} => Holds(portal.evidence, Record(h, Status(h)))
    /\ pc[h] = "action" => Holds(portal.audit, Record(h, Status(h)))
    /\ answers[h] \in {"ok", "preview"} =>
         /\ Holds(portal.evidence, Record(h, answers[h]))
         /\ Holds(portal.audit, Record(h, answers[h]))
         /\ Mutates(h) => Holds(portal.actions, Record(h, ActionStatus(answers[h])))

\* A record is held, and nothing is lost.
Grows(p, n) ==
  /\ \A x : /\ Holds(p.evidence, x) => Holds(n.evidence, x)
            /\ Holds(p.audit, x) => Holds(n.audit, x)
            /\ Holds(p.actions, x) => Holds(n.actions, x)

LEMMA NewestElements ==
  ASSUME NEW R, NEW old \in Seq(R), NEW r \in R
  PROVE  Elements(NewestOf(<<r>> \o old)) \subseteq {r} \cup Elements(old)
<1>1. NoneAdded(old, NewestOf(<<r>> \o old), r)
  BY NewestKept
<1> QED BY <1>1 DEF NoneAdded, Elements

\* What a step of a request adds to the records, and when.
Adds(h) ==
  /\ wiped' = wiped
  /\ Grows(portal, portal')
  /\ \E r \in Records \cup ActionRecords :
       /\ AllRecords(portal') \subseteq AllRecords(portal) \cup {r}
       /\ \/ AllRecords(portal') \subseteq AllRecords(portal)
          \/ r = Denial(h)
          \/ r = Record(h, Status(h)) /\ pc[h] \in {"record", "evidence", "audit"}
          \/ r = Record(h, ActionStatus(Status(h))) /\ pc[h] = "action"
  /\ pc[h] = "evidence" => Holds(portal'.evidence, Record(h, Status(h)))
  /\ pc[h] = "audit" => Holds(portal'.audit, Record(h, Status(h)))
  /\ pc[h] = "action" => Holds(portal'.actions, Record(h, ActionStatus(Status(h))))

LEMMA RecordsGrow ==
  ASSUME TInv, NEW h \in Handlers, Step(h)
  PROVE  Adds(h)
<1>0. /\ Record(h, Status(h)) \in Records /\ Denial(h) \in Records
      /\ Record(h, ActionStatus(Status(h))) \in ActionRecords
  BY RecordsTyped
<1>a. /\ portal.evidence \in Seq(Records) /\ portal.audit \in Seq(Records)
      /\ portal.actions \in Seq(ActionRecords) /\ portal.history \in Seq(Records)
  BY DEF TInv, Portal, Portals
<1>b. \A old \in Seq(Records), r \in Records :
        /\ Elements(NewestOf(<<r>> \o old)) \subseteq {r} \cup Elements(old)
        /\ Holds(NewestOf(<<r>> \o old), r)
        /\ \A x : Holds(old, x) => Holds(NewestOf(<<r>> \o old), x)
  BY NewestElements, NewestKept
<1>c. \A old \in Seq(ActionRecords), r \in ActionRecords :
        /\ Elements(NewestOf(<<r>> \o old)) \subseteq {r} \cup Elements(old)
        /\ Holds(NewestOf(<<r>> \o old), r)
        /\ \A x : Holds(old, x) => Holds(NewestOf(<<r>> \o old), x)
  BY NewestElements, NewestKept
<1>1. ASSUME UNCHANGED <<portal, wiped>>, pc[h] \notin {"evidence", "audit", "action"} PROVE Adds(h)
  BY <1>0, <1>1 DEF Adds, Grows
<1>2. ASSUME NEW q \in Requests, Begin(h, q) PROVE Adds(h)
  <2>1. pc[h] = "ready" /\ wiped' = wiped
    BY <1>2 DEF Begin
  <2>2. CASE MustAudit(q)
    <3>1. portal' = WithAudit(portal, Denial(h))
      BY <1>2, <2>2 DEF Begin
    <3>2. /\ portal'.audit = NewestOf(<<Denial(h)>> \o portal.audit)
          /\ portal'.evidence = portal.evidence /\ portal'.actions = portal.actions
          /\ portal'.history = portal.history
      BY <3>1 DEF WithAudit, TInv, Portal, Portals
    <3> QED BY <1>0, <1>a, <1>b, <2>1, <3>2 DEF Adds, Grows, AllRecords
  <2>3. CASE ~MustAudit(q)
    BY <1>1, <1>2, <2>1, <2>3 DEF Begin
  <2> QED BY <2>2, <2>3
<1>3. CASE Refuse(h) \/ Prepare(h) \/ CheckExistence(h) \/ Write(h) \/ WriteFails(h) \/ Read(h)
  BY <1>1, <1>3 DEF Refuse, Prepare, CheckExistence, Write, WriteFails, Read
<1>4. CASE RecordInventory(h)
  <2>1. pc[h] = "record" /\ wiped' = wiped
    BY <1>4 DEF RecordInventory
  <2>2. /\ portal'.history = NewestOf(<<Record(h, Status(h))>> \o portal.history)
        /\ portal'.evidence = portal.evidence /\ portal'.audit = portal.audit
        /\ portal'.actions = portal.actions
    BY <1>4, InventoryAfter DEF TInv
  <2> QED BY <1>0, <1>a, <1>b, <2>1, <2>2 DEF Adds, Grows, AllRecords
<1>5. CASE RecordEvidence(h)
  <2>1. pc[h] = "evidence" /\ wiped' = wiped /\ portal' = WithEvidence(portal, Record(h, Status(h)))
    BY <1>5 DEF RecordEvidence
  <2>2. /\ portal'.evidence = NewestOf(<<Record(h, Status(h))>> \o portal.evidence)
        /\ portal'.history = portal.history /\ portal'.audit = portal.audit
        /\ portal'.actions = portal.actions
    BY <2>1 DEF WithEvidence, TInv, Portal, Portals
  <2> QED BY <1>0, <1>a, <1>b, <2>1, <2>2 DEF Adds, Grows, AllRecords
<1>6. CASE RecordAudit(h)
  <2>1. pc[h] = "audit" /\ wiped' = wiped /\ portal' = WithAudit(portal, Record(h, Status(h)))
    BY <1>6 DEF RecordAudit
  <2>2. /\ portal'.audit = NewestOf(<<Record(h, Status(h))>> \o portal.audit)
        /\ portal'.history = portal.history /\ portal'.evidence = portal.evidence
        /\ portal'.actions = portal.actions
    BY <2>1 DEF WithAudit, TInv, Portal, Portals
  <2> QED BY <1>0, <1>a, <1>b, <2>1, <2>2 DEF Adds, Grows, AllRecords
<1>7. CASE RecordAction(h)
  <2>1. /\ pc[h] = "action" /\ wiped' = wiped
        /\ portal' = WithAction(portal, Record(h, ActionStatus(Status(h))))
    BY <1>7 DEF RecordAction
  <2>2. /\ portal'.actions = NewestOf(<<Record(h, ActionStatus(Status(h)))>> \o portal.actions)
        /\ portal'.history = portal.history /\ portal'.evidence = portal.evidence
        /\ portal'.audit = portal.audit
    BY <2>1 DEF WithAction, TInv, Portal, Portals
  <2> QED BY <1>0, <1>a, <1>c, <2>1, <2>2 DEF Adds, Grows, AllRecords
<1> QED BY <1>2, <1>3, <1>4, <1>5, <1>6, <1>7 DEF Step

\* Where a request goes on while its records are written.
LEMMA RecordingStep ==
  ASSUME TInv, NEW h \in Handlers, Step(h)
  PROVE  /\ pc[h] \in {"record", "evidence", "audit", "action"} =>
              /\ pc'[h] \in {"evidence", "audit", "action", "done"}
              /\ UNCHANGED <<written[h], request[h]>>
         /\ pc[h] # "done"
         /\ pc'[h] = "audit" => pc[h] = "evidence"
         /\ pc'[h] = "action" => pc[h] = "audit"
         /\ answers'[h] \in {"ok", "preview"} =>
              /\ answers'[h] = Status(h)
              /\ pc[h] = "action" \/ (pc[h] = "audit" /\ ~Mutates(h))
<1> USE DEF Goto, Answer, TInv, StateOK
<1>1. pc[h] # "done" => answers[h] = "none"
  BY DEF Standing
<1>2. ASSUME NEW q \in Requests, Begin(h, q)
      PROVE  pc[h] = "ready" /\ pc'[h] \in {"intent", "done"} /\ answers'[h] \notin {"ok", "preview"}
  BY <1>1, <1>2 DEF Begin
<1>3. CASE Refuse(h) \/ CheckExistence(h)
  BY <1>1, <1>3 DEF Refuse, CheckExistence
<1>4. CASE Prepare(h)
  BY <1>1, <1>4 DEF Prepare
<1>5. CASE Write(h)
  BY <1>1, <1>5 DEF Write
<1>6. CASE WriteFails(h) \/ Read(h)
  BY <1>1, <1>6 DEF WriteFails, Read
<1>7. CASE RecordInventory(h) \/ RecordEvidence(h)
  BY <1>1, <1>7 DEF RecordInventory, RecordEvidence
<1>8. CASE RecordAudit(h)
  BY <1>1, <1>8 DEF RecordAudit, Status, Previews
<1>9. CASE RecordAction(h)
  BY <1>1, <1>9 DEF RecordAction
<1> QED BY <1>2, <1>3, <1>4, <1>5, <1>6, <1>7, <1>8, <1>9 DEF Step

LEMMA TruthStep ==
  ASSUME TInv, \A g \in Handlers : Truthful(g), NEW h \in Handlers, Step(h)
  PROVE  \A g \in Handlers : Truthful(g)'
<1>1. PICK r \in Records \cup ActionRecords :
         /\ AllRecords(portal') \subseteq AllRecords(portal) \cup {r}
         /\ \/ AllRecords(portal') \subseteq AllRecords(portal)
            \/ r = Denial(h)
            \/ r = Record(h, Status(h)) /\ pc[h] \in {"record", "evidence", "audit"}
            \/ r = Record(h, ActionStatus(Status(h))) /\ pc[h] = "action"
  BY RecordsGrow DEF Adds
<1>2. AllRecords(portal)' = AllRecords(portal')
  BY DEF AllRecords, Elements
<1>3. ASSUME NEW g \in Handlers, g # h PROVE Truthful(g)'
  <2>1. pc'[g] = pc[g] /\ request'[g] = request[g] /\ written'[g] = written[g]
    BY <1>3, OthersStand
  <2>2. \A x \in AllRecords(portal') : x.by = g => x \in AllRecords(portal)
    BY <1>1, <1>3 DEF Denial, Record
  <2> QED BY <1>2, <2>1, <2>2 DEF Truthful, Says, All
<1>4. Truthful(h)'
  <2> SUFFICES ASSUME NEW x \in AllRecords(portal'), x.by = h, x.status # "denied"
               PROVE  pc'[h] \in {"evidence", "audit", "action", "done"} /\ Says(x, h)'
    BY <1>2 DEF Truthful
  <2>1. CASE x \in AllRecords(portal)
    <3>1. pc[h] \in {"evidence", "audit", "action", "done"} /\ Says(x, h)
      BY <2>1 DEF Truthful
    <3>2. /\ pc'[h] \in {"evidence", "audit", "action", "done"}
          /\ written'[h] = written[h] /\ request'[h] = request[h]
      BY <3>1, RecordingStep
    <3> QED BY <3>1, <3>2 DEF Says, All
  <2>2. CASE x \notin AllRecords(portal)
    <3>1. /\ pc[h] \in {"record", "evidence", "audit", "action"}
          /\ x.status \in {Status(h), ActionStatus(Status(h))}
      BY <1>1, <2>2 DEF Denial, Record
    <3>2. /\ pc'[h] \in {"evidence", "audit", "action", "done"}
          /\ written'[h] = written[h] /\ request'[h] = request[h]
      BY <3>1, RecordingStep
    <3>3. written[h] = IF Previews(h) THEN {} ELSE All(h)
      BY <3>1 DEF TInv, Standing
    <3>4. Says(x, h)
      BY <3>1, <3>3 DEF Says, Status, ActionStatus
    <3> QED BY <3>2, <3>4 DEF Says, All
  <2> QED BY <2>1, <2>2
<1> QED BY <1>3, <1>4

LEMMA CompleteStep ==
  ASSUME TInv, \A g \in Handlers : Complete(g), NEW h \in Handlers, Step(h)
  PROVE  \A g \in Handlers : Complete(g)'
<1>1. Adds(h)
  BY RecordsGrow
<1>2. /\ wiped' = wiped
      /\ \A x : /\ Holds(portal.evidence, x) => Holds(portal'.evidence, x)
                /\ Holds(portal.audit, x) => Holds(portal'.audit, x)
                /\ Holds(portal.actions, x) => Holds(portal'.actions, x)
  BY <1>1 DEF Adds, Grows
<1>3. ASSUME NEW g \in Handlers, g # h PROVE Complete(g)'
  <2>1. pc'[g] = pc[g] /\ request'[g] = request[g] /\ answers'[g] = answers[g]
    BY <1>3, OthersStand
  <2>2. Complete(g)
    OBVIOUS
  <2> QED BY <1>2, <2>1, <2>2 DEF Complete, Status, Previews, Mutates, Op, Record, ActionStatus
<1>4. Complete(h)'
  <2> SUFFICES ASSUME h \notin wiped PROVE Complete(h)'
    BY <1>2 DEF Complete
  <2>1. pc[h] \in {"record", "evidence", "audit", "action"} =>
          Status(h)' = Status(h) /\ (Mutates(h)' <=> Mutates(h))
    BY RecordingStep DEF Status, Previews, Mutates, Op
  <2>2. pc'[h] = "audit" => Holds(portal'.evidence, Record(h, Status(h)'))
    BY <1>1, <2>1, RecordingStep DEF Adds
  <2>3. pc'[h] = "action" => /\ Holds(portal'.evidence, Record(h, Status(h)'))
                            /\ Holds(portal'.audit, Record(h, Status(h)'))
    BY <1>1, <1>2, <2>1, RecordingStep DEF Adds, Complete
  <2>4. ASSUME answers'[h] \in {"ok", "preview"}
        PROVE  /\ Holds(portal'.evidence, Record(h, answers'[h]))
               /\ Holds(portal'.audit, Record(h, answers'[h]))
               /\ Mutates(h)' => Holds(portal'.actions, Record(h, ActionStatus(answers'[h])))
    <3>1. answers'[h] = Status(h) /\ (pc[h] = "action" \/ (pc[h] = "audit" /\ ~Mutates(h)))
      BY <2>4, RecordingStep
    <3>2. Holds(portal'.evidence, Record(h, Status(h)))
      BY <1>2, <3>1 DEF Complete
    <3>3. Holds(portal'.audit, Record(h, Status(h)))
      BY <1>1, <1>2, <3>1 DEF Complete, Adds
    <3>4. Mutates(h)' => Holds(portal'.actions, Record(h, ActionStatus(Status(h))))
      BY <1>1, <2>1, <3>1 DEF Adds
    <3> QED BY <3>1, <3>2, <3>3, <3>4
  <2> QED BY <2>2, <2>3, <2>4 DEF Complete, Record, ActionStatus
<1> QED BY <1>3, <1>4

\* The same of the file, but for who changed the portal's state since.
FileTruthful(h) ==
  \A r \in AllRecords(file) : r.by = h /\ r.status # "denied" =>
     pc[h] \in {"evidence", "audit", "action", "done"} /\ Says(r, h)

FileComplete(h) ==
  h \notin wiped \cup behind =>
    /\ pc[h] \in {"audit", "action"} => Holds(file.evidence, Record(h, Status(h)))
    /\ pc[h] = "action" => Holds(file.audit, Record(h, Status(h)))
    /\ answers[h] \in {"ok", "preview"} =>
         /\ Holds(file.evidence, Record(h, answers[h]))
         /\ Holds(file.audit, Record(h, answers[h]))
         /\ Mutates(h) => Holds(file.actions, Record(h, ActionStatus(answers[h])))

LEMMA FileRecordsStep ==
  ASSUME TInv, \A g \in Handlers : FileTruthful(g) /\ FileComplete(g),
         \A g \in Handlers : Truthful(g)' /\ Complete(g)',
         NEW h \in Handlers, Step(h), Saved(h)
  PROVE  \A g \in Handlers : FileTruthful(g)' /\ FileComplete(g)'
<1>0. wiped' = wiped
  BY RecordsGrow DEF Adds
<1>1. CASE file' = portal' /\ behind' = {}
  <2>1. AllRecords(file)' = AllRecords(portal)'
    BY <1>1 DEF AllRecords, Elements
  <2>2. ASSUME NEW g \in Handlers PROVE FileTruthful(g)'
    <3>1. Truthful(g)'
      OBVIOUS
    <3> QED BY <2>1, <3>1 DEF Truthful, FileTruthful
  <2>3. ASSUME NEW g \in Handlers PROVE FileComplete(g)'
    <3>1. Complete(g)'
      OBVIOUS
    <3> QED BY <1>1, <3>1 DEF Complete, FileComplete
  <2> QED BY <2>2, <2>3
<1>2. CASE /\ file' = file
           /\ (behind' = behind /\ ~Saves(h)) \/ behind' = behind \cup {h}
  <2>0. AllRecords(file)' = AllRecords(file)
    BY <1>2 DEF AllRecords, Elements
  <2>1. ASSUME NEW g \in Handlers, g # h PROVE FileTruthful(g)' /\ FileComplete(g)'
    <3>1. /\ pc'[g] = pc[g] /\ request'[g] = request[g] /\ written'[g] = written[g]
          /\ answers'[g] = answers[g]
      BY <2>1, OthersStand
    <3>2. FileTruthful(g)'
      BY <2>0, <3>1 DEF FileTruthful, Says, All
    <3>3. FileComplete(g)'
      BY <1>0, <1>2, <3>1 DEF FileComplete, Status, Previews, Mutates, Op, Record, ActionStatus
    <3> QED BY <3>2, <3>3
  <2>2. FileTruthful(h)'
    <3> SUFFICES ASSUME NEW x \in AllRecords(file), x.by = h, x.status # "denied"
                 PROVE  pc'[h] \in {"evidence", "audit", "action", "done"} /\ Says(x, h)'
      BY <2>0 DEF FileTruthful
    <3>1. pc[h] \in {"evidence", "audit", "action", "done"} /\ Says(x, h)
      BY DEF FileTruthful
    <3>2. /\ pc'[h] \in {"evidence", "audit", "action", "done"}
          /\ written'[h] = written[h] /\ request'[h] = request[h]
      BY <3>1, RecordingStep
    <3> QED BY <3>1, <3>2 DEF Says, All
  <2>3. FileComplete(h)'
    <3>1. CASE h \in behind'
      BY <3>1 DEF FileComplete
    <3>2. CASE h \notin behind'
      <4>1. pc[h] \notin {"record", "evidence", "audit", "action"}
        BY <1>2, <3>2 DEF Saves
      <4>2. pc'[h] \notin {"audit", "action"} /\ answers'[h] \notin {"ok", "preview"}
        BY <4>1, RecordingStep
      <4> QED BY <4>2 DEF FileComplete
    <3> QED BY <3>1, <3>2
  <2> QED BY <2>1, <2>2, <2>3
<1> QED BY <1>1, <1>2 DEF Saved

RInv == \A h \in Handlers : Truthful(h) /\ Complete(h) /\ FileTruthful(h) /\ FileComplete(h)

LEMMA RecordsNext == TInv /\ RInv /\ [Next]_vars => RInv'
<1> SUFFICES ASSUME TInv, RInv, [Next]_vars PROVE RInv'
  OBVIOUS
<1>1. ASSUME NEW h \in Handlers, Step(h), Saved(h) PROVE RInv'
  BY <1>1, TruthStep, CompleteStep, FileRecordsStep DEF RInv
<1>2. ASSUME UNCHANGED <<request, pc, written, answers, portal, wiped, file, behind>> PROVE RInv'
  BY <1>2 DEF RInv, Truthful, Complete, FileTruthful, FileComplete, Says, All, AllRecords,
              Elements, Status, Previews, Mutates, Op, Record, ActionStatus
<1>3. CASE \E b \in Blobs : OthersWrite(b)
  BY <1>2, <1>3 DEF OthersWrite
<1>4. CASE UNCHANGED vars
  BY <1>2, <1>4 DEF vars
<1>5. CASE Crash
  <2>1. /\ UNCHANGED <<request, written, answers>> /\ file' = portal' /\ behind' = {}
        /\ \A h \in Handlers : pc'[h] = pc[h] \/ (pc'[h] = "done" /\ pc[h] # "ready")
        /\ \A h \in Handlers : pc'[h] \in {"ready", "done"}
    BY <1>5 DEF Crash
  <2>2. ASSUME \A h \in Handlers : Truthful(h)' /\ Complete(h)' PROVE RInv'
    BY <2>1, <2>2 DEF RInv, Truthful, Complete, FileTruthful, FileComplete, Says, All, AllRecords,
                      Elements, Status, Previews, Mutates, Op, Record, ActionStatus
  <2>3. CASE portal' = file /\ wiped' = wiped \cup behind
    <3>1. AllRecords(portal)' = AllRecords(file)
      BY <2>3 DEF AllRecords, Elements
    <3>2. ASSUME NEW h \in Handlers PROVE Truthful(h)'
      <4>1. FileTruthful(h)
        BY DEF RInv
      <4> QED BY <2>1, <3>1, <4>1 DEF Truthful, FileTruthful, Says, All
    <3>3. ASSUME NEW h \in Handlers PROVE Complete(h)'
      <4>1. FileComplete(h)
        BY DEF RInv
      <4> QED BY <2>1, <2>3, <4>1 DEF Complete, FileComplete, Status, Previews, Mutates, Op,
                                      Record, ActionStatus
    <3> QED BY <2>2, <3>2, <3>3
  <2>4. CASE portal' = EmptyPortal /\ wiped' = wiped \cup Begun
    <3>1. AllRecords(portal)' = {}
      BY <2>4, ElementsListed DEF EmptyPortal, AllRecords, Elements
    <3>2. \A h \in Handlers : Truthful(h)'
      BY <3>1 DEF Truthful
    <3>3. ASSUME NEW h \in Handlers, h \notin wiped' PROVE pc[h] = "ready"
      BY <2>4, <3>3 DEF Begun
    <3>4. \A h \in Handlers : pc[h] = "ready" => answers[h] = "none"
      BY DEF TInv, Standing
    <3>5. \A h \in Handlers : Complete(h)'
      BY <2>1, <3>3, <3>4 DEF Complete
    <3> QED BY <2>2, <3>2, <3>5
  <2> QED BY <1>5, <2>3, <2>4 DEF Crash
<1> QED BY <1>1, <1>3, <1>4, <1>5 DEF Next

\* What is recorded of a request is what its calls did to the account, and who
\* is answered has all records, also after a crash, if its last change or any
\* later one was saved.
THEOREM OnlyTrueRecords == Spec => []RecordsAreTrue
<1>1. Init => RInv
  <2> SUFFICES ASSUME Init PROVE RInv
    OBVIOUS
  <2>1. AllRecords(portal) = {} /\ AllRecords(file) = {}
    BY ElementsListed DEF Init, EmptyPortal, AllRecords
  <2> QED BY <2>1 DEF Init, RInv, Truthful, Complete, FileTruthful, FileComplete
<1>2. RInv => RecordsAreTrue
  <2> SUFFICES ASSUME NEW h \in Handlers, Truthful(h), Complete(h)
               PROVE  /\ \A r \in AllRecords(portal) :
                           r.by = h =>
                             /\ r.status \in {"ok", "executed"} => written[h] = All(h)
                             /\ r.status \in {"preview", "planned"} => written[h] = {}
                      /\ answers[h] \in {"ok", "preview"} /\ h \notin wiped =>
                           /\ Holds(portal.evidence, Record(h, answers[h]))
                           /\ Holds(portal.audit, Record(h, answers[h]))
                           /\ Mutates(h) => Holds(portal.actions, Record(h, ActionStatus(answers[h])))
    BY DEF RInv, RecordsAreTrue, AllRecords, All
  <2>1. \A r \in AllRecords(portal) : r.by = h /\ r.status # "denied" => Says(r, h)
    BY DEF Truthful
  <2> QED BY <2>1 DEF Says, Complete
<1> QED BY <1>1, <1>2, RecordsNext, AlwaysTyped, PTL DEF Spec

-----------------------------------------------------------------------------
(* What may be replaced or removed. *)

Loses(b) == /\ IsThere(b)
            /\ blobs'[b] = Absent \/ blobs'[b].content # blobs[b].content

\* A call loses the content of no blob but the one it is meant for.
LEMMA CallLoses ==
  ASSUME TInv, NEW h \in Handlers, NEW b \in Blobs, pc[h] = "write",
         NEW call \in Calls, call \in All(h), CanDo(call, request[h]),
         blobs' = Done(call, request[h], h), Loses(b)
  PROVE  MayReplace(h, b)
<1> DEFINE q == request[h]
<1>1. q \in Requests /\ q.blob \in Blobs /\ q.target \in Blobs
  BY WorkbenchAssumption DEF TInv, StateOK, RequestSet
<1>2. blobs \in [Blobs -> [Parts -> Setters] \cup {Absent}] /\ blobs[b] # Absent
  BY DEF TInv, StateOK, Loses, IsThere
<1>3. blobs[b] \in [Parts -> Setters] /\ Absent \notin [Parts -> Setters]
  BY <1>2, WorkbenchAssumption DEF Setters
<1>4. /\ call = "upload" => q.op \in {"create_blob", "update_blob"}
      /\ call = "copy" => q.op \in {"copy_blob", "move_blob"}
      /\ call = "drop" => q.op = "delete_container"
      /\ call = "delete" => q.op = "delete_blob"
  BY <1>1, CallsOf DEF All
<1>5. q.op = "create_blob" => q.overwrite \/ vacant[h]
  BY DEF TInv, Standing, Op
<1>6. ASSUME blobs'[b] = blobs[b] PROVE FALSE
  BY <1>2, <1>6 DEF Loses
<1>7. CASE call = "upload"
  <2>1. b = q.blob
    BY <1>2, <1>6, <1>7 DEF Done
  <2> QED BY <1>4, <1>5, <1>7, <2>1 DEF MayReplace
<1>8. CASE call = "copy"
  <2>1. b = q.target
    BY <1>2, <1>6, <1>8 DEF Done
  <2> QED BY <1>4, <1>8, <2>1 DEF MayReplace
<1>9. CASE call = "drop"
  <2>1. Holder[b] = Holder[q.blob]
    BY <1>2, <1>6, <1>9 DEF Done
  <2> QED BY <1>4, <1>9, <2>1 DEF MayReplace
<1>10. CASE call = "delete"
  <2>1. b = q.blob
    BY <1>2, <1>6, <1>10 DEF Done
  <2> QED BY <1>4, <1>10, <2>1 DEF MayReplace
<1>11. CASE call \in {"metadata", "tags", "tier"}
  <2>1. blobs' = [blobs EXCEPT ![q.blob] = [blobs[q.blob] EXCEPT ![call] = h]]
    BY <1>11 DEF Done
  <2>2. b = q.blob
    BY <1>1, <1>2, <1>6, <2>1
  <2>3. blobs'[b] = [blobs[b] EXCEPT ![call] = h]
    BY <1>1, <1>2, <2>1, <2>2
  <2>4. [blobs[b] EXCEPT ![call] = h] \in [Parts -> Setters]
    BY <1>3 DEF Setters
  <2>5. [blobs[b] EXCEPT ![call] = h].content = blobs[b].content
    BY <1>3, <1>11 DEF Parts
  <2> QED BY <1>3, <2>3, <2>4, <2>5 DEF Loses
<1>12. CASE call \in {"headers", "create"}
  BY <1>6, <1>12 DEF Done
<1> QED BY <1>7, <1>8, <1>9, <1>10, <1>11, <1>12 DEF Calls

\* A step that loses the content of a blob is a call of a request to that end.
LEMMA StepLoses ==
  ASSUME TInv, NEW h \in Handlers, Step(h), NEW b \in Blobs, Loses(b)
  PROVE  pc[h] = "write" /\ ~UNCHANGED <<pc[h], todo[h]>> /\ MayReplace(h, b)
<1>1. blobs' # blobs
  BY DEF Loses, IsThere
<1>2. Write(h) \/ WriteFails(h)
  BY <1>1 DEF Step, Begin, Refuse, Prepare, CheckExistence, Read,
              RecordInventory, RecordEvidence, RecordAudit, RecordAction
<1>3. /\ pc[h] = "write" /\ todo[h] # <<>> /\ todo[h] \in Seq(Calls)
      /\ Elements(todo[h]) \subseteq All(h)
  BY <1>2 DEF Write, WriteFails, TInv, StateOK, Standing
<1>4. Head(todo[h]) \in Calls /\ Head(todo[h]) \in All(h)
  BY <1>3, ElementsOf
<1>5. /\ CanDo(Head(todo[h]), request[h])
      /\ blobs' = Done(Head(todo[h]), request[h], h)
  BY <1>1, <1>2 DEF Write, WriteFails
<1>6. MayReplace(h, b)
  BY <1>3, <1>4, <1>5, CallLoses
<1>7. ~UNCHANGED <<pc[h], todo[h]>>
  <2>1. CASE Write(h)
    <3>1. todo'[h] = Tail(todo[h])
      BY <2>1 DEF Write, TInv, StateOK
    <3>2. Len(Tail(todo[h])) = Len(todo[h]) - 1 /\ Len(todo[h]) \in Nat
      BY <1>3, HeadTailProperties
    <3>3. todo'[h] # todo[h]
      <4>1. Len(todo'[h]) # Len(todo[h])
        BY <3>1, <3>2
      <4> QED BY <4>1
    <3> QED BY <3>3
  <2>2. CASE WriteFails(h)
    <3>1. pc'[h] = "done"
      BY <2>2 DEF WriteFails, Answer, TInv, StateOK
    <3> QED BY <1>3, <3>1
  <2> QED BY <1>2, <2>1, <2>2
<1> QED BY <1>3, <1>6, <1>7

\* No content is lost but by others, and by requests that were asked to
\* replace or remove it or had found its place vacant.
THEOREM NothingIsLostUnasked == Spec => NothingLostUnasked
<1>1. TInv /\ [Next]_vars =>
        [\A b \in Blobs :
           /\ IsThere(b)
           /\ blobs'[b] = Absent \/ blobs'[b].content # blobs[b].content
           => \/ \E h \in Handlers : pc[h] = "write" /\ ~UNCHANGED <<pc[h], todo[h]>> /\ MayReplace(h, b)
              \/ UNCHANGED <<pc, todo>>]_vars
  <2> SUFFICES ASSUME TInv, Next, NEW b \in Blobs, Loses(b), ~UNCHANGED <<pc, todo>>
               PROVE  \E h \in Handlers : pc[h] = "write" /\ ~UNCHANGED <<pc[h], todo[h]>> /\ MayReplace(h, b)
    BY DEF Loses
  <2>1. PICK h \in Handlers : Step(h)
    <3>1. ~(\E c \in Blobs : OthersWrite(c))
      BY DEF OthersWrite
    <3>2. ~Crash
      BY DEF Crash, Loses, IsThere
    <3> QED BY <3>1, <3>2 DEF Next
  <2> QED BY <2>1, StepLoses
<1> QED BY <1>1, AlwaysTyped, PTL DEF Spec, NothingLostUnasked
=============================================================================
