---------------------------- MODULE InventoryProofs ----------------------------
(***************************************************************************)
(* Proofs about SourceInventory, for any number of requests and sources,   *)
(* all kinds of requests and all faults.                                   *)
(***************************************************************************)
EXTENDS SourceInventory, PortalProofs

-----------------------------------------------------------------------------
(* Where a request of each kind can stand.                                 *)

Portal == Portals(Sources, Handlers, Handlers)

\* What the labels tell of a request.
Standing(h) ==
  /\ pc[h] \in {"secret", "store"} => Kind(h) \in {"save", "amend", "access", "delete"}
  /\ pc[h] \in {"get", "update"} => Kind(h) \in {"save", "amend", "configure", "access"}
  /\ pc[h] \in {"unconfigure", "remove"} => Kind(h) = "delete"
  /\ pc[h] = "connect" => Kind(h) \in {"scan", "discover", "test"}
  /\ pc[h] = "list" => Kind(h) \in {"scan", "seed", "discover", "test"}
  /\ pc[h] = "reread" => Kind(h) \in {"save", "amend", "configure", "discover", "test", "options"}
  /\ pc[h] \in {"upsert", "containers", "upsert_blobs", "blobs"} =>
       Kind(h) \notin {"delete", "reset", "reset_all"}
  /\ pc[h] \in {"count", "evidence"} => Kind(h) \in {"scan", "seed"}
  /\ pc[h] \in {"upsert_blobs", "blobs"} => Kind(h) \in {"scan", "seed", "import", "merge"}
  /\ pc[h] = "containers" => Kind(h) \in {"scan", "seed", "discover", "import", "merge"}
  /\ pc[h] = "wipe" => Kind(h) \in {"reset", "reset_all", "import"}
  /\ pc[h] \in {"local", "unlink"} => Kind(h) \in {"reset", "reset_all"}
  /\ pc[h] = "restore" => Kind(h) \in {"import", "merge"}

\* What it has yet to store, and the source of a scan.
Carrying(h) ==
  /\ pc[h] \in {"secret", "store", "restore"} => todo[h] # <<>>
  /\ pc[h] \in {"wipe", "restore"} /\ Kind(h) \in {"import", "merge"} =>
       todo[h] \in Seq(Sources) /\ todo[h] # <<>>
  /\ pc[h] = "list" /\ Kind(h) = "scan" => seen[h].source \in Sources
  /\ answers[h] # "none" => pc[h] = "done"

TInv ==
  /\ StateOK
  /\ portal \in Portal
  /\ \A h \in Handlers : Standing(h) /\ Carrying(h)

LEMMA TailLasts ==
  ASSUME NEW S, NEW s \in Seq(S), Len(s) > 1
  PROVE  Tail(s) \in Seq(S) /\ Tail(s) # <<>>
<1>1. s # <<>>
  OBVIOUS
<1>2. Tail(s) \in Seq(S) /\ Len(Tail(s)) = Len(s) - 1
  BY <1>1, HeadTailProperties
<1>3. Len(Tail(s)) # 0 /\ Len(<<>>) = 0
  BY <1>2
<1>4. Tail(s) = <<>> => Len(Tail(s)) = Len(<<>>)
  OBVIOUS
<1> QED BY <1>2, <1>3, <1>4

-----------------------------------------------------------------------------
(* What a step leaves alone. *)

\* A step of one request leaves what the others know.
LEMMA OthersStand ==
  ASSUME TInv, NEW h \in Handlers, Step(h), NEW g \in Handlers, g # h
  PROVE  /\ pc'[g] = pc[g] /\ request'[g] = request[g] /\ seen'[g] = seen[g]
         /\ source'[g] = source[g] /\ todo'[g] = todo[g] /\ copy'[g] = copy[g]
         /\ answers'[g] = answers[g]
<1> USE DEF Goto, Answer, TInv, StateOK
<1>1. ASSUME NEW q \in Requests, Begin(h, q) PROVE pc'[g] = pc[g] /\ request'[g] = request[g] /\ seen'[g] = seen[g]
         /\ source'[g] = source[g] /\ todo'[g] = todo[g] /\ copy'[g] = copy[g]
         /\ answers'[g] = answers[g]
  BY <1>1 DEF Begin
<1>2. CASE ReadSecrets(h) \/ WriteSecrets(h) \/ WriteSecretsFails(h)
  BY <1>2 DEF ReadSecrets, WriteSecrets, WriteSecretsFails
<1>3. CASE GetConfig(h) \/ UpdateConfig(h) \/ Unconfigure(h) \/ RemoveSource(h)
  BY <1>3 DEF GetConfig, UpdateConfig, Unconfigure, RemoveSource
<1>4. CASE Connect(h) \/ List(h) \/ ListFails(h) \/ Reread(h)
  BY <1>4 DEF Connect, List, ListFails, Reread
<1>5. CASE UpsertSource(h) \/ AddContainers(h) \/ AddBlobs(h)
  BY <1>5 DEF UpsertSource, AddContainers, AddBlobs
<1>6. CASE Count(h) \/ RecordEvidence(h) \/ RecordAudit(h)
  BY <1>6 DEF Count, RecordEvidence, RecordAudit
<1>7. CASE Wipe(h) \/ ResetLocalStore(h) \/ RemoveSecretFile(h) \/ RestoreSource(h)
  BY <1>7 DEF Wipe, ResetLocalStore, RemoveSecretFile, RestoreSource
<1> QED BY <1>1, <1>2, <1>3, <1>4, <1>5, <1>6, <1>7 DEF Step

\* What it does to its own standing.
LEMMA StandingStep ==
  ASSUME TInv, NEW h \in Handlers, Step(h)
  PROVE  Standing(h)' /\ Carrying(h)'
<1> USE DEF Goto, Answer, TInv, StateOK, Kind
<1>1. ASSUME NEW q \in Requests, Begin(h, q) PROVE Standing(h)' /\ Carrying(h)'
  <2>1. /\ q.kind \in Kinds /\ q.source \in Sources
        /\ request'[h] = q /\ pc'[h] = FirstLabel(q) /\ todo'[h] = FirstTodo(q)
        /\ answers'[h] = answers[h] /\ answers[h] = "none"
    BY <1>1, InventoryAssumption DEF Begin, Carrying
  <2>2. Standing(h)'
    BY <2>1 DEF Standing, FirstLabel, Kinds
  <2>3. FirstLabel(q) # "list" \/ q.kind # "scan"
    BY <2>1 DEF FirstLabel, Kinds
  <2>4. /\ FirstLabel(q) \in {"secret", "store", "restore"} => FirstTodo(q) # <<>>
        /\ q.kind \in {"import", "merge"} => FirstTodo(q) = Backup
    BY <2>1, InventoryAssumption DEF FirstLabel, FirstTodo, Kinds
  <2> QED BY <2>1, <2>2, <2>3, <2>4, InventoryAssumption DEF Carrying
<1>2. CASE ReadSecrets(h)
  BY <1>2 DEF ReadSecrets, Standing, Carrying
<1>3. CASE WriteSecrets(h)
  <2>1. Len(todo[h]) > 1 => Tail(todo[h]) # <<>>
    BY TailLasts
  <2>2. AfterSecrets(h) \in IF Kind(h) = "delete" THEN {"unconfigure", "remove"} ELSE {"get"}
    BY DEF AfterSecrets
  <2>3. /\ pc'[h] = IF Len(todo[h]) > 1 THEN "secret" ELSE AfterSecrets(h)
        /\ todo'[h] = Tail(todo[h])
        /\ UNCHANGED <<request[h], seen[h], answers[h]>>
    BY <1>3 DEF WriteSecrets
  <2> QED BY <1>3, <2>1, <2>2, <2>3 DEF WriteSecrets, Standing, Carrying
<1>4. CASE WriteSecretsFails(h)
  BY <1>4 DEF WriteSecretsFails, Standing, Carrying
<1>5. CASE GetConfig(h)
  BY <1>5 DEF GetConfig, Standing, Carrying
<1>6. CASE UpdateConfig(h)
  BY <1>6 DEF UpdateConfig, Standing, Carrying
<1>7. CASE Unconfigure(h) \/ RemoveSource(h)
  BY <1>7 DEF Unconfigure, RemoveSource, Standing, Carrying
<1>8. CASE Connect(h)
  BY <1>8 DEF Connect, Standing, Carrying, Configs
<1>9. CASE List(h)
  BY <1>9 DEF List, AfterList, Standing, Carrying
<1>10. CASE ListFails(h)
  BY <1>10 DEF ListFails, Standing, Carrying
<1>11. CASE Reread(h)
  BY <1>11 DEF Reread, Standing, Carrying
<1>12. CASE UpsertSource(h)
  BY <1>12 DEF UpsertSource, Standing, Carrying
<1>13. CASE AddContainers(h) \/ AddBlobs(h)
  BY <1>13 DEF AddContainers, AddBlobs, Standing, Carrying
<1>14. CASE Count(h)
  BY <1>14 DEF Count, AfterCount, Standing, Carrying
<1>15. CASE RecordEvidence(h) \/ RecordAudit(h)
  BY <1>15 DEF RecordEvidence, RecordAudit, Standing, Carrying
<1>16. CASE Wipe(h)
  BY <1>16 DEF Wipe, Standing, Carrying
<1>17. CASE ResetLocalStore(h) \/ RemoveSecretFile(h)
  BY <1>17 DEF ResetLocalStore, RemoveSecretFile, Standing, Carrying
<1>18. CASE RestoreSource(h)
  <2>1. Kind(h) \in {"import", "merge"} /\ todo[h] \in Seq(Sources)
    BY <1>18 DEF RestoreSource, Standing, Carrying
  <2>2. Len(todo[h]) > 1 => Tail(todo[h]) \in Seq(Sources) /\ Tail(todo[h]) # <<>>
    BY <2>1, TailLasts
  <2>3. /\ todo'[h] = Tail(todo[h])
        /\ pc'[h] = IF Len(todo[h]) > 1 THEN "restore" ELSE "upsert"
        /\ UNCHANGED <<request[h], seen[h], answers[h]>>
    BY <1>18 DEF RestoreSource
  <2> QED BY <1>18, <2>1, <2>2, <2>3 DEF RestoreSource, Standing, Carrying
<1> QED BY <1>1, <1>2, <1>3, <1>4, <1>5, <1>6, <1>7, <1>8, <1>9, <1>10, <1>11, <1>12,
           <1>13, <1>14, <1>15, <1>16, <1>17, <1>18 DEF Step

-----------------------------------------------------------------------------
(* Every variable keeps its type. *)

\* What a step of a request does to its own place and answer is typed.
LEMMA GotoTyped ==
  ASSUME TInv, NEW h \in Handlers, NEW l \in Labels
  PROVE  /\ Goto(h, l) => pc' \in [Handlers -> Labels]
         /\ Answer(h, "ok") \/ Answer(h, "failed") =>
              /\ pc' \in [Handlers -> Labels]
              /\ answers' \in [Handlers -> {"none", "ok", "failed"}]
BY DEF Goto, Answer, Labels, TInv, StateOK

LEMMA LabelsTyped ==
  ASSUME NEW h \in Handlers, TInv
  PROVE  /\ \A q \in Requests : FirstLabel(q) \in Labels
         /\ AfterSecrets(h) \in Labels
         /\ \A empty \in BOOLEAN : AfterList(h, empty) \in Labels
         /\ AfterCount \in Labels
<1>1. \A q \in Requests : FirstLabel(q) \in Labels
  BY DEF FirstLabel, Labels
<1>2. AfterSecrets(h) \in Labels
  BY DEF AfterSecrets, Labels
<1>3. \A empty \in BOOLEAN : AfterList(h, empty) \in Labels
  BY DEF AfterList, Labels
<1> QED BY <1>1, <1>2, <1>3 DEF AfterCount, Labels

LEMMA ConfigsTyped ==
  /\ InitialConfig \in Configs /\ Blank \in Configs
  /\ \A c \in Configs : ListedAs(c) \in Sources /\ [c EXCEPT !.named = TRUE] \in Configs
  /\ \A s \in Sources, n \in BOOLEAN : [source |-> s, named |-> n] \in Configs
BY InventoryAssumption DEF InitialConfig, Blank, Configs, ListedAs

LEMMA SecretsTyped ==
  /\ NoSecrets \in Secrets
  /\ \A s \in Secrets : Seeded(s) \in Secrets
  /\ \A s \in Secrets, n \in Names, a \in Accounts : [s EXCEPT ![n] = a] \in Secrets
  /\ Torn \notin Secrets
BY InventoryAssumption, TornAssumption
   DEF NoSecrets, Secrets, Seeded, Accounts, Names, EnvironmentNames

LEMMA TypeStep ==
  ASSUME TInv, NEW h \in Handlers, Step(h)
  PROVE  StateOK' /\ (portal \in Portal)'
<1> USE DEF TInv
<1>0. /\ request[h].source \in Sources /\ Kind(h) \in Kinds
      /\ source[h] \in Sources /\ seen[h] \in Configs
  BY InventoryAssumption DEF StateOK, Kind
<1>1. ASSUME NEW q \in Requests, Begin(h, q) PROVE StateOK' /\ (portal \in Portal)'
  <2>1. FirstTodo(q) \in Seq(Names) /\ q.source \in Sources
    <3>1. q.source \in Sources
      BY InventoryAssumption
    <3>2. /\ <<q.source, Global>> \in Seq(Names) /\ <<q.source>> \in Seq(Names) /\ <<>> \in Seq(Names)
          /\ Backup \in Seq(Names)
      BY <3>1, InventoryAssumption DEF Names
    <3> QED BY <3>1, <3>2 DEF FirstTodo
  <2> QED BY <1>1, <2>1, GotoTyped, LabelsTyped DEF Begin, StateOK
<1>2. CASE ReadSecrets(h)
  <2>1. "store" \in Labels /\ (secrets # Torn => secrets \in Secrets)
    BY DEF Labels, StateOK
  <2> QED BY <1>2, <2>1, GotoTyped DEF ReadSecrets, StateOK
<1>3. CASE WriteSecrets(h)
  <2>1. todo[h] # <<>> /\ todo[h] \in Seq(Names) /\ copy[h] \in Secrets
    BY <1>3 DEF Carrying, WriteSecrets, StateOK
  <2>2. Head(todo[h]) \in Names /\ Tail(todo[h]) \in Seq(Names)
    BY <2>1, HeadTailProperties
  <2>3. SecretValue(h) \in Accounts
    BY <1>0 DEF SecretValue, Accounts
  <2>4. "secret" \in Labels
    BY DEF Labels
  <2> QED BY <1>3, <2>1, <2>2, <2>3, <2>4, GotoTyped, LabelsTyped, SecretsTyped
             DEF WriteSecrets, StateOK
<1>4. CASE WriteSecretsFails(h)
  BY <1>4, GotoTyped, LabelsTyped, SecretsTyped DEF WriteSecretsFails, StateOK
<1>5. CASE GetConfig(h)
  <2>1. {"upsert", "update"} \subseteq Labels
    BY DEF Labels
  <2> QED BY <1>5, <2>1, GotoTyped DEF GetConfig, StateOK
<1>6. CASE UpdateConfig(h)
  <2>1. {"upsert", "reread"} \subseteq Labels
    BY DEF Labels
  <2>2. config' \in Configs
    BY <1>6, <1>0, ConfigsTyped DEF UpdateConfig, Configs
  <2> QED BY <1>6, <2>1, <2>2, GotoTyped DEF UpdateConfig, StateOK
<1>7. CASE Unconfigure(h)
  <2>1. "remove" \in Labels
    BY DEF Labels
  <2> QED BY <1>7, <2>1, GotoTyped, ConfigsTyped DEF Unconfigure, Unconfigured, StateOK
<1>8. CASE RemoveSource(h)
  <2>1. "audit" \in Labels /\ Between({request[h].source}) \subseteq Sources
    BY DEF Labels, Between, StateOK
  <2>2. portal' \in Portal
    BY <1>8, <1>0, InventoryMethods DEF RemoveSource, Portal
  <2> QED BY <1>8, <2>1, <2>2, GotoTyped DEF RemoveSource, StateOK, PortalOK, Portal, Portals
<1>9. CASE Connect(h)
  <2>1. "list" \in Labels
    BY DEF Labels
  <2> QED BY <1>9, <2>1, GotoTyped DEF Connect, StateOK
<1>10. CASE List(h)
  <2>1. Kind(h) = "scan" => seen[h].source \in Sources
    BY <1>10 DEF Carrying, List
  <2> QED BY <1>10, <2>1, GotoTyped, LabelsTyped DEF List, StateOK
<1>11. CASE ListFails(h)
  BY <1>11, GotoTyped, LabelsTyped DEF ListFails, StateOK
<1>12. CASE Reread(h)
  <2>1. "upsert" \in Labels
    BY DEF Labels
  <2> QED BY <1>12, <2>1, GotoTyped, ConfigsTyped DEF Reread, StateOK
<1>13. CASE UpsertSource(h)
  <2>1. {"containers", "blobs"} \subseteq Labels
    BY DEF Labels
  <2>2. portal' \in Portal
    BY <1>13, <1>0, InventoryMethods DEF UpsertSource, Portal
  <2> QED BY <1>13, <2>1, <2>2, GotoTyped DEF UpsertSource, StateOK, PortalOK, Portal, Portals
<1>14. CASE AddContainers(h)
  <2>1. "upsert_blobs" \in Labels
    BY DEF Labels
  <2>2. portal' \in Portal
    BY <1>14, <1>0, InventoryMethods DEF AddContainers, Portal
  <2> QED BY <1>14, <2>1, <2>2, GotoTyped DEF AddContainers, StateOK, PortalOK, Portal, Portals
<1>15. CASE AddBlobs(h)
  <2>1. {"audit", "count"} \subseteq Labels
    BY DEF Labels
  <2>2. portal' \in Portal
    BY <1>15, <1>0, InventoryMethods DEF AddBlobs, Portal
  <2> QED BY <1>15, <2>1, <2>2, GotoTyped DEF AddBlobs, StateOK, PortalOK, Portal, Portals
<1>16. CASE Count(h)
  BY <1>16, GotoTyped, LabelsTyped DEF Count, StateOK
<1>17. CASE RecordEvidence(h)
  <2>1. "audit" \in Labels
    BY DEF Labels
  <2>2. portal' \in Portal
    BY <1>17, RecordMethods DEF RecordEvidence, Portal
  <2> QED BY <1>17, <2>1, <2>2, GotoTyped DEF RecordEvidence, StateOK, PortalOK, Portal, Portals
<1>18. CASE RecordAudit(h)
  <2>1. portal' \in Portal
    BY <1>18, RecordMethods DEF RecordAudit, Portal
  <2> QED BY <1>18, <2>1, GotoTyped, LabelsTyped DEF RecordAudit, StateOK, PortalOK, Portal, Portals
<1>19. CASE Wipe(h)
  <2>1. {"restore", "local"} \subseteq Labels /\ Between(Sources) \subseteq Sources
    BY DEF Labels, Between, StateOK
  <2>2. portal' \in Portal
    BY <1>19, NothingRecorded DEF Wipe, Portal
  <2> QED BY <1>19, <2>1, <2>2, GotoTyped DEF Wipe, StateOK, PortalOK, Portal, Portals
<1>20. CASE ResetLocalStore(h)
  <2>1. {"unlink", "audit"} \subseteq Labels
    BY DEF Labels
  <2> QED BY <1>20, <2>1, GotoTyped DEF ResetLocalStore, StateOK
<1>21. CASE RemoveSecretFile(h)
  <2>1. "audit" \in Labels /\ None \in Accounts
    BY DEF Labels, Accounts
  <2> QED BY <1>21, <2>1, GotoTyped, SecretsTyped DEF RemoveSecretFile, StateOK
<1>22. CASE RestoreSource(h)
  <2>1. "upsert" \in Labels /\ Backup[1] \in Sources
    BY InventoryAssumption DEF Labels
  <2>2. todo[h] \in Seq(Sources) /\ todo[h] # <<>> /\ todo[h] \in Seq(Names)
    BY <1>22 DEF RestoreSource, Standing, Carrying, StateOK
  <2>3. Head(todo[h]) \in Sources /\ Tail(todo[h]) \in Seq(Names)
    BY <2>2, HeadTailProperties
  <2>4. portal' \in Portal
    BY <1>22, <2>3, InventoryMethods DEF RestoreSource, Portal
  <2> QED BY <1>22, <2>1, <2>3, <2>4, GotoTyped DEF RestoreSource, StateOK, PortalOK, Portal, Portals
<1> QED BY <1>1, <1>2, <1>3, <1>4, <1>5, <1>6, <1>7, <1>8, <1>9, <1>10, <1>11, <1>12, <1>13,
           <1>14, <1>15, <1>16, <1>17, <1>18, <1>19, <1>20, <1>21, <1>22 DEF Step

\* The portal's file.
FInv == file \in Portal /\ fileCut \subseteq Sources /\ behind \subseteq Handlers

LEMMA CrashTyped ==
  ASSUME TInv, FInv, Crash
  PROVE  TInv' /\ FInv'
<1> USE DEF TInv, FInv
<1>1. portal' \in Portal /\ secrets' \in Secrets \cup {Torn} /\ config' \in Configs
  <2>1. Configured \in Sources /\ EmptyPortal \in Portal
    BY InventoryAssumption, NothingRecorded DEF Portal
  <2>2. \A p \in Portal : WithSource(p, Configured) \in Portal
    BY <2>1, InventoryMethods DEF Portal
  <2> QED BY <2>1, <2>2, SecretsTyped, ConfigsTyped DEF Crash, StateOK
<1>2. asked' \in [Names -> Accounts \cup {Unknown}]
  <2>1. secrets # Torn => Seeded(secrets) \in [Names -> Accounts]
    BY SecretsTyped DEF Secrets, StateOK
  <2> QED BY <2>1 DEF Crash, StateOK
<1>3. pc' \in [Handlers -> Labels]
  BY DEF Crash, Labels
<1>4. /\ todo' \in [Handlers -> Seq(Names)] /\ copy' \in [Handlers -> Secrets]
      /\ cut' \subseteq Sources /\ wiped' \subseteq Handlers
  BY SecretsTyped DEF Crash, StateOK, Begun
<1>5. StateOK'
  BY <1>1, <1>2, <1>3, <1>4 DEF Crash, StateOK, PortalOK, Portal, Portals
<1>6. \A h \in Handlers : Standing(h)' /\ Carrying(h)'
  BY DEF Crash, Standing, Carrying, StateOK
<1>7. FInv'
  BY <1>1, <1>4 DEF Crash
<1> QED BY <1>1, <1>5, <1>6, <1>7

LEMMA TInvStep == TInv /\ FInv /\ [Next]_vars => TInv' /\ FInv'
<1> SUFFICES ASSUME TInv, FInv, [Next]_vars PROVE TInv' /\ FInv'
  OBVIOUS
<1>1. ASSUME NEW h \in Handlers, Step(h), Saved(h) PROVE TInv' /\ FInv'
  <2>1. StateOK' /\ (portal \in Portal)'
    BY <1>1, TypeStep
  <2>2. ASSUME NEW g \in Handlers PROVE Standing(g)' /\ Carrying(g)'
    <3>1. CASE g = h
      BY <1>1, <3>1, StandingStep
    <3>2. CASE g # h
      <4>1. /\ pc'[g] = pc[g] /\ request'[g] = request[g] /\ seen'[g] = seen[g]
            /\ todo'[g] = todo[g] /\ answers'[g] = answers[g]
        BY <1>1, <3>2, OthersStand
      <4> QED BY <4>1 DEF TInv, Standing, Carrying, Kind
    <3> QED BY <3>1, <3>2
  <2>3. FInv'
    BY <1>1, <2>1 DEF Saved, portalFile, FInv, StateOK, Portal
  <2> QED BY <2>1, <2>2, <2>3 DEF TInv
<1>2. CASE Crash
  BY <1>2, CrashTyped
<1>3. CASE UNCHANGED vars
  BY <1>3 DEF vars, handlerVars, portalFile, TInv, FInv, StateOK, PortalOK, Standing, Carrying,
              Kind, Portal
<1> QED BY <1>1, <1>2, <1>3 DEF Next

LEMMA InitTyped == Init => TInv /\ FInv
<1> SUFFICES ASSUME Init PROVE TInv /\ FInv
  OBVIOUS
<1>1. portal \in Portal
  BY InventoryAssumption, NothingRecorded, InventoryMethods DEF Init, Portal
<1>2. AnyRequest \in Requests
  BY InventoryAssumption DEF AnyRequest
<1>3. asked \in [Names -> Accounts \cup {Unknown}]
  BY SecretsTyped DEF Init, Secrets
<1>4. pc \in [Handlers -> Labels]
  BY DEF Init, Labels
<1>5. StateOK
  BY <1>1, <1>2, <1>3, <1>4, InventoryAssumption, ConfigsTyped, SecretsTyped
     DEF Init, StateOK, PortalOK, Portal, Portals
<1>6. \A h \in Handlers : Standing(h) /\ Carrying(h)
  BY DEF Init, Standing, Carrying
<1> QED BY <1>1, <1>5, <1>6 DEF TInv, FInv, Init

LEMMA AlwaysTyped == Spec => [](TInv /\ FInv)
BY InitTyped, TInvStep, PTL DEF Spec

\* Every variable of SourceInventory keeps its type.
THEOREM InventoryTypeCorrect == Spec => []InventoryTypeOK
<1>1. TInv /\ FInv => InventoryTypeOK
  BY DEF TInv, FInv, InventoryTypeOK, FileOK, PortalOK, Portal, Portals
<1> QED BY <1>1, AlwaysTyped, PTL

-----------------------------------------------------------------------------
(* The items of the inventory. *)

\* What the portal's methods make of sources, containers and blobs.
LEMMA ItemsAfter ==
  ASSUME NEW p \in Portal, NEW s \in Sources, NEW h \in Handlers
  PROVE  /\ WithSource(p, s).sources = p.sources \cup {s}
         /\ WithSource(p, s).containers = p.containers
         /\ WithSource(p, s).blobs = p.blobs
         /\ WithoutSource(p, s).sources = p.sources \ {s}
         /\ WithoutSource(p, s).containers = p.containers \ {s}
         /\ WithoutSource(p, s).blobs = p.blobs \ {s}
         /\ WithContainers(p, s).sources = p.sources
         /\ WithContainers(p, s).containers = p.containers \cup {s}
         /\ WithContainers(p, s).blobs = p.blobs
         /\ WithBlobs(p, s).sources = p.sources
         /\ WithBlobs(p, s).containers = p.containers
         /\ WithBlobs(p, s).blobs = p.blobs \cup {s}
         /\ WithEvidence(p, h).sources = p.sources
         /\ WithEvidence(p, h).containers = p.containers
         /\ WithEvidence(p, h).blobs = p.blobs
         /\ WithAudit(p, h).sources = p.sources
         /\ WithAudit(p, h).containers = p.containers
         /\ WithAudit(p, h).blobs = p.blobs
BY DEF Portal, Portals, WithSource, WithoutSource, WithContainers, WithBlobs, WithEvidence, WithAudit

\* Between the halves of an upsert its source is listed, unless it was removed;
\* and the file is as whole as the portal's state was when it was saved.
OInv ==
  /\ NothingOrphaned
  /\ file.containers \cup file.blobs \subseteq file.sources \cup fileCut
  /\ \A h \in Handlers : pc[h] \in {"containers", "blobs"} => source[h] \in portal.sources \cup cut

\* What keeps the invariant: no item is added but under the source that the
\* request listed, no source is taken away but with its items, and what was
\* listed between the halves of an upsert is cut.
LEMMA OInvStep == TInv /\ FInv /\ OInv /\ [Next]_vars => OInv'
<1> SUFFICES ASSUME TInv, FInv, OInv, [Next]_vars PROVE OInv'
  OBVIOUS
<1> USE DEF NothingOrphaned
<1>0. portal \in Portal /\ \A h \in Handlers : source[h] \in Sources /\ request[h].source \in Sources
  BY InventoryAssumption DEF TInv, StateOK
<1>1. ASSUME NEW h \in Handlers, Step(h), Saved(h) PROVE OInv'
  <2>0. \A g \in Handlers \ {h} : pc'[g] = pc[g] /\ source'[g] = source[g]
    BY <1>1, OthersStand
  <2>s. \/ file' = portal' /\ fileCut' = cut'
        \/ UNCHANGED <<file, fileCut>>
    BY <1>1 DEF Saved, portalFile
  <2>1. ASSUME UNCHANGED <<portal, cut>>, pc'[h] \notin {"containers", "blobs"}
        PROVE  OInv'
    BY <2>0, <2>s, <2>1 DEF OInv
  <2> USE DEF Goto, Answer
  <2>2. ASSUME NEW q \in Requests, Begin(h, q) PROVE OInv'
    <3>1. FirstLabel(q) \notin {"containers", "blobs"}
      BY DEF FirstLabel
    <3> QED BY <2>1, <2>2, <3>1 DEF Begin, TInv, StateOK
  <2>3. CASE ReadSecrets(h) \/ WriteSecretsFails(h)
    BY <2>1, <2>3 DEF ReadSecrets, WriteSecretsFails, TInv, StateOK
  <2>4. CASE WriteSecrets(h)
    <3>1. AfterSecrets(h) \notin {"containers", "blobs"}
      BY DEF AfterSecrets
    <3> QED BY <2>1, <2>4, <3>1 DEF WriteSecrets, TInv, StateOK
  <2>5. CASE GetConfig(h) \/ UpdateConfig(h) \/ Unconfigure(h) \/ Connect(h)
    BY <2>1, <2>5 DEF GetConfig, UpdateConfig, Unconfigure, Connect, TInv, StateOK
  <2>6. CASE List(h) \/ ListFails(h) \/ Reread(h)
    <3>1. \A empty \in BOOLEAN : AfterList(h, empty) \notin {"containers", "blobs"}
      BY DEF AfterList
    <3> QED BY <2>1, <2>6, <3>1 DEF List, ListFails, Reread, TInv, StateOK
  <2>7. CASE Count(h) \/ ResetLocalStore(h) \/ RemoveSecretFile(h)
    BY <2>1, <2>7 DEF Count, AfterCount, ResetLocalStore, RemoveSecretFile, TInv, StateOK
  <2>8. CASE RemoveSource(h)
    <3> DEFINE s == request[h].source
    <3>1. /\ portal'.sources = portal.sources \ {s}
          /\ portal'.containers = portal.containers \ {s}
          /\ portal'.blobs = portal.blobs \ {s}
          /\ cut' = cut \cup Between({s})
      BY <1>0, <2>8, ItemsAfter DEF RemoveSource
    <3>2. pc'[h] = "audit"
      BY <2>8 DEF RemoveSource, TInv, StateOK
    <3>3. \A g \in Handlers : pc[g] \in {"containers", "blobs"} /\ source[g] = s => s \in Between({s})
      BY DEF Between
    <3> QED BY <2>0, <2>s, <3>1, <3>2, <3>3 DEF OInv
  <2>9. CASE UpsertSource(h)
    <3>1. /\ portal'.sources = portal.sources \cup {source[h]}
          /\ portal'.containers = portal.containers /\ portal'.blobs = portal.blobs
          /\ cut' = cut \ {source[h]} /\ source'[h] = source[h]
      BY <1>0, <2>9, ItemsAfter DEF UpsertSource
    <3> QED BY <2>0, <2>s, <3>1 DEF OInv
  <2>10. CASE AddContainers(h)
    <3>1. /\ portal'.sources = portal.sources
          /\ portal'.containers = portal.containers \cup {source[h]}
          /\ portal'.blobs = portal.blobs
          /\ cut' = cut /\ source'[h] = source[h] /\ pc[h] = "containers"
      BY <1>0, <2>10, ItemsAfter DEF AddContainers
    <3> QED BY <2>0, <2>s, <3>1 DEF OInv
  <2>11. CASE AddBlobs(h)
    <3>1. /\ portal'.sources = portal.sources
          /\ portal'.containers = portal.containers
          /\ portal'.blobs = portal.blobs \cup {source[h]}
          /\ cut' = cut /\ source'[h] = source[h] /\ pc[h] = "blobs"
      BY <1>0, <2>11, ItemsAfter DEF AddBlobs
    <3> QED BY <2>0, <2>s, <3>1 DEF OInv
  <2>12. CASE RecordEvidence(h) \/ RecordAudit(h)
    <3>1. /\ portal'.sources = portal.sources /\ portal'.containers = portal.containers
          /\ portal'.blobs = portal.blobs /\ cut' = cut
      BY <1>0, <2>12, ItemsAfter DEF RecordEvidence, RecordAudit
    <3>2. pc'[h] \notin {"containers", "blobs"}
      BY <2>12 DEF RecordEvidence, RecordAudit, TInv, StateOK
    <3> QED BY <2>0, <2>s, <3>1, <3>2 DEF OInv
  <2>13. CASE Wipe(h)
    <3>1. /\ portal'.containers = {} /\ portal'.blobs = {} /\ cut' = cut \cup Between(Sources)
      BY <2>13 DEF Wipe, EmptyPortal
    <3>2. pc'[h] \notin {"containers", "blobs"}
      BY <2>13 DEF Wipe, TInv, StateOK
    <3>3. \A g \in Handlers : pc[g] \in {"containers", "blobs"} => source[g] \in Between(Sources)
      BY <1>0 DEF Between
    <3> QED BY <2>0, <2>s, <3>1, <3>2, <3>3 DEF OInv
  <2>14. CASE RestoreSource(h)
    <3>1. todo[h] \in Seq(Sources) /\ todo[h] # <<>>
      BY <1>1, <2>14 DEF RestoreSource, TInv, Standing, Carrying
    <3>2. Head(todo[h]) \in Sources
      BY <3>1, HeadTailProperties
    <3>3. /\ portal'.sources = portal.sources \cup {Head(todo[h])}
          /\ portal'.containers = portal.containers /\ portal'.blobs = portal.blobs
          /\ cut' = cut \ {Head(todo[h])}
      BY <1>0, <3>2, <2>14, ItemsAfter DEF RestoreSource
    <3>4. pc'[h] \notin {"containers", "blobs"}
      BY <2>14 DEF RestoreSource, TInv, StateOK
    <3> QED BY <2>0, <2>s, <3>3, <3>4 DEF OInv
  <2> QED BY <1>1, <2>2, <2>3, <2>4, <2>5, <2>6, <2>7, <2>8, <2>9, <2>10, <2>11, <2>12, <2>13,
             <2>14 DEF Step
<1>2. CASE Crash
  <2>1. \A h \in Handlers : pc'[h] \notin {"containers", "blobs"}
    BY <1>2 DEF Crash
  <2>f. \/ file' = portal' /\ fileCut' = cut'
        \/ UNCHANGED <<file, fileCut>>
    BY <1>2 DEF Crash
  <2>2. Configured \in Sources /\ EmptyPortal \in Portal
    BY InventoryAssumption, NothingRecorded DEF Portal
  <2>3. \A p \in Portal : /\ WithSource(p, Configured).sources = p.sources \cup {Configured}
                          /\ WithSource(p, Configured).containers = p.containers
                          /\ WithSource(p, Configured).blobs = p.blobs
    BY <2>2, InventoryAssumption, ItemsAfter
  <2>4. CASE portal' = WithSource(EmptyPortal, Configured)
    <3>1. portal'.containers = {} /\ portal'.blobs = {}
      BY <2>2, <2>3, <2>4 DEF EmptyPortal
    <3> QED BY <2>1, <2>f, <3>1 DEF OInv
  <2>5. CASE portal' = WithSource(file, Configured) /\ cut' = fileCut \ {Configured}
    <3>1. /\ portal'.sources = file.sources \cup {Configured}
          /\ portal'.containers = file.containers /\ portal'.blobs = file.blobs
      BY <2>3, <2>5 DEF FInv
    <3> QED BY <2>1, <2>5, <2>f, <3>1 DEF OInv
  <2> QED BY <1>2, <2>4, <2>5 DEF Crash
<1>3. CASE UNCHANGED vars
  BY <1>3 DEF vars, handlerVars, portalFile, OInv
<1> QED BY <1>1, <1>2, <1>3 DEF Next

\* No container and no blob is left without its source, but for one that was
\* removed between the halves of a request.
THEOREM InventoryIsWhole == Spec => []NothingOrphaned
<1>1. Init => OInv
  <2>1. Init => portal.containers = {} /\ portal.blobs = {}
    BY InventoryAssumption, NothingRecorded, InventoryMethods
       DEF Init, WithSource, EmptyPortal, Portal
  <2> QED BY <2>1 DEF Init, OInv, NothingOrphaned
<1>2. OInv => NothingOrphaned
  BY DEF OInv
<1> QED BY <1>1, <1>2, OInvStep, AlwaysTyped, PTL DEF Spec

-----------------------------------------------------------------------------
(* The secret file. *)

\* Who is about to write the file has its mutex, and has read what was asked.
SecretsInv ==
  /\ SecretsAsAsked
  /\ \A h \in Handlers : pc[h] = "store" =>
       /\ holder = h
       /\ \A n \in Names : asked[n] # Unknown => copy[h][n] = asked[n]

\* A step that leaves the file and the mutex, and does not come to hold it.
LEMMA SecretsKept ==
  ASSUME SecretsInv, UNCHANGED <<secrets, holder, asked>>,
         \A h \in Handlers : pc'[h] = "store" => pc[h] = "store" /\ copy'[h] = copy[h]
  PROVE  SecretsInv'
BY DEF SecretsInv, SecretsAsAsked

LEMMA SecretsStep == TInv /\ SecretsInv /\ [Next]_vars => SecretsInv'
<1> SUFFICES ASSUME TInv, SecretsInv, [Next]_vars PROVE SecretsInv'
  OBVIOUS
<1>0. Nobody \notin Handlers
  BY InventoryAssumption
<1>1. ASSUME NEW h \in Handlers, Step(h) PROVE SecretsInv'
  <2>0. \A g \in Handlers \ {h} : pc'[g] = pc[g] /\ copy'[g] = copy[g]
    BY <1>1, OthersStand
  <2>1. ASSUME UNCHANGED <<secrets, holder, asked>>, pc'[h] # "store"
        PROVE  SecretsInv'
    BY <2>0, <2>1, SecretsKept
  <2> USE DEF Goto, Answer
  <2>2. ASSUME NEW q \in Requests, Begin(h, q) PROVE SecretsInv'
    <3>1. FirstLabel(q) # "store"
      BY DEF FirstLabel
    <3> QED BY <2>1, <2>2, <3>1 DEF Begin, TInv, StateOK
  <2>3. CASE ReadSecrets(h)
    <3>1. CASE secrets = Torn
      BY <2>1, <2>3, <3>1 DEF ReadSecrets, TInv, StateOK
    <3>2. CASE secrets # Torn
      <4>1. /\ holder = Nobody /\ holder' = h /\ copy'[h] = secrets
            /\ UNCHANGED <<secrets, asked>>
        BY <2>3, <3>2 DEF ReadSecrets, MutexIsFree, TInv, StateOK
      <4>2. \A g \in Handlers : pc[g] # "store"
        BY <1>0, <4>1 DEF SecretsInv
      <4> QED BY <2>0, <4>1, <4>2 DEF SecretsInv, SecretsAsAsked
    <3> QED BY <3>1, <3>2
  <2>4. CASE WriteSecrets(h)
    <3> DEFINE n == Head(todo[h])
               value == SecretValue(h)
    <3>1. /\ holder = h /\ copy[h] \in Secrets /\ asked \in [Names -> Accounts \cup {Unknown}]
          /\ \A m \in Names : asked[m] # Unknown => copy[h][m] = asked[m]
      BY <2>4 DEF WriteSecrets, SecretsInv, TInv, StateOK
    <3>2. n \in Names /\ value \in Accounts
      <4>1. todo[h] \in Seq(Names) /\ todo[h] # <<>>
        BY <2>4 DEF WriteSecrets, TInv, StateOK, Carrying
      <4>2. request[h].source \in Sources
        BY InventoryAssumption DEF TInv, StateOK
      <4> QED BY <4>1, <4>2, HeadTailProperties DEF SecretValue, Accounts
    <3>3. secrets' = [copy[h] EXCEPT ![n] = value] /\ asked' = [asked EXCEPT ![n] = value]
      BY <2>4 DEF WriteSecrets
    <3>4. secrets' # Torn
      BY <3>1, <3>2, <3>3, SecretsTyped
    <3>5. \A m \in Names : asked'[m] # Unknown => secrets'[m] = asked'[m]
      BY <3>1, <3>2, <3>3 DEF Secrets
    <3>6. pc'[h] # "store"
      <4>1. AfterSecrets(h) # "store"
        BY DEF AfterSecrets
      <4> QED BY <2>4, <4>1 DEF WriteSecrets, TInv, StateOK
    <3>7. \A g \in Handlers : pc'[g] # "store"
      BY <2>0, <3>1, <3>6 DEF SecretsInv
    <3> QED BY <3>4, <3>5, <3>7 DEF SecretsInv, SecretsAsAsked
  <2>5. CASE WriteSecretsFails(h)
    <3>1. pc[h] = "store" /\ pc'[h] = "done"
      BY <2>5 DEF WriteSecretsFails, TInv, StateOK
    <3>2. \A g \in Handlers : pc'[g] # "store"
      BY <2>0, <3>1 DEF SecretsInv
    <3>3. SecretsAsAsked'
      BY <2>5 DEF WriteSecretsFails, SecretsInv, SecretsAsAsked
    <3> QED BY <3>2, <3>3 DEF SecretsInv
  <2>6. CASE GetConfig(h) \/ UpdateConfig(h) \/ Unconfigure(h) \/ RemoveSource(h)
    BY <2>1, <2>6 DEF GetConfig, UpdateConfig, Unconfigure, RemoveSource, TInv, StateOK
  <2>7. CASE Connect(h) \/ List(h) \/ ListFails(h) \/ Reread(h)
    <3>1. \A empty \in BOOLEAN : AfterList(h, empty) # "store"
      BY DEF AfterList
    <3> QED BY <2>1, <2>7, <3>1 DEF Connect, List, ListFails, Reread, TInv, StateOK
  <2>8. CASE UpsertSource(h) \/ AddContainers(h) \/ AddBlobs(h)
    BY <2>1, <2>8 DEF UpsertSource, AddContainers, AddBlobs, TInv, StateOK
  <2>9. CASE Count(h) \/ RecordEvidence(h) \/ RecordAudit(h)
    BY <2>1, <2>9 DEF Count, AfterCount, RecordEvidence, RecordAudit, TInv, StateOK
  <2>10. CASE Wipe(h) \/ ResetLocalStore(h) \/ RestoreSource(h)
    BY <2>1, <2>10 DEF Wipe, ResetLocalStore, RestoreSource, TInv, StateOK
  <2>11. CASE RemoveSecretFile(h)
    <3>1. /\ secrets' = NoSecrets /\ UNCHANGED <<holder, copy>> /\ pc'[h] = "audit"
          /\ asked' = [n \in Names |-> IF holder = Nobody THEN None ELSE Unknown]
      BY <2>11 DEF RemoveSecretFile, MutexIsFree, TInv, StateOK
    <3>2. SecretsAsAsked'
      BY <3>1, SecretsTyped DEF SecretsAsAsked, NoSecrets
    <3>3. ASSUME NEW g \in Handlers, pc'[g] = "store" PROVE holder' = g /\ \A n \in Names : asked'[n] = Unknown
      BY <1>0, <2>0, <3>1, <3>3 DEF SecretsInv
    <3> QED BY <3>2, <3>3 DEF SecretsInv
  <2> QED BY <1>1, <2>2, <2>3, <2>4, <2>5, <2>6, <2>7, <2>8, <2>9, <2>10, <2>11 DEF Step
<1>2. CASE Crash
  <2>1. \A h \in Handlers : pc'[h] # "store"
    BY <1>2 DEF Crash
  <2>2. SecretsAsAsked'
    <3>1. secrets # Torn => Seeded(secrets) # Torn
      BY SecretsTyped DEF TInv, StateOK
    <3> QED BY <1>2, <3>1 DEF Crash, SecretsAsAsked
  <2> QED BY <2>1, <2>2 DEF SecretsInv
<1>3. CASE UNCHANGED vars
  BY <1>3 DEF vars, handlerVars, SecretsInv, SecretsAsAsked
<1> QED BY <1>1, <1>2, <1>3 DEF Next

\* A secret is what the last request that wrote it made of it, whoever else
\* rewrites the file; the mutex of the store is what makes it so.
THEOREM SecretsStayAsAsked == Spec => []SecretsAsAsked
<1>1. Init => SecretsInv
  <2>1. Seeded(NoSecrets) # Torn
    BY SecretsTyped
  <2> QED BY <2>1 DEF Init, SecretsInv, SecretsAsAsked
<1>2. SecretsInv => SecretsAsAsked
  BY DEF SecretsInv
<1> QED BY <1>1, <1>2, SecretsStep, AlwaysTyped, PTL DEF Spec

-----------------------------------------------------------------------------
(* The records. *)

MustHold(h) ==
  /\ Kind(h) \in {"scan", "seed"} => Holds(portal.evidence, h)
  /\ Kind(h) \in {"scan", "seed", "delete", "reset", "reset_all", "import", "merge"}
       => Holds(portal.audit, h)

\* A scan has its evidence before its audit row.
Recorded(h) ==
  h \notin wiped =>
    /\ pc[h] = "audit" /\ Kind(h) \in {"scan", "seed"} => Holds(portal.evidence, h)
    /\ answers[h] = "ok" => MustHold(h)

\* The records of a state go over to the next one.
Goes == \A g \in Handlers : /\ Holds(portal.evidence, g) => Holds(portal'.evidence, g)
                            /\ Holds(portal.audit, g) => Holds(portal'.audit, g)

LEMMA RecordsAfter ==
  ASSUME NEW p \in Portal, NEW s \in Sources, NEW h \in Handlers
  PROVE  /\ \A q \in {WithSource(p, s), WithoutSource(p, s), WithContainers(p, s), WithBlobs(p, s)} :
              q.evidence = p.evidence /\ q.audit = p.audit
         /\ \A g \in Handlers :
              /\ Holds(p.evidence, g) => Holds(WithEvidence(p, h).evidence, g)
              /\ Holds(p.audit, g) => Holds(WithAudit(p, h).audit, g)
         /\ WithEvidence(p, h).audit = p.audit /\ WithAudit(p, h).evidence = p.evidence
         /\ Holds(WithEvidence(p, h).evidence, h) /\ Holds(WithAudit(p, h).audit, h)
<1>1. p.evidence \in Seq(Handlers) /\ p.audit \in Seq(Handlers)
  BY DEF Portal, Portals
<1>2. /\ WithEvidence(p, h).evidence = NewestOf(<<h>> \o p.evidence)
      /\ WithAudit(p, h).audit = NewestOf(<<h>> \o p.audit)
      /\ WithEvidence(p, h).audit = p.audit /\ WithAudit(p, h).evidence = p.evidence
  BY DEF Portal, Portals, WithEvidence, WithAudit
<1>3. \A q \in {WithSource(p, s), WithoutSource(p, s), WithContainers(p, s), WithBlobs(p, s)} :
        q.evidence = p.evidence /\ q.audit = p.audit
  BY DEF Portal, Portals, WithSource, WithoutSource, WithContainers, WithBlobs
<1> QED BY <1>1, <1>2, <1>3, NewestKept

\* What a step of a request makes of the records.
LEMMA RecordedStep ==
  ASSUME TInv, \A g \in Handlers : Recorded(g), NEW h \in Handlers, Step(h)
  PROVE  \A g \in Handlers : Recorded(g)'
<1> USE DEF Goto, Answer
<1>0. portal \in Portal /\ source[h] \in Sources /\ request[h].source \in Sources
  BY InventoryAssumption DEF TInv, StateOK
<1>1. ASSUME Goes, wiped \subseteq wiped', Recorded(h)' PROVE \A g \in Handlers : Recorded(g)'
  <2>1. \A g \in Handlers \ {h} : pc'[g] = pc[g] /\ request'[g] = request[g] /\ answers'[g] = answers[g]
    BY OthersStand
  <2>2. ASSUME NEW g \in Handlers, g # h PROVE Recorded(g)'
    <3>1. Recorded(g) /\ pc'[g] = pc[g] /\ request'[g] = request[g] /\ answers'[g] = answers[g]
      BY <2>1, <2>2
    <3> QED BY <1>1, <3>1 DEF Recorded, MustHold, Goes, Kind
  <2> QED BY <1>1, <2>2
<1>2. pc[h] # "done" => answers[h] = "none"
  BY DEF TInv, Carrying
<1>3. ASSUME UNCHANGED <<portal, wiped>>, pc'[h] # "audit", answers'[h] # "ok"
      PROVE  \A g \in Handlers : Recorded(g)'
  BY <1>1, <1>3 DEF Goes, Recorded
<1>4. ASSUME NEW q \in Requests, Begin(h, q) PROVE \A g \in Handlers : Recorded(g)'
  <2>1. FirstLabel(q) # "audit"
    BY DEF FirstLabel
  <2> QED BY <1>2, <1>3, <1>4, <2>1 DEF Begin, TInv, StateOK
<1>5. CASE ReadSecrets(h) \/ WriteSecretsFails(h)
  BY <1>2, <1>3, <1>5 DEF ReadSecrets, WriteSecretsFails, TInv, StateOK
<1>6. CASE WriteSecrets(h)
  <2>1. AfterSecrets(h) # "audit"
    BY DEF AfterSecrets
  <2> QED BY <1>2, <1>3, <1>6, <2>1 DEF WriteSecrets, TInv, StateOK
<1>7. CASE GetConfig(h) \/ UpdateConfig(h) \/ Unconfigure(h) \/ Connect(h) \/ ListFails(h)
  BY <1>2, <1>3, <1>7 DEF GetConfig, UpdateConfig, Unconfigure, Connect, ListFails, TInv, StateOK
<1>8. CASE List(h)
  <2>1. \A empty \in BOOLEAN : /\ AfterList(h, empty) # "audit"
                              /\ AfterList(h, empty) = "done" => Kind(h) = "discover"
    BY DEF AfterList
  <2>2. UNCHANGED <<portal, wiped, request>> /\ pc'[h] # "audit"
        /\ (answers'[h] = "ok" => Kind(h) = "discover")
    <3>1. PICK empty \in BOOLEAN :
            IF AfterList(h, empty) = "done"
              THEN Answer(h, "ok")
              ELSE Goto(h, AfterList(h, empty)) /\ UNCHANGED answers
      BY <1>8 DEF List
    <3>2. pc[h] = "list" /\ UNCHANGED <<portal, wiped, request>>
      BY <1>8 DEF List
    <3>3. answers[h] = "none"
      BY <1>2, <3>2
    <3>4. CASE AfterList(h, empty) = "done"
      <4>1. pc'[h] = "done" /\ Kind(h) = "discover"
        BY <2>1, <3>1, <3>4 DEF TInv, StateOK
      <4> QED BY <3>2, <4>1
    <3>5. CASE AfterList(h, empty) # "done"
      <4>1. pc'[h] = AfterList(h, empty) /\ answers'[h] = "none"
        BY <3>1, <3>3, <3>5 DEF TInv, StateOK
      <4>2. AfterList(h, empty) # "audit"
        BY DEF AfterList
      <4> QED BY <3>2, <4>1, <4>2
    <3> QED BY <3>4, <3>5
  <2>3. Recorded(h)'
    BY <2>2 DEF Recorded, MustHold, Kind
  <2> QED BY <1>1, <2>2, <2>3 DEF Goes
<1>9. CASE Reread(h)
  <2>1. UNCHANGED <<portal, wiped, request>> /\ pc'[h] # "audit"
        /\ (answers'[h] = "ok" => Kind(h) = "options")
    BY <1>2, <1>9 DEF Reread, TInv, StateOK
  <2>2. Recorded(h)'
    BY <2>1 DEF Recorded, MustHold, Kind
  <2> QED BY <1>1, <2>1, <2>2 DEF Goes
<1>10. CASE RemoveSource(h)
  <2>1. Goes /\ wiped' = wiped
    BY <1>0, <1>10, RecordsAfter DEF RemoveSource, Goes
  <2>2. Kind(h)' = "delete" /\ answers'[h] # "ok"
    BY <1>2, <1>10 DEF RemoveSource, TInv, Standing, Kind
  <2> QED BY <1>1, <2>1, <2>2 DEF Recorded
<1>11. CASE UpsertSource(h)
  <2>1. Goes /\ wiped' = wiped
    BY <1>0, <1>11, RecordsAfter DEF UpsertSource, Goes
  <2>2. /\ pc'[h] # "audit" /\ UNCHANGED request
        /\ answers'[h] = "ok" => Kind(h) \notin {"scan", "seed", "discover", "import", "merge",
                                                "delete", "reset", "reset_all"}
    BY <1>2, <1>11 DEF UpsertSource, TInv, StateOK, Standing
  <2> QED BY <1>1, <2>1, <2>2 DEF Recorded, MustHold, Kind
<1>12. CASE AddContainers(h)
  <2>1. Goes /\ wiped' = wiped
    BY <1>0, <1>12, RecordsAfter DEF AddContainers, Goes
  <2>2. pc'[h] # "audit" /\ UNCHANGED request /\ (answers'[h] = "ok" => Kind(h) = "discover")
    BY <1>2, <1>12 DEF AddContainers, TInv, StateOK
  <2> QED BY <1>1, <2>1, <2>2 DEF Recorded, MustHold, Kind
<1>13. CASE AddBlobs(h)
  <2>1. Goes /\ wiped' = wiped
    BY <1>0, <1>13, RecordsAfter DEF AddBlobs, Goes
  <2>2. /\ UNCHANGED request /\ answers'[h] # "ok"
        /\ pc'[h] = "audit" => Kind(h) \in {"import", "merge"}
    BY <1>2, <1>13 DEF AddBlobs, TInv, StateOK
  <2> QED BY <1>1, <2>1, <2>2 DEF Recorded, Kind
<1>14. CASE Count(h)
  BY <1>2, <1>3, <1>14 DEF Count, AfterCount, TInv, StateOK
<1>15. CASE RecordEvidence(h)
  <2>1. Goes /\ wiped' = wiped /\ Holds(portal'.evidence, h)
    <3>1. portal' = WithEvidence(portal, h) /\ wiped' = wiped
      BY <1>15 DEF RecordEvidence
    <3> QED BY <1>0, <3>1, RecordsAfter DEF Goes
  <2>2. answers'[h] # "ok"
    BY <1>2, <1>15 DEF RecordEvidence
  <2> QED BY <1>1, <2>1, <2>2 DEF Recorded
<1>16. CASE RecordAudit(h)
  <2>1. Goes /\ wiped' = wiped /\ Holds(portal'.audit, h)
    <3>1. portal' = WithAudit(portal, h) /\ wiped' = wiped
      BY <1>16 DEF RecordAudit
    <3> QED BY <1>0, <3>1, RecordsAfter DEF Goes
  <2>2. pc[h] = "audit" /\ pc'[h] = "done" /\ UNCHANGED request
    BY <1>16 DEF RecordAudit, TInv, StateOK
  <2>3. h \notin wiped /\ Kind(h) \in {"scan", "seed"} => Holds(portal'.evidence, h)
    BY <2>1, <2>2 DEF Recorded, Goes
  <2> QED BY <1>1, <2>1, <2>2, <2>3 DEF Recorded, MustHold, Kind
<1>17. CASE Wipe(h)
  <2>1. wiped' = wiped \cup {g \in Handlers \ {h} : pc[g] # "ready"}
    BY <1>17 DEF Wipe
  <2>2. pc'[h] # "audit" /\ answers'[h] # "ok"
    BY <1>2, <1>17 DEF Wipe, TInv, StateOK
  <2>3. ASSUME NEW g \in Handlers, g # h PROVE Recorded(g)'
    <3>1. pc'[g] = pc[g] /\ answers'[g] = answers[g]
      BY <2>3, OthersStand
    <3>2. pc[g] = "ready" => answers[g] = "none"
      BY DEF TInv, Carrying
    <3> QED BY <2>1, <2>3, <3>1, <3>2 DEF Recorded
  <2> QED BY <2>2, <2>3 DEF Recorded
<1>18. CASE ResetLocalStore(h) \/ RemoveSecretFile(h)
  <2>1. UNCHANGED <<portal, wiped, request>> /\ answers'[h] # "ok" /\ Kind(h) \in {"reset", "reset_all"}
    BY <1>2, <1>18 DEF ResetLocalStore, RemoveSecretFile, TInv, StateOK, Standing
  <2> QED BY <1>1, <2>1 DEF Recorded, Kind, Goes
<1>19. CASE RestoreSource(h)
  <2>1. todo[h] \in Seq(Sources) /\ todo[h] # <<>>
    BY <1>19 DEF RestoreSource, TInv, Standing, Carrying
  <2>2. Head(todo[h]) \in Sources
    BY <2>1, HeadTailProperties
  <2>3. Goes /\ wiped' = wiped
    BY <1>0, <1>19, <2>2, RecordsAfter DEF RestoreSource, Goes
  <2>4. pc'[h] # "audit" /\ answers'[h] # "ok"
    BY <1>2, <1>19 DEF RestoreSource, TInv, StateOK
  <2> QED BY <1>1, <2>3, <2>4 DEF Recorded
<1> QED BY <1>4, <1>5, <1>6, <1>7, <1>8, <1>9, <1>10, <1>11, <1>12, <1>13, <1>14, <1>15, <1>16,
           <1>17, <1>18, <1>19 DEF Step

\* The same of the file, but for who changed the portal's state since.
FileRecorded(h) ==
  h \notin wiped \cup behind =>
    /\ pc[h] = "audit" /\ Kind(h) \in {"scan", "seed"} => Holds(file.evidence, h)
    /\ answers[h] = "ok" =>
         /\ Kind(h) \in {"scan", "seed"} => Holds(file.evidence, h)
         /\ Kind(h) \in {"scan", "seed", "delete", "reset", "reset_all", "import", "merge"}
              => Holds(file.audit, h)

\* A step that does not change the portal's state makes nothing of a record due.
LEMMA QuietStep ==
  ASSUME TInv, NEW h \in Handlers, Step(h), pc[h] \notin Changing
  PROVE  /\ pc'[h] = "audit" => Kind(h)' \notin {"scan", "seed"}
         /\ answers'[h] = "ok" => Kind(h)' \in {"discover", "options"}
<1> USE DEF Goto, Answer, TInv, StateOK, Kind, Changing
<1>0. pc[h] # "done" => answers[h] = "none"
  BY DEF Carrying
<1>1. ASSUME NEW q \in Requests, Begin(h, q)
      PROVE  pc'[h] # "audit" /\ answers'[h] # "ok"
  <2>1. FirstLabel(q) # "audit"
    BY DEF FirstLabel
  <2> QED BY <1>0, <1>1, <2>1 DEF Begin
<1>2. CASE ReadSecrets(h) \/ WriteSecretsFails(h) \/ GetConfig(h) \/ UpdateConfig(h)
           \/ Unconfigure(h) \/ Connect(h) \/ ListFails(h)
  BY <1>0, <1>2 DEF ReadSecrets, WriteSecretsFails, GetConfig, UpdateConfig, Unconfigure, Connect,
                    ListFails
<1>3. CASE WriteSecrets(h)
  <2>1. AfterSecrets(h) # "audit"
    BY DEF AfterSecrets
  <2> QED BY <1>0, <1>3, <2>1 DEF WriteSecrets
<1>4. CASE List(h)
  <2>1. pc[h] = "list" /\ UNCHANGED request /\ answers[h] = "none"
    BY <1>0, <1>4 DEF List
  <2>2. PICK empty \in BOOLEAN :
          IF AfterList(h, empty) = "done"
            THEN Answer(h, "ok")
            ELSE Goto(h, AfterList(h, empty)) /\ UNCHANGED answers
    BY <1>4 DEF List
  <2>3. AfterList(h, empty) # "audit" /\ (AfterList(h, empty) = "done" => Kind(h) = "discover")
    BY DEF AfterList
  <2>4. CASE AfterList(h, empty) = "done"
    BY <2>1, <2>2, <2>3, <2>4
  <2>5. CASE AfterList(h, empty) # "done"
    <3>1. pc'[h] = AfterList(h, empty) /\ answers'[h] = "none"
      BY <2>1, <2>2, <2>5
    <3>2. AfterList(h, empty) # "audit"
      BY DEF AfterList
    <3> QED BY <3>1, <3>2
  <2> QED BY <2>4, <2>5
<1>5. CASE Reread(h)
  BY <1>0, <1>5 DEF Reread
<1>6. CASE Count(h)
  BY <1>0, <1>6 DEF Count, AfterCount
<1>7. CASE ResetLocalStore(h) \/ RemoveSecretFile(h)
  BY <1>0, <1>7 DEF ResetLocalStore, RemoveSecretFile, Standing
<1>8. pc[h] \notin {"remove", "upsert", "upsert_blobs", "containers", "blobs", "evidence", "audit",
                    "wipe", "restore"}
  OBVIOUS
<1>9. ~(RemoveSource(h) \/ UpsertSource(h) \/ AddContainers(h) \/ AddBlobs(h) \/ RecordEvidence(h)
        \/ RecordAudit(h) \/ Wipe(h) \/ RestoreSource(h))
  BY <1>8 DEF RemoveSource, UpsertSource, AddContainers, AddBlobs, RecordEvidence, RecordAudit, Wipe,
              RestoreSource
<1> QED BY <1>1, <1>2, <1>3, <1>4, <1>5, <1>6, <1>7, <1>9 DEF Step

\* A save brings the file up to date; if it fails, its request is behind.
LEMMA FileRecordedStep ==
  ASSUME TInv, \A g \in Handlers : FileRecorded(g), \A g \in Handlers : Recorded(g)',
         NEW h \in Handlers, Step(h), Saved(h)
  PROVE  \A g \in Handlers : FileRecorded(g)'
<1>0. wiped \subseteq wiped'
  BY DEF Step, Begin, ReadSecrets, WriteSecrets, WriteSecretsFails, GetConfig, UpdateConfig,
         Unconfigure, RemoveSource, Connect, List, ListFails, Reread, UpsertSource, AddContainers,
         AddBlobs, Count, RecordEvidence, RecordAudit, Wipe, ResetLocalStore, RemoveSecretFile,
         RestoreSource
<1>1. CASE file' = portal' /\ behind' = {}
  <2>1. ASSUME NEW g \in Handlers PROVE FileRecorded(g)'
    <3>1. Recorded(g)'
      OBVIOUS
    <3> QED BY <1>1, <3>1 DEF Recorded, MustHold, FileRecorded
  <2> QED BY <2>1
<1>2. CASE /\ file' = file
           /\ (behind' = behind /\ pc[h] \notin Changing) \/ behind' = behind \cup {h}
  <2>1. ASSUME NEW g \in Handlers, g # h PROVE FileRecorded(g)'
    <3>1. pc'[g] = pc[g] /\ request'[g] = request[g] /\ answers'[g] = answers[g]
      BY <2>1, OthersStand
    <3> QED BY <1>0, <1>2, <3>1 DEF FileRecorded, Kind
  <2>2. FileRecorded(h)'
    <3>1. CASE h \in behind'
      BY <3>1 DEF FileRecorded
    <3>2. CASE h \notin behind'
      <4>1. pc[h] \notin Changing
        BY <1>2, <3>2
      <4> QED BY <4>1, QuietStep DEF FileRecorded
    <3> QED BY <3>1, <3>2
  <2> QED BY <2>1, <2>2
<1> QED BY <1>1, <1>2 DEF Saved, portalFile

\* A crash brings back the file, unless it was torn.
LEMMA RecordedCrash ==
  ASSUME TInv, FInv, \A g \in Handlers : Recorded(g) /\ FileRecorded(g), Crash
  PROVE  \A g \in Handlers : Recorded(g)' /\ FileRecorded(g)'
<1>1. ASSUME NEW g \in Handlers PROVE Recorded(g)' /\ FileRecorded(g)'
  <2>1. /\ answers'[g] = answers[g] /\ request'[g] = request[g] /\ pc'[g] # "audit"
        /\ answers[g] # "none" => pc[g] = "done"
    BY DEF Crash, TInv, Carrying
  <2>2. CASE wiped' = wiped \cup Begun
    <3>1. g \in Begun \/ answers[g] # "ok"
      BY <2>1 DEF Begun
    <3> QED BY <2>1, <2>2, <3>1 DEF Recorded, FileRecorded
  <2>3. CASE /\ wiped' = wiped \cup behind /\ portal' = WithSource(file, Configured)
             /\ file' \in {file, portal'}
    <3>1. portal'.evidence = file.evidence /\ portal'.audit = file.audit
      BY <2>3, InventoryAssumption, RecordsAfter DEF FInv
    <3>2. file'.evidence = file.evidence /\ file'.audit = file.audit
      BY <2>3, <3>1
    <3> QED BY <2>1, <2>3, <3>1, <3>2 DEF Recorded, FileRecorded, MustHold, Kind
  <2> QED BY <2>2, <2>3 DEF Crash
<1> QED BY <1>1

RInv == \A h \in Handlers : Recorded(h) /\ FileRecorded(h)

\* Who was answered has its evidence and its audit row, also after a crash, if
\* its last change of the portal's state, or any later one, was saved; unless
\* the state was emptied, or its file torn, after it began.
THEOREM AnswersAreRecorded == Spec => []AnsweredIsRecorded
<1>1. Init => RInv
  BY DEF Init, RInv, Recorded, FileRecorded
<1>2. TInv /\ FInv /\ RInv /\ [Next]_vars => RInv'
  <2> SUFFICES ASSUME TInv, FInv, RInv, [Next]_vars PROVE RInv'
    OBVIOUS
  <2>1. ASSUME NEW h \in Handlers, Step(h), Saved(h) PROVE RInv'
    BY <2>1, RecordedStep, FileRecordedStep DEF RInv
  <2>2. CASE Crash
    BY <2>2, RecordedCrash DEF RInv
  <2>3. CASE UNCHANGED vars
    BY <2>3 DEF vars, handlerVars, portalFile, RInv, Recorded, FileRecorded, MustHold, Kind
  <2> QED BY <2>1, <2>2, <2>3 DEF Next
<1>3. RInv => AnsweredIsRecorded
  BY DEF RInv, Recorded, MustHold, AnsweredIsRecorded
<1> QED BY <1>1, <1>2, <1>3, AlwaysTyped, PTL DEF Spec
=============================================================================
