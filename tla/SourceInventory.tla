--------------------------- MODULE SourceInventory ---------------------------
(***************************************************************************)
(* The requests that keep the inventory of Azure Blob sources: they save   *)
(* and delete sources and their access, scan, discover, reset and import.  *)
(* They share the connector's configuration (in memory), the secret store  *)
(* (one file that is read and rewritten under a mutex) and the portal's    *)
(* state (memory, saved to its file on every change, and nobody is told    *)
(* when that fails), and take the lock of each for a step at a time.       *)
(*                                                                         *)
(* Every source has an account of its own, which stands for its connection *)
(* string.  What an account lists is either nothing or something.  Who may *)
(* send a request is not modelled here, nor are the search documents that  *)
(* records are copied to.                                                  *)
(***************************************************************************)
EXTENDS PortalState, FiniteSets

CONSTANTS
  Handlers,    \* requests, each of which is sent at most once
  Nobody,      \* the secret store's mutex is free
  Sources,     \* source identifiers, and the accounts of the sources
  Local,       \* "azureblob-local", for a configuration without an identifier
  Configured,  \* the source that the environment configures
  Environment, \* the account of AZURE_STORAGE_CONNECTION_STRING, or None
  Global,      \* the name of the account-level secret
  None,
  Torn,        \* the contents of a secret file that cannot be parsed
  Backup,      \* the sources of the backup that is imported
  Requests,    \* what may be asked for
  Faults       \* what may go wrong

Kinds == {"save", "amend", "configure", "access", "delete", "scan", "seed", "discover",
          "test", "options", "reset", "reset_all", "import", "merge"}

ASSUME InventoryAssumption ==
  /\ Nobody \notin Handlers /\ Handlers # {}
  /\ Local \in Sources /\ Configured \in Sources /\ Environment \in Sources \cup {None}
  /\ None \notin Sources /\ Global \notin Sources
  /\ Requests \subseteq [kind : Kinds, source : Sources] /\ Requests # {}
  /\ Backup \in Seq(Sources) /\ Backup # <<>>
  /\ Faults \subseteq {"azure", "local", "disk", "unsaved", "crash", "torn"}

ASSUME TornAssumption == Torn \notin [Sources \cup {Global} -> Sources \cup {None}]

VARIABLES
  config,   \* the connector's configuration: its source, and whether it has an account name
  secrets,  \* the secret file
  holder,   \* who has the mutex of the secret store
  portal,   \* the portal's state in memory
  file,     \* and as it was last saved
  pc,       \* where each request stands
  request,  \* what it asks for
  seen,     \* the configuration it read first
  source,   \* the source it puts into the inventory
  todo,     \* the secrets, or sources of the backup, that it has yet to store
  copy,     \* the secrets as it read them
  answers,  \* how it was answered
  asked,    \* history: what each secret was last set to
  cut,      \* history: sources that were removed between the halves of a request
  fileCut,  \* history: cut, when the file was saved
  behind,   \* history: requests that changed the portal's state since then
  wiped     \* history: requests that began before the portal's state was emptied,
            \* or whose changes of it were lost in a crash

handlerVars == <<pc, request, seen, source, todo, copy, answers>>
portalFile == <<file, fileCut, behind>>
vars == <<config, secrets, holder, portal, portalFile, handlerVars, asked, cut, wiped>>

Names == Sources \cup {Global}
Accounts == Sources \cup {None}
Secrets == [Names -> Accounts]
NoSecrets == [n \in Names |-> None]
Unknown == Nobody  \* nothing is claimed of a secret

AnyRequest == CHOOSE q \in Requests : TRUE

Configs == [source : Sources \cup {None}, named : BOOLEAN]
Blank == [source |-> None, named |-> FALSE]
InitialConfig == [source |-> Configured, named |-> Environment # None]

Kind(h) == request[h].kind

\* The handler goes on at a label, or has answered.
Goto(h, label) == pc' = [pc EXCEPT ![h] = label]
Answer(h, a) ==
  /\ pc' = [pc EXCEPT ![h] = "done"]
  /\ answers' = [answers EXCEPT ![h] = a]

-----------------------------------------------------------------------------
(* Weakened forms of operators below, which the properties must tell apart. *)

\* The secret store has no mutex.
MutexIgnored == TRUE

\* An audit row is only kept in memory.
SavedWithoutAudit == {"remove", "upsert", "upsert_blobs", "containers", "blobs", "evidence",
                      "wipe", "restore"}

-----------------------------------------------------------------------------
(* Reading the configuration and the secrets. *)

MutexIsFree == holder = Nobody

\* Load finds nothing in a file that it cannot parse.
Load(name) == IF secrets = Torn THEN None ELSE secrets[name]

\* The connection string of azureBlobConfig.
Connection == IF Load(Global) # None THEN Load(Global) ELSE Environment

CredentialSet(s) == Load(s) # None \/ Connection # None

\* The identifier under which a configuration is listed.
ListedAs(c) == IF c.source # None THEN c.source ELSE Local

\* DELETE takes the account's name before it takes "azureblob-local"; no
\* source has the name of an account here.
IsCurrent(c, s) == s = c.source \/ (c = Blank /\ s = Local)

-----------------------------------------------------------------------------
(* The beginning of each request. *)

\* What is to be stored first, and where the handler begins.
FirstLabel(q) ==
  CASE q.kind \in {"save", "amend", "access"} -> "secret"
    [] q.kind = "configure"           -> "get"
    [] q.kind \in {"scan", "discover", "test"} -> "connect"
    [] q.kind = "options"             -> "reread"
    [] q.kind = "delete"              -> "secret"
    [] q.kind = "seed"                -> "list"
    [] q.kind = "merge"               -> "restore"
    [] OTHER                          -> "wipe"

FirstTodo(q) ==
  CASE q.kind \in {"save", "amend", "access"} -> <<q.source, Global>>
    [] q.kind = "delete" -> IF IsCurrent(config, q.source) THEN <<q.source, Global>>
                            ELSE <<q.source>>
    [] q.kind \in {"import", "merge"} -> Backup
    [] OTHER -> <<>>

Begin(h, q) ==
  /\ pc[h] = "ready"
  /\ request' = [request EXCEPT ![h] = q]
  /\ seen' = [seen EXCEPT ![h] = config]
  /\ source' = [source EXCEPT ![h] = q.source]
  /\ todo' = [todo EXCEPT ![h] = FirstTodo(q)]
  /\ Goto(h, FirstLabel(q))
  /\ UNCHANGED <<config, secrets, holder, portal, copy, answers, asked, cut, wiped>>

-----------------------------------------------------------------------------
(* The secret store: Save and Delete read the file and rewrite it. *)

ReadSecrets(h) ==
  /\ pc[h] = "secret"
  /\ MutexIsFree
  /\ IF secrets = Torn
       THEN /\ Answer(h, "failed")
            /\ UNCHANGED <<holder, copy>>
       ELSE /\ holder' = h
            /\ copy' = [copy EXCEPT ![h] = secrets]
            /\ Goto(h, "store")
            /\ UNCHANGED answers
  /\ UNCHANGED <<config, secrets, portal, request, seen, source, todo, asked, cut, wiped>>

\* Where a handler goes on when its secrets are stored.
AfterSecrets(h) ==
  CASE Kind(h) = "delete" -> IF IsCurrent(seen[h], request[h].source) THEN "unconfigure" ELSE "remove"
    [] OTHER -> "get"

SecretValue(h) == IF Kind(h) = "delete" THEN None ELSE request[h].source

WriteSecrets(h) ==
  /\ pc[h] = "store"
  /\ secrets' = [copy[h] EXCEPT ![Head(todo[h])] = SecretValue(h)]
  /\ asked' = [asked EXCEPT ![Head(todo[h])] = SecretValue(h)]
  /\ holder' = Nobody
  /\ copy' = [copy EXCEPT ![h] = NoSecrets]
  /\ todo' = [todo EXCEPT ![h] = Tail(@)]
  /\ Goto(h, IF Len(todo[h]) > 1 THEN "secret" ELSE AfterSecrets(h))
  /\ UNCHANGED <<config, portal, request, seen, source, answers, cut, wiped>>

\* The file was not written, or only in part.
WriteSecretsFails(h) ==
  /\ "disk" \in Faults
  /\ pc[h] = "store"
  /\ \/ UNCHANGED <<secrets, asked>>
     \/ /\ secrets' = Torn
        /\ asked' = [n \in Names |-> Unknown]
  /\ holder' = Nobody
  /\ copy' = [copy EXCEPT ![h] = NoSecrets]
  /\ todo' = [todo EXCEPT ![h] = <<>>]
  /\ Answer(h, "failed")
  /\ UNCHANGED <<config, portal, request, seen, source, cut, wiped>>

-----------------------------------------------------------------------------
(* POST and DELETE of the configuration. *)

\* A request that leaves out the container takes the one it reads here; its
\* secrets have been stored by then.
GetConfig(h) ==
  /\ pc[h] = "get"
  /\ seen' = [seen EXCEPT ![h] = config]
  /\ IF Kind(h) = "amend" /\ config.source = None
       THEN Answer(h, "failed")
       ELSE /\ Goto(h, IF Kind(h) = "access" /\ config.named THEN "upsert" ELSE "update")
            /\ UNCHANGED answers
  /\ UNCHANGED <<config, secrets, holder, portal, request, source, todo, copy,
                 asked, cut, wiped>>

\* A request with a connection string has an account name.  One that only sets
\* access writes back what it read, with the account's name.
UpdateConfig(h) ==
  /\ pc[h] = "update"
  /\ config' = IF Kind(h) = "access" THEN [seen[h] EXCEPT !.named = TRUE]
               ELSE [source |-> request[h].source,
                     named |-> Kind(h) # "configure" \/ seen[h].named]
  /\ Goto(h, IF Kind(h) = "access" THEN "upsert" ELSE "reread")
  /\ UNCHANGED <<secrets, holder, portal, request, seen, source, todo, copy,
                 answers, asked, cut, wiped>>

Unconfigured(c) == Blank

Unconfigure(h) ==
  /\ pc[h] = "unconfigure"
  /\ config' = Unconfigured(config)
  /\ Goto(h, "remove")
  /\ UNCHANGED <<secrets, holder, portal, request, seen, source, todo, copy,
                 answers, asked, cut, wiped>>

\* Who is between the halves of an upsert of one of these sources.
Between(gone) ==
  {source[h] : h \in {g \in Handlers : pc[g] \in {"containers", "blobs"} /\ source[g] \in gone}}

RemoveSource(h) ==
  /\ pc[h] = "remove"
  /\ portal' = WithoutSource(portal, request[h].source)
  /\ cut' = cut \cup Between({request[h].source})
  /\ Goto(h, "audit")
  /\ UNCHANGED <<config, secrets, holder, request, seen, source, todo, copy,
                 answers, asked, wiped>>

-----------------------------------------------------------------------------
(* Scan, seed, discover, test and options. *)

\* The configuration was read when the request began, the secret is now.
Connect(h) ==
  /\ pc[h] = "connect"
  /\ MutexIsFree
  /\ IF seen[h].source = None \/ Connection = None
       THEN Answer(h, "failed")
       ELSE /\ Goto(h, "list")
            /\ UNCHANGED answers
  /\ UNCHANGED <<config, secrets, holder, portal, request, seen, source, todo, copy,
                 asked, cut, wiped>>

\* A scan is of the source that was configured when it began; what is
\* discovered belongs to the one that is configured now.  Nothing is added to
\* the portal's state when nothing was found.
AfterList(h, empty) ==
  CASE Kind(h) = "scan"     -> IF empty THEN "count" ELSE "upsert"
    [] Kind(h) = "seed"     -> "upsert"
    [] Kind(h) = "discover" -> IF empty THEN "done" ELSE "reread"
    [] OTHER                -> "reread"

\* The account answers, and a batch is stored.
List(h) ==
  /\ pc[h] = "list"
  /\ \E empty \in BOOLEAN :
       IF AfterList(h, empty) = "done"
         THEN Answer(h, "ok")
         ELSE /\ Goto(h, AfterList(h, empty))
              /\ UNCHANGED answers
  /\ source' = [source EXCEPT ![h] = IF Kind(h) = "scan" THEN seen[h].source ELSE @]
  /\ UNCHANGED <<config, secrets, holder, portal, request, seen, todo, copy, asked, cut, wiped>>

\* The account may not answer, and the local store may not take the batch.
ListFails(h) ==
  /\ pc[h] = "list"
  /\ \/ "azure" \in Faults /\ Kind(h) # "seed"
     \/ "local" \in Faults /\ Kind(h) \in {"scan", "seed"}
  /\ Answer(h, "failed")
  /\ UNCHANGED <<config, secrets, holder, portal, request, seen, source, todo, copy,
                 asked, cut, wiped>>

\* What is listed from here on is known under the configuration's source.  The
\* options list a source only if one is configured or has access.
Reread(h) ==
  /\ pc[h] = "reread"
  /\ MutexIsFree
  /\ source' = [source EXCEPT ![h] = ListedAs(config)]
  /\ IF Kind(h) = "options" /\ config = Blank /\ ~CredentialSet(Local)
       THEN Answer(h, "ok")
       ELSE /\ Goto(h, "upsert")
            /\ UNCHANGED answers
  /\ UNCHANGED <<config, secrets, holder, portal, request, seen, todo, copy,
                 asked, cut, wiped>>

\* UpsertAzureContainers and UpsertAzureBlobs call UpsertAzureSource before
\* they take the lock again.
UpsertSource(h) ==
  /\ pc[h] \in {"upsert", "upsert_blobs"}
  /\ portal' = WithSource(portal, source[h])
  /\ cut' = cut \ {source[h]}
  /\ IF pc[h] = "upsert" /\ Kind(h) \notin {"scan", "seed", "discover", "import", "merge"}
       THEN Answer(h, "ok")
       ELSE /\ Goto(h, IF pc[h] = "upsert" THEN "containers" ELSE "blobs")
            /\ UNCHANGED answers
  /\ UNCHANGED <<config, secrets, holder, request, seen, source, todo, copy,
                 asked, wiped>>

AddContainers(h) ==
  /\ pc[h] = "containers"
  /\ portal' = WithContainers(portal, source[h])
  /\ IF Kind(h) = "discover"
       THEN Answer(h, "ok")
       ELSE /\ Goto(h, "upsert_blobs")
            /\ UNCHANGED answers
  /\ UNCHANGED <<config, secrets, holder, request, seen, source, todo, copy,
                 asked, cut, wiped>>

AddBlobs(h) ==
  /\ pc[h] = "blobs"
  /\ portal' = WithBlobs(portal, source[h])
  /\ Goto(h, IF Kind(h) \in {"import", "merge"} THEN "audit" ELSE "count")
  /\ UNCHANGED <<config, secrets, holder, request, seen, source, todo, copy,
                 answers, asked, cut, wiped>>

AfterCount == "evidence"

\* The records of the batch are counted in the local store.
Count(h) ==
  /\ pc[h] = "count"
  /\ \/ Goto(h, AfterCount) /\ UNCHANGED answers
     \/ "local" \in Faults /\ Answer(h, "failed")
  /\ UNCHANGED <<config, secrets, holder, portal, request, seen, source, todo, copy,
                 asked, cut, wiped>>

RecordEvidence(h) ==
  /\ pc[h] = "evidence"
  /\ portal' = WithEvidence(portal, h)
  /\ Goto(h, "audit")
  /\ UNCHANGED <<config, secrets, holder, request, seen, source, todo, copy,
                 answers, asked, cut, wiped>>

\* The last step of every request that leaves an audit row.
RecordAudit(h) ==
  /\ pc[h] = "audit"
  /\ portal' = WithAudit(portal, h)
  /\ Answer(h, "ok")
  /\ UNCHANGED <<config, secrets, holder, request, seen, source, todo, copy,
                 asked, cut, wiped>>

-----------------------------------------------------------------------------
(* Reset and import. *)

Wipe(h) ==
  /\ pc[h] = "wipe"
  /\ portal' = EmptyPortal
  /\ cut' = cut \cup Between(Sources)
  /\ wiped' = wiped \cup {g \in Handlers \ {h} : pc[g] # "ready"}
  /\ Goto(h, IF Kind(h) = "import" THEN "restore" ELSE "local")
  /\ UNCHANGED <<config, secrets, holder, request, seen, source, todo, copy,
                 answers, asked>>

\* The local store is emptied; if that fails the request ends, with the portal
\* emptied and no audit row.  Jobs and artifacts follow, which cannot fail.
ResetLocalStore(h) ==
  /\ pc[h] = "local"
  /\ \/ /\ Goto(h, IF Kind(h) = "reset_all" THEN "unlink" ELSE "audit")
        /\ UNCHANGED answers
     \/ "local" \in Faults /\ Answer(h, "failed")
  /\ UNCHANGED <<config, secrets, holder, portal, request, seen, source, todo, copy,
                 asked, cut, wiped>>

\* The secret file is removed without the secret store's mutex: one who has
\* read it will write it again.
RemoveSecretFile(h) ==
  /\ pc[h] = "unlink"
  /\ secrets' = NoSecrets
  /\ asked' = [n \in Names |-> IF MutexIsFree THEN None ELSE Unknown]
  /\ Goto(h, "audit")
  /\ UNCHANGED <<config, holder, portal, request, seen, source, todo, copy, answers,
                 cut, wiped>>

\* One source of the backup.
RestoreSource(h) ==
  /\ pc[h] = "restore"
  /\ portal' = WithSource(portal, Head(todo[h]))
  /\ cut' = cut \ {Head(todo[h])}
  /\ todo' = [todo EXCEPT ![h] = Tail(@)]
  /\ IF Len(todo[h]) > 1
       THEN UNCHANGED <<pc, source>>
       ELSE \* All items are given to the first source.
            /\ source' = [source EXCEPT ![h] = Backup[1]]
            /\ Goto(h, "upsert")
  /\ UNCHANGED <<config, secrets, holder, request, seen, copy, answers, asked, wiped>>

-----------------------------------------------------------------------------
(* saveLocked, in every step that changes the portal's state. *)

Begun == {h \in Handlers : pc[h] # "ready"}

Changing == {"remove", "upsert", "upsert_blobs", "containers", "blobs", "evidence", "audit",
             "wipe", "restore"}

\* A save may fail and leave the file as it was, or torn.
Saved(h) ==
  IF pc[h] \notin Changing
    THEN UNCHANGED portalFile
    ELSE \/ file' = portal' /\ fileCut' = cut' /\ behind' = {}
         \/ /\ "unsaved" \in Faults
            /\ behind' = behind \cup {h}
            /\ UNCHANGED <<file, fileCut>>

-----------------------------------------------------------------------------
(* NewServer, and the end of the process. *)

\* The environment's access is saved where there is none.
EnvironmentNames == IF Environment = None THEN {} ELSE {Configured, Global}
Seeded(s) ==
  [n \in Names |-> IF n \in EnvironmentNames /\ s[n] = None THEN Environment ELSE s[n]]

\* A file that was being written may be torn; a torn portal file is read as an
\* empty state, a torn secret file stays what it is.
Crash ==
  /\ "crash" \in Faults
  /\ \E tornSecrets \in {FALSE} \cup {holder # Nobody /\ "torn" \in Faults},
        tornPortal \in {FALSE} \cup {"torn" \in Faults} :
       /\ IF tornSecrets \/ secrets = Torn
            THEN /\ secrets' = Torn
                 /\ asked' = [n \in Names |-> Unknown]
            ELSE /\ secrets' = Seeded(secrets)
                 /\ asked' = [n \in Names |-> IF asked[n] = Unknown THEN Unknown
                                              ELSE Seeded(secrets)[n]]
       /\ portal' = WithSource(IF tornPortal THEN EmptyPortal ELSE file, Configured)
       /\ wiped' = wiped \cup IF tornPortal THEN Begun ELSE behind
       /\ cut' = IF tornPortal THEN {} ELSE fileCut \ {Configured}
       /\ \/ file' = portal' /\ fileCut' = cut'
          \/ "unsaved" \in Faults /\ ~tornPortal /\ UNCHANGED <<file, fileCut>>
  /\ behind' = {}
  /\ config' = InitialConfig
  /\ holder' = Nobody
  /\ pc' = [h \in Handlers |-> IF pc[h] = "ready" THEN "ready" ELSE "done"]
  /\ todo' = [h \in Handlers |-> <<>>]
  /\ copy' = [h \in Handlers |-> NoSecrets]
  /\ UNCHANGED <<request, seen, source, answers>>

-----------------------------------------------------------------------------
Init ==
  /\ config = InitialConfig
  /\ secrets = Seeded(NoSecrets)
  /\ holder = Nobody
  /\ portal = WithSource(EmptyPortal, Configured)
  /\ file = portal
  /\ pc = [h \in Handlers |-> "ready"]
  /\ request = [h \in Handlers |-> AnyRequest]
  /\ seen = [h \in Handlers |-> Blank]
  /\ source = [h \in Handlers |-> Local]
  /\ todo = [h \in Handlers |-> <<>>]
  /\ copy = [h \in Handlers |-> NoSecrets]
  /\ answers = [h \in Handlers |-> "none"]
  /\ asked = Seeded(NoSecrets)
  /\ cut = {} /\ fileCut = {}
  /\ behind = {} /\ wiped = {}

Step(h) ==
  \/ \E q \in Requests : Begin(h, q)
  \/ ReadSecrets(h) \/ WriteSecrets(h) \/ WriteSecretsFails(h)
  \/ GetConfig(h) \/ UpdateConfig(h) \/ Unconfigure(h) \/ RemoveSource(h)
  \/ Connect(h) \/ List(h) \/ ListFails(h) \/ Reread(h)
  \/ UpsertSource(h) \/ AddContainers(h) \/ AddBlobs(h)
  \/ Count(h) \/ RecordEvidence(h) \/ RecordAudit(h)
  \/ Wipe(h) \/ ResetLocalStore(h) \/ RemoveSecretFile(h) \/ RestoreSource(h)

Next == (\E h \in Handlers : Step(h) /\ Saved(h)) \/ Crash

Spec == Init /\ [][Next]_vars

-----------------------------------------------------------------------------
(* Properties. *)

Labels == {"ready", "secret", "store", "get", "update", "unconfigure", "remove", "connect",
           "list", "reread", "upsert", "containers", "upsert_blobs", "blobs", "count",
           "evidence", "audit", "wipe", "local", "unlink", "restore", "done"}

PortalOK(p) ==
  /\ p.sources \subseteq Sources /\ p.containers \subseteq Sources /\ p.blobs \subseteq Sources
  /\ p.evidence \in Seq(Handlers) /\ p.audit \in Seq(Handlers)

StateOK ==
  /\ config \in Configs
  /\ secrets \in Secrets \cup {Torn}
  /\ holder \in Handlers \cup {Nobody}
  /\ PortalOK(portal)
  /\ pc \in [Handlers -> Labels]
  /\ request \in [Handlers -> Requests]
  /\ seen \in [Handlers -> Configs]
  /\ source \in [Handlers -> Sources]
  /\ todo \in [Handlers -> Seq(Names)]
  /\ copy \in [Handlers -> Secrets]
  /\ answers \in [Handlers -> {"none", "ok", "failed"}]
  /\ asked \in [Names -> Accounts \cup {Unknown}]
  /\ cut \subseteq Sources
  /\ wiped \subseteq Handlers

FileOK == PortalOK(file) /\ fileCut \subseteq Sources /\ behind \subseteq Handlers

\* Every variable has its type.
InventoryTypeOK == StateOK /\ FileOK

\* Every container and blob of the inventory belongs to a source that is
\* listed, whatever is deleted, reset and imported meanwhile; but for a source
\* that is removed just when a request has listed it and is about to add items.
NothingOrphaned ==
  portal.containers \cup portal.blobs \subseteq portal.sources \cup cut

\* Whatever other requests do to the file meanwhile, a secret is what the last
\* request that wrote it made of it, and a secret that was deleted, or removed
\* by a reset, does not come back.  Nothing is claimed after a reset that
\* removed the file while it was being rewritten, nor of a torn file.
SecretsAsAsked ==
  \A n \in Names : asked[n] # Unknown => secrets # Torn /\ secrets[n] = asked[n]

\* A scan that was answered has its evidence and its audit row, a deletion, a
\* reset and an import their audit row, also after a crash, if the last change
\* that they made of the portal's state, or any later one, could be saved: but
\* for those that began before another request emptied the portal's state, or
\* before its file was torn.
AnsweredIsRecorded ==
  \A h \in Handlers \ wiped :
    answers[h] = "ok" =>
      /\ Kind(h) \in {"scan", "seed"} => Holds(portal.evidence, h)
      /\ Kind(h) \in {"scan", "seed", "delete", "reset", "reset_all", "import", "merge"}
           => Holds(portal.audit, h)
=============================================================================
