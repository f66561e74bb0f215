------------------------------ MODULE Workbench ------------------------------
(***************************************************************************)
(* The Azure Blob workbench: requests that read and change the containers  *)
(* and blobs of one account, and record in the portal's state what they    *)
(* did.  A request is authorized, checked, confirmed, carried out in up to *)
(* four calls to the account, each of which may fail or lose its answer,   *)
(* and recorded piece by piece; others use the account and the portal      *)
(* meanwhile.                                                              *)
(*                                                                         *)
(* The account is external: its blobs have a content, metadata, tags and a *)
(* tier, each known by who set it last; a copy is made when it is started. *)
(* The Guardian allows every valid intent.  The saved access is kept by    *)
(* SourceInventory, the halves of the inventory's updates are seen there.  *)
(***************************************************************************)
EXTENDS PortalState, FiniteSets

CONSTANTS
  Handlers,    \* requests, each of which is sent at most once
  Original,    \* who set what was there before, or was set by others
  Absent,      \* a blob that is not there
  Blobs,
  Containers,
  Holder,      \* the container of each blob
  Source,      \* the source the requests select
  Requests,    \* what may be asked for
  Modes,       \* the authorization modes: "audit" or "enforce"
  Faults       \* what may go wrong

Reads == {"list_containers", "list_blobs", "view_blob", "download_blob"}
Mutations == {"create_blob", "update_blob", "set_metadata", "set_tags", "copy_blob",
              "move_blob", "set_tier", "rehydrate_blob", "create_container",
              "delete_container", "delete_blob"}
Operations == Reads \cup Mutations
Roles == {"platform_admin", "security_officer", "compliance_officer", "data_steward",
          "data_analyst"}
Parts == {"content", "metadata", "tags", "tier"}

\* "extras" are the content type, metadata and tags of an upload; "valid" that
\* all required fields are there.
RequestSet == [op : Operations, blob : Blobs, target : Blobs, role : Roles, dry : BOOLEAN,
               confirmed : BOOLEAN, overwrite : BOOLEAN, extras : BOOLEAN, valid : BOOLEAN]

ASSUME WorkbenchAssumption ==
  /\ Original \notin Handlers
  /\ Absent \notin [Parts -> Handlers \cup {Original}]
  /\ Holder \in [Blobs -> Containers]
  /\ Requests \subseteq RequestSet /\ Requests # {}
  /\ Modes \subseteq {"audit", "enforce"} /\ Modes # {}
  /\ Faults \subseteq {"azure", "access", "hangup", "others", "unsaved", "crash", "torn"}

VARIABLES
  mode,       \* how roles are enforced
  containers, \* the containers that exist
  blobs,      \* the blobs, by part who set it last
  portal,     \* the portal's state in memory
  file,       \* and as it was last saved
  pc,         \* where each request stands
  request,    \* what it asks for
  todo,       \* the calls to the account that it has yet to make
  answers,    \* how it was answered
  written,    \* history: the calls that changed the account
  vacant,     \* history: the blob was not there when it looked
  behind,     \* history: requests that changed the portal's state since it was saved
  wiped       \* history: requests whose changes of it were lost in a crash

vars == <<mode, containers, blobs, portal, file, pc, request, todo, answers, written, vacant,
          behind, wiped>>

Setters == Handlers \cup {Original}
AnyRequest == CHOOSE q \in Requests : TRUE
AllOf(who) == [p \in Parts |-> who]
InContainer(c) == {b \in Blobs : Holder[b] = c}

Op(h) == request[h].op
Mutates(h) == Op(h) \in Mutations
Previews(h) == request[h].dry /\ Mutates(h)
Record(h, status) == [by |-> h, status |-> status]
Denial(h) == Record(h, "denied")
Records == [by : Handlers, status : {"denied", "ok", "preview"}]
ActionRecords == [by : Handlers, status : {"executed", "planned"}]

Goto(h, label) == pc' = [pc EXCEPT ![h] = label]
Answer(h, a) ==
  /\ pc' = [pc EXCEPT ![h] = "done"]
  /\ answers' = [answers EXCEPT ![h] = a]

-----------------------------------------------------------------------------
(* Weakened forms of operators below, which the properties must tell apart. *)

\* In audit mode a role that is not allowed leaves no trace.
MustAuditNever(q) == FALSE

\* A preview is recorded as if it were carried out.
StatusAlwaysOk(h) == "ok"

\* An upload never looks whether the blob is there.
ChecksNothing(h) == FALSE

-----------------------------------------------------------------------------
(* What an operation needs and does. *)

AllowedRoles(op) ==
  IF op \in {"delete_blob", "delete_container", "move_blob", "set_tier", "rehydrate_blob"}
    THEN {"platform_admin", "security_officer", "compliance_officer"}
    ELSE {"platform_admin", "security_officer", "data_steward"}

Allowed(q) == q.dry \/ q.op \notin Mutations \/ q.role \in AllowedRoles(q.op)

MustAudit(q) == ~Allowed(q)

NeedsConfirmation(op) ==
  op \in {"move_blob", "set_tier", "rehydrate_blob", "delete_container", "delete_blob"}

ChecksExistence(h) == Op(h) = "create_blob" /\ ~request[h].overwrite

\* The calls to the account, in order.
Writes(q) ==
  CASE q.op \in {"create_blob", "update_blob"} ->
         <<"upload">> \o (IF q.extras THEN <<"headers", "metadata", "tags">> ELSE <<>>)
    [] q.op = "set_metadata"                   -> <<"metadata">>
    [] q.op = "set_tags"                       -> <<"tags">>
    [] q.op \in {"copy_blob", "move_blob"}     -> <<"copy">>
    [] q.op \in {"set_tier", "rehydrate_blob"} -> <<"tier">>
    [] q.op = "create_container"               -> <<"create">>
    [] q.op = "delete_container"               -> <<"drop">>
    [] q.op = "delete_blob"                    -> <<"delete">>
    [] OTHER                                   -> <<>>

Calls == {"upload", "headers", "metadata", "tags", "copy", "tier", "create", "drop", "delete"}

\* The properties of the blob are read back, and answered.
ReadsDetails(op) ==
  op \in {"view_blob", "download_blob", "create_blob", "update_blob", "set_metadata",
          "set_tags", "set_tier", "rehydrate_blob"}

IsThere(b) == blobs[b] # Absent

-----------------------------------------------------------------------------
(* The account. *)

\* A call to the account can do what it is asked for.
CanDo(call, q) ==
  CASE call = "upload" -> Holder[q.blob] \in containers
    [] call = "copy"   -> IsThere(q.blob) /\ Holder[q.target] \in containers
    [] call = "create" -> Holder[q.blob] \notin containers
    [] call = "drop"   -> Holder[q.blob] \in containers
    [] OTHER           -> IsThere(q.blob)

CanRead(q) ==
  /\ ReadsDetails(q.op) => IsThere(q.blob)
  /\ q.op = "list_blobs" => Holder[q.blob] \in containers

\* What it makes of the blobs; headers are not distinguished from the content.
Done(call, q, h) ==
  CASE call = "upload" -> [blobs EXCEPT ![q.blob] = AllOf(h)]
    [] call = "copy"   -> [blobs EXCEPT ![q.target] =
                             [blobs[q.blob] EXCEPT !.tags = h, !.tier = h]]
    [] call = "drop"   -> [b \in Blobs |-> IF Holder[b] = Holder[q.blob] THEN Absent ELSE blobs[b]]
    [] call = "delete" -> [blobs EXCEPT ![q.blob] = Absent]
    [] call \in {"metadata", "tags", "tier"} -> [blobs EXCEPT ![q.blob][call] = h]
    [] OTHER           -> blobs

ContainersAfter(call, q) ==
  CASE call = "create" -> containers \cup {Holder[q.blob]}
    [] call = "drop"   -> containers \ {Holder[q.blob]}
    [] OTHER           -> containers

-----------------------------------------------------------------------------
(* A request. *)

\* authorizeWorkbenchOperation; a request that is not allowed leaves an audit
\* row, and goes on in audit mode.
Begin(h, q) ==
  /\ pc[h] = "ready"
  /\ request' = [request EXCEPT ![h] = q]
  /\ portal' = IF MustAudit(q) THEN WithAudit(portal, Denial(h)) ELSE portal
  /\ IF ~Allowed(q) /\ mode = "enforce"
       THEN Answer(h, "forbidden")
       ELSE /\ Goto(h, "intent")
            /\ UNCHANGED answers
  /\ UNCHANGED <<mode, containers, blobs, todo, written, vacant, wiped>>

\* EvaluateIntent, then the client.  The portal hung up, or there is no access,
\* or a field is missing.  Nothing but these answers tells of the request.
Refuse(h) ==
  /\ pc[h] = "intent"
  /\ \/ "hangup" \in Faults /\ Answer(h, "blocked")
     \/ /\ "access" \in Faults \/ ~request[h].valid
        /\ Answer(h, IF Op(h) \in {"list_containers", "list_blobs"} THEN "setup_required"
                     ELSE "failed")
  /\ UNCHANGED <<mode, containers, blobs, portal, request, todo, written, vacant, wiped>>

\* A dry run ends before the confirmation is asked for.
Prepare(h) ==
  /\ pc[h] = "intent"
  /\ request[h].valid
  /\ IF /\ ~Previews(h) /\ NeedsConfirmation(Op(h)) /\ ~request[h].confirmed
       THEN Answer(h, "failed") /\ UNCHANGED todo
       ELSE /\ todo' = [todo EXCEPT ![h] = IF request[h].dry THEN <<>> ELSE Writes(request[h])]
            /\ Goto(h, IF ChecksExistence(h) THEN "check"
                       ELSE IF Previews(h) THEN "record"
                       ELSE IF Mutates(h) THEN "write" ELSE "read")
            /\ UNCHANGED answers
  /\ UNCHANGED <<mode, containers, blobs, portal, request, written, vacant, wiped>>

\* workbenchBlobExists, also for a dry run.
CheckExistence(h) ==
  /\ pc[h] = "check"
  /\ IF IsThere(request[h].blob)
       THEN Answer(h, "failed") /\ UNCHANGED vacant
       ELSE /\ Goto(h, IF Previews(h) THEN "record" ELSE "write")
            /\ vacant' = [vacant EXCEPT ![h] = TRUE]
            /\ UNCHANGED answers
  /\ UNCHANGED <<mode, containers, blobs, portal, request, todo, written, wiped>>

\* One call to the account that succeeds.
Write(h) ==
  /\ pc[h] = "write"
  /\ LET call == Head(todo[h]) IN
       /\ CanDo(call, request[h])
       /\ blobs' = Done(call, request[h], h)
       /\ containers' = ContainersAfter(call, request[h])
       /\ written' = [written EXCEPT ![h] = @ \cup {call}]
  /\ todo' = [todo EXCEPT ![h] = Tail(@)]
  /\ Goto(h, IF Len(todo[h]) > 1 THEN "write"
             ELSE IF ReadsDetails(Op(h)) THEN "read" ELSE "record")
  /\ UNCHANGED <<mode, portal, request, answers, vacant, wiped>>

\* The call fails, or its answer is lost: an error is answered, and neither
\* what was done before nor what may be done now is recorded.
WriteFails(h) ==
  /\ pc[h] = "write"
  /\ LET call == Head(todo[h]) IN
       \/ /\ ~CanDo(call, request[h]) \/ "azure" \in Faults
          /\ UNCHANGED <<blobs, containers, written>>
       \/ /\ CanDo(call, request[h]) /\ "azure" \in Faults
          /\ blobs' = Done(call, request[h], h)
          /\ containers' = ContainersAfter(call, request[h])
          /\ written' = [written EXCEPT ![h] = @ \cup {call}]
  /\ Answer(h, "failed")
  /\ UNCHANGED <<mode, portal, request, todo, vacant, wiped>>

\* What the operation reads, or the details of the blob that it has changed.
Read(h) ==
  /\ pc[h] = "read"
  /\ \/ CanRead(request[h]) /\ Goto(h, "record") /\ UNCHANGED answers
     \/ (~CanRead(request[h]) \/ "azure" \in Faults) /\ Answer(h, "failed")
  /\ UNCHANGED <<mode, containers, blobs, portal, request, todo, written, vacant, wiped>>

-----------------------------------------------------------------------------
(* persistAzureWorkbenchResponse. *)

Status(h) == IF Previews(h) THEN "preview" ELSE "ok"

\* Containers are listed where the answer has some; blobs, and details.
RecordInventory(h) ==
  /\ pc[h] = "record"
  /\ portal' =
       LET listed == WithSource(portal, Source)
           held == IF ~Previews(h) /\ Op(h) \in {"list_containers", "create_container"}
                     THEN WithContainers(listed, Source) ELSE listed
           full == IF ~Previews(h) /\ (Op(h) = "list_blobs" \/ ReadsDetails(Op(h)))
                     THEN WithBlobs(held, Source) ELSE held
       IN WithHistory(full, Record(h, Status(h)))
  /\ Goto(h, "evidence")
  /\ UNCHANGED <<mode, containers, blobs, request, todo, answers, written, vacant, wiped>>

RecordEvidence(h) ==
  /\ pc[h] = "evidence"
  /\ portal' = WithEvidence(portal, Record(h, Status(h)))
  /\ Goto(h, "audit")
  /\ UNCHANGED <<mode, containers, blobs, request, todo, answers, written, vacant, wiped>>

RecordAudit(h) ==
  /\ pc[h] = "audit"
  /\ portal' = WithAudit(portal, Record(h, Status(h)))
  /\ IF Mutates(h) THEN Goto(h, "action") /\ UNCHANGED answers
     ELSE Answer(h, "ok")
  /\ UNCHANGED <<mode, containers, blobs, request, todo, written, vacant, wiped>>

ActionStatus(status) == IF status = "ok" THEN "executed" ELSE "planned"

RecordAction(h) ==
  /\ pc[h] = "action"
  /\ portal' = WithAction(portal, Record(h, ActionStatus(Status(h))))
  /\ Answer(h, Status(h))
  /\ UNCHANGED <<mode, containers, blobs, request, todo, written, vacant, wiped>>

-----------------------------------------------------------------------------
(* Everything else. *)

\* Other clients of the account.
OthersWrite(b) ==
  /\ "others" \in Faults
  /\ Holder[b] \in containers
  /\ blobs' \in {[blobs EXCEPT ![b] = AllOf(Original)], [blobs EXCEPT ![b] = Absent]}
  /\ UNCHANGED <<mode, containers, portal, file, pc, request, todo, answers, written, vacant,
                 behind, wiped>>

Begun == {h \in Handlers : pc[h] # "ready"}

\* A step that changes the portal's state.
Saves(h) ==
  \/ pc[h] \in {"record", "evidence", "audit", "action"}
  \/ pc[h] = "ready" /\ MustAudit(request'[h])

\* saveLocked: nobody is told when a save fails, which leaves the file as it
\* was, or torn.
Saved(h) ==
  IF ~Saves(h)
    THEN UNCHANGED <<file, behind>>
    ELSE \/ file' = portal' /\ behind' = {}
         \/ "unsaved" \in Faults /\ behind' = behind \cup {h} /\ UNCHANGED file

\* The process ends; what was written to the account stays, and the portal's
\* state as it was last saved, unless its file was torn.
Crash ==
  /\ "crash" \in Faults
  /\ pc' = [h \in Handlers |-> IF pc[h] = "ready" THEN "ready" ELSE "done"]
  /\ todo' = [h \in Handlers |-> <<>>]
  /\ \/ portal' = file /\ wiped' = wiped \cup behind
     \/ "torn" \in Faults /\ portal' = EmptyPortal /\ wiped' = wiped \cup Begun
  /\ file' = portal' /\ behind' = {}
  /\ UNCHANGED <<mode, containers, blobs, request, answers, written, vacant>>

-----------------------------------------------------------------------------
Init ==
  /\ mode \in Modes
  /\ containers = Containers
  /\ blobs \in [Blobs -> {AllOf(Original), Absent}]
  /\ portal = EmptyPortal /\ file = portal
  /\ pc = [h \in Handlers |-> "ready"]
  /\ request = [h \in Handlers |-> AnyRequest]
  /\ todo = [h \in Handlers |-> <<>>]
  /\ answers = [h \in Handlers |-> "none"]
  /\ written = [h \in Handlers |-> {}]
  /\ vacant = [h \in Handlers |-> FALSE]
  /\ behind = {} /\ wiped = {}

Step(h) ==
  \/ \E q \in Requests : Begin(h, q)
  \/ Refuse(h) \/ Prepare(h) \/ CheckExistence(h) \/ Write(h) \/ WriteFails(h) \/ Read(h)
  \/ RecordInventory(h) \/ RecordEvidence(h) \/ RecordAudit(h) \/ RecordAction(h)

Next ==
  \/ \E h \in Handlers : Step(h) /\ Saved(h)
  \/ \E b \in Blobs : OthersWrite(b)
  \/ Crash

Spec == Init /\ [][Next]_vars

-----------------------------------------------------------------------------
(* Properties. *)

Labels == {"ready", "intent", "check", "write", "read", "record", "evidence", "audit",
           "action", "done"}

PortalOK(p) ==
  /\ p.sources \subseteq {Source} /\ p.containers \subseteq {Source} /\ p.blobs \subseteq {Source}
  /\ p.evidence \in Seq(Records) /\ p.audit \in Seq(Records)
  /\ p.actions \in Seq(ActionRecords) /\ p.history \in Seq(Records)

StateOK ==
  /\ mode \in Modes
  /\ containers \subseteq Containers
  /\ blobs \in [Blobs -> [Parts -> Setters] \cup {Absent}]
  /\ PortalOK(portal)
  /\ pc \in [Handlers -> Labels]
  /\ request \in [Handlers -> Requests]
  /\ todo \in [Handlers -> Seq(Calls)]
  /\ answers \in [Handlers -> {"none", "forbidden", "blocked", "setup_required", "failed",
                               "ok", "preview"}]
  /\ written \in [Handlers -> SUBSET Calls]
  /\ vacant \in [Handlers -> BOOLEAN]
  /\ wiped \subseteq Handlers

FileOK == PortalOK(file) /\ behind \subseteq Handlers

\* Every variable has its type.
WorkbenchTypeOK == StateOK /\ FileOK

\* The account is only changed for a request that was no dry run, was confirmed
\* where that is asked for, and whose role was allowed or is on record, however
\* the portal's state was filled and cut meanwhile; but for a record that a crash
\* lost, as it could not be saved or the file was torn.
WritesAreGoverned ==
  \A h \in Handlers :
    written[h] # {} =>
      LET q == request[h] IN
        /\ ~q.dry
        /\ NeedsConfirmation(q.op) => q.confirmed
        /\ \/ q.role \in AllowedRoles(q.op)
           \/ mode = "audit" /\ (h \in wiped \/ Holds(portal.audit, Denial(h)))

Elements(s) == {s[i] : i \in DOMAIN s}

\* What is recorded is true: "ok" and "executed" of a request all of whose calls
\* changed the account, "preview" and "planned" of one that changed nothing;
\* and a request that is answered with either has its evidence, audit row and
\* action, also after a crash, if the last change that it made of the portal's
\* state, or any later one, could be saved; but for a file that was torn.
RecordsAreTrue ==
  \A h \in Handlers :
    /\ \A r \in Elements(portal.evidence) \cup Elements(portal.audit) \cup Elements(portal.actions)
                  \cup Elements(portal.history) :
         r.by = h =>
           /\ r.status \in {"ok", "executed"} => written[h] = Elements(Writes(request[h]))
           /\ r.status \in {"preview", "planned"} => written[h] = {}
    /\ answers[h] \in {"ok", "preview"} /\ h \notin wiped =>
         /\ Holds(portal.evidence, Record(h, answers[h]))
         /\ Holds(portal.audit, Record(h, answers[h]))
         /\ Mutates(h) => Holds(portal.actions, Record(h, ActionStatus(answers[h])))

\* A request may replace or remove this blob: it was asked to, or the blob was
\* not there when it looked.
MayReplace(h, b) ==
  LET q == request[h] IN
    \/ q.op \in {"update_blob", "delete_blob"} /\ q.blob = b
    \/ q.op = "create_blob" /\ q.blob = b /\ (q.overwrite \/ vacant[h])
    \/ q.op \in {"copy_blob", "move_blob"} /\ q.target = b
    \/ q.op = "delete_container" /\ Holder[q.blob] = Holder[b]

\* No content is replaced or removed unless a request in progress was asked to,
\* or found the place vacant: a move leaves its source, setting metadata, tags
\* and tier leaves the content, whatever else is under way.
NothingLostUnasked ==
  [][\A b \in Blobs :
       /\ IsThere(b)
       /\ blobs'[b] = Absent \/ blobs'[b].content # blobs[b].content
       => \/ \E h \in Handlers : pc[h] = "write" /\ ~UNCHANGED <<pc[h], todo[h]>> /\ MayReplace(h, b)
          \/ UNCHANGED <<pc, todo>>]_vars
=============================================================================
