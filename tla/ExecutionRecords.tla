--------------------------- MODULE ExecutionRecords ---------------------------
(***************************************************************************)
(* What an execution computes from its batch: the summary, the rows and    *)
(* counts of the manifest, the Guardian's request and decision, receipts,  *)
(* provenance and search documents, and the answer to a portal intent.     *)
(* They are built by functions of their own from the same inputs, and are  *)
(* read side by side later.                                                *)
(*                                                                         *)
(* A batch is the sequence of its records' risk scores; a row, a document  *)
(* and a reference stand for the record of their index.                    *)
(***************************************************************************)
EXTENDS Integers, Sequences, FiniteSets, FiniteSetsExt

CONSTANTS
  Batches,    \* the batches of records
  Settings    \* the execution states, each with the mode that its envelope asks for

\* The modes; a field that is not set reads "none".
Modes == {"dry_run", "apply"}
Tiers == {"tier_1", "tier_2", "tier_3"}
Levels == <<"low", "medium", "high", "critical">>
Classes == {"public", "internal", "confidential"}

ASSUME RecordsAssumption ==
  /\ \A b \in Batches : b \in Seq(0 .. 100)
  /\ Settings \subseteq [tier : Tiers, action : Modes \cup {"none"}, asked : Modes \cup {"none"},
                         writeback : BOOLEAN, content : BOOLEAN]

\* What a Guardian may decide.
Decisions == {[approved |-> a, hitl |-> h] : a, h \in BOOLEAN}
Allowed == [approved |-> TRUE, hitl |-> FALSE]

-----------------------------------------------------------------------------
(* The request. *)

\* determineTierBehavior: only the first tier plans nothing.
PlansWriteback(s) == s.tier # "tier_1"

\* buildActionRequestEnvelope
EnvelopeMode(s) ==
  CASE s.asked # "none"                  -> s.asked
    [] s.asked = "none" /\ s.action # "none" -> s.action
    [] OTHER                         -> "dry_run"

OperationOf(s) ==
  CASE s.writeback /\ s.action = "apply" -> "classify_and_apply_tags"
    [] ~(s.writeback /\ s.action = "apply") /\ s.content ->
         IF s.tier = "tier_3" THEN "deep_scan" ELSE "quick_scan"
    [] OTHER                             -> "metadata_scan"

-----------------------------------------------------------------------------
(* The summary. *)

SummaryLevel(score) ==
  CASE score >= 90 -> 4 [] score \in 70 .. 89 -> 3 [] score \in 40 .. 69 -> 2 [] OTHER -> 1

Records(b) == DOMAIN b

Exceptions(b) == {i \in Records(b) : b[i] >= 90}

BatchSummary(s, b) ==
  LET risk == [l \in 1 .. 4 |-> Cardinality({i \in Records(b) : SummaryLevel(b[i]) = l})] IN
    [files       |-> Len(b),
     risk        |-> risk,
     sensitivity |-> [c \in Classes |-> CASE c = "public"   -> risk[1]
                                          [] c = "internal" -> risk[2]
                                          [] OTHER          -> risk[3] + risk[4]],
     entities    |-> IF PlansWriteback(s) THEN Len(b) \div 2 ELSE 0,
     flagged     |-> Cardinality(Exceptions(b)),
     planned     |-> IF PlansWriteback(s) THEN Cardinality(Exceptions(b)) ELSE 0]

-----------------------------------------------------------------------------
(* The manifest. *)

\* riskLevelFromScore: thresholds of its own, like those of the summary.
RowLevel(score) ==
  CASE score >= 90 -> 4 [] score \in 70 .. 89 -> 3 [] score \in 40 .. 69 -> 2 [] OTHER -> 1

RowClass(level) ==
  CASE level >= 3 -> "confidential" [] level = 2 -> "internal" [] OTHER -> "public"

\* What the row says of the action, and the decision it carries.
RowPlan(s, level) ==
  CASE level >= 3 /\ s.action = "apply" /\ s.writeback ->
         [action |-> "apply_blob_metadata", status |-> "guardian_approved_pending_apply",
          decision |-> "allow"]
    [] level >= 3 /\ ~(s.action = "apply" /\ s.writeback) ->
         [action |-> "apply_blob_metadata", status |-> "planned_dry_run", decision |-> "pending"]
    [] OTHER ->
         [action |-> "none", status |-> "not_applicable", decision |-> "pending"]

Row(s, score) ==
  LET level == RowLevel(score) IN
    [level |-> level, class |-> RowClass(level), plan |-> RowPlan(s, level)]

Rows(s, b) == [i \in Records(b) |-> Row(s, b[i])]

ManifestSummary(s, b) ==
  [total   |-> Len(b),
   counts  |-> [l \in 1 .. 4 |-> Cardinality({i \in Records(b) : Rows(s, b)[i].level = l})],
   planned |-> Cardinality({i \in Records(b) : Rows(s, b)[i].level >= 3})]

\* CanApplyWriteback on such a row, in the mode of the execution.
CanApply(s, row) ==
  /\ s.action = "apply" /\ s.writeback
  /\ row.plan.decision = "allow"
  /\ row.plan.action \in {"apply_blob_metadata", "apply_blob_index_tags"}

-----------------------------------------------------------------------------
(* The Guardian. *)

MaxRisk(b) == Max({0} \cup {b[i] : i \in Records(b)})

\* The distribution is a map that is ranged over in no order: of equal counts,
\* any may win.
DominantClasses(summary) ==
  {c \in Classes : \A o \in Classes : summary.sensitivity[c] >= summary.sensitivity[o]}

DecisionRequest(s, b) ==
  [risk |-> MaxRisk(b), objects |-> Len(b), classes |-> DominantClasses(BatchSummary(s, b))]

Obligations(mutates) ==
  {"record_audit", "attach_policy_hash", "write_provenance"}
    \cup (IF mutates THEN {} ELSE {"bounded_preview"})

\* The embedded Guardian allows; its risk is that of the request.
Decision(s, b) ==
  [verdict |-> Allowed, risk |-> DecisionRequest(s, b).risk,
   obligations |-> Obligations(PlansWriteback(s))]

-----------------------------------------------------------------------------
(* Receipts, provenance, search documents. *)

\* At most so many objects are referred to.
SampleLimit == 25

SampleRefs(b) == {i \in Records(b) : i <= SampleLimit}

\* Weakened: whether write-back is enabled is forgotten.
DryRunByMode(s) == EnvelopeMode(s) # "apply"

DryRun(s) == EnvelopeMode(s) # "apply" \/ ~s.writeback

ReceiptStatus(verdict) == IF verdict = Allowed THEN "planned" ELSE "blocked"

\* buildActionReceipts: one for the whole batch, or none.
Receipts(s, b, verdict) ==
  {[status |-> ReceiptStatus(verdict), dryRun |-> DryRun(s), applied |-> FALSE,
    refs |-> SampleRefs(b)] : x \in {y \in {1} : PlansWriteback(s)}}

\* The action that the provenance of the Guardian's gate names.
ActionRequested(s) == IF PlansWriteback(s) THEN "apply_dd_protection_flags" ELSE "none"

SeverityOfCounts(counts) ==
  CASE counts[4] > 0 -> "critical"
    [] counts[4] = 0 /\ counts[3] > 0 -> "high"
    [] counts[4] = 0 /\ counts[3] = 0 /\ counts[2] > 0 -> "medium"
    [] OTHER -> "low"

SeverityOfRisk(score) ==
  CASE score >= 90 -> "critical" [] score \in 70 .. 89 -> "high"
    [] score \in 45 .. 69 -> "medium" [] score \in 1 .. 44 -> "low" [] OTHER -> "info"

SeverityOfStatus(status) ==
  CASE status \in {"blocked", "failed"} -> "high"
    [] status \in {"planned", "pending"} -> "medium"
    [] OTHER -> "info"

BatchDocument(s, b) ==
  {[kind |-> "batch", of |-> 0, severity |-> SeverityOfCounts(ManifestSummary(s, b).counts),
    action |-> "none", applied |-> FALSE]}

ObjectDocuments(s, b) ==
  {[kind |-> "object", of |-> i, severity |-> SeverityOfRisk(b[i]),
    action |-> Rows(s, b)[i].plan.action, applied |-> FALSE] : i \in Records(b)}

DecisionDocument(s, b) ==
  {[kind |-> "decision", of |-> 0, severity |-> SeverityOfRisk(Decision(s, b).risk),
    action |-> "none", applied |-> FALSE]}

\* Of the objects of a receipt, its document names the first.
ActionDocuments(s, b) ==
  {[kind |-> "action", of |-> IF b = <<>> THEN 0 ELSE 1, severity |-> SeverityOfStatus(r.status),
    action |-> ActionRequested(s), applied |-> r.applied] : r \in Receipts(s, b, Allowed)}

Documents(s, b) ==
  BatchDocument(s, b) \cup ObjectDocuments(s, b) \cup DecisionDocument(s, b)
    \cup ActionDocuments(s, b)

-----------------------------------------------------------------------------
(* Intents of the portal: EvaluateIntent. *)

Restricted == {"archive", "retrieve", "rehydrate", "quarantine", "migration", "delete",
               "move_blob", "set_tier", "rehydrate_blob", "delete_container", "delete_blob"}

Mutations == Restricted \cup
  {"apply_blob_metadata", "apply_blob_index_tags", "create_blob", "update_blob", "set_metadata",
   "set_tags", "copy_blob", "create_container", "classify_and_apply_tags"}

\* Operations that only sound like changes get a receipt too.
NeedsReceipt(operation) == operation \in Mutations \cup {"writeback_batch", "preview_apply"}

IntentReceipts(operation, mode, verdict) ==
  {[status |-> ReceiptStatus(verdict), dryRun |-> mode # "apply", applied |-> FALSE] :
     x \in {y \in {1} : NeedsReceipt(operation)}}

\* Without a complete envelope it fails, without a decision it is blocked.
EvaluateIntent(operation, mode, complete, decided) ==
  CASE ~complete             -> [status |-> "failed", obligations |-> {}, receipts |-> {}]
    [] complete /\ ~decided  -> [status |-> "blocked", obligations |-> {}, receipts |-> {}]
    [] complete /\ decided   ->
         [status |-> "ok", obligations |-> Obligations(operation \in Mutations),
          receipts |-> IntentReceipts(operation, mode, Allowed)]

-----------------------------------------------------------------------------
(* Properties. *)

\* Summary and manifest count the same, each record once; the documents' and the
\* Guardian's severities are those of the counts, but for scores from 40 to 44
\* and 0, where their thresholds differ; and what is flagged is planned.
CountsAgree(s, b) ==
  LET summary == BatchSummary(s, b)  manifest == ManifestSummary(s, b) IN
    /\ summary.risk = manifest.counts
    /\ manifest.counts[1] + manifest.counts[2] + manifest.counts[3] + manifest.counts[4] = Len(b)
    /\ \A c \in Classes : summary.sensitivity[c] =
         Cardinality({i \in Records(b) : Rows(s, b)[i].class = c})
    /\ \A c \in DecisionRequest(s, b).classes : b # <<>> =>
         \E i \in Records(b) : Rows(s, b)[i].class = c
    /\ \A i \in Exceptions(b) : Rows(s, b)[i].plan.action # "none"
    /\ summary.planned <= manifest.planned
    /\ \A d \in DecisionDocument(s, b), e \in BatchDocument(s, b) :
         d.severity # e.severity => MaxRisk(b) \in {0} \cup 40 .. 44
    /\ \A d \in ObjectDocuments(s, b) :
         d.severity # Levels[Rows(s, b)[d.of].level] => b[d.of] \in {0} \cup 40 .. 44

\* Where the execution plans at all and its envelope asks for no other mode, a
\* row may be written back exactly if the receipt is a planned one, not for a dry
\* run, and the provenance names the action; what a Guardian does not allow has
\* no planned receipt; and nothing says that it was applied.
AuthorisationAgrees(s, b) ==
  /\ PlansWriteback(s) /\ s.asked \in {"none", s.action} /\ (\E i \in Records(b) : b[i] >= 70) =>
       ((\E i \in Records(b) : CanApply(s, Rows(s, b)[i])) <=>
        (\E r \in Receipts(s, b, Allowed) :
           ~r.dryRun /\ r.status = "planned" /\ ActionRequested(s) # "none"))
  /\ \A verdict \in Decisions \ {Allowed} : \A r \in Receipts(s, b, verdict) : r.status = "blocked"
  /\ \A d \in Documents(s, b) : ~d.applied
  /\ OperationOf(s) = "classify_and_apply_tags" <=> RowPlan(s, 4).decision = "allow"

\* Every restricted operation leaves a receipt, only a mutation goes without the
\* obligation to look at bounded parts only, and an intent that is not decided
\* leaves nothing that could be carried out.
IntentsAgree ==
  \A operation \in Mutations \cup {"list_blobs", "writeback_batch"}, mode \in Modes,
     complete, decided \in BOOLEAN :
    LET result == EvaluateIntent(operation, mode, complete, decided) IN
      /\ result.status = "ok" => ("bounded_preview" \in result.obligations
                                    <=> operation \notin Mutations)
      /\ result.status = "ok" /\ operation \in Restricted =>
           \E r \in result.receipts : r.status = "planned" /\ (r.dryRun <=> mode # "apply")
      /\ result.status # "ok" => result.receipts = {}

\* All that is recorded of one execution adds up.
ExecutionAddsUp ==
  /\ \A s \in Settings, b \in Batches : CountsAgree(s, b) /\ AuthorisationAgrees(s, b)
  /\ IntentsAgree
=============================================================================
