--------------------------- MODULE ExternalRuntimes ---------------------------
(***************************************************************************)
(* Calls to the runtimes of connectors and of AI providers: a gate that    *)
(* looks at the request and at the manifest, a call that may fail, time    *)
(* out after it was carried out, or be answered with anything, and the     *)
(* response that is made of it.  Each definition is the set of the         *)
(* possible outcomes of one call.  The runtimes are external.              *)
(***************************************************************************)
EXTENDS Naturals, FiniteSets

CONSTANTS
  Connectors,      \* connector manifests
  ConnectorCalls,  \* requests to them
  Providers,       \* AI provider manifests
  ProviderCalls    \* requests to them

ConnectorOperations == {"health", "discover_sources", "scan_metadata", "preview_action",
                        "execute_action"}
Kinds == {"builtin", "http", "external_process", "external_process_or_http", "unknown"}
Tasks == {"chat", "classify", "summarize", "explain_policy", "recommend_actions",
          "prepare_hitl"}
Risks == {"critical", "high", "low", "", "absent"}

\* A row of evidence, with what its two fields say of its risk.
Evidence == [id : Nat, level : Risks, risk : Risks]

\* A declared action, and what it needs; "confirm" that it has a confirmation text.
DeclaredActions == [id : STRING, guardian : BOOLEAN, hitl : BOOLEAN, confirm : BOOLEAN]

ASSUME RuntimesAssumption ==
  /\ \A m \in Connectors :
       m.kind \in Kinds /\ m.entrypoint \in BOOLEAN /\ m.actions \subseteq DeclaredActions
  /\ \A q \in ConnectorCalls :
       /\ q.operation \in ConnectorOperations \cup {"unknown"}
       /\ {q.apply, q.preview, q.allowed, q.approved, q.confirmed, q.endpoint} \subseteq BOOLEAN
  /\ \A m \in Providers :
       /\ m.kind \in Kinds \ {"external_process_or_http"}
       /\ m.tasks \subseteq Tasks /\ m.endpoint \in BOOLEAN
  /\ \A q \in ProviderCalls :
       /\ q.task \in Tasks \cup {"unknown"}
       /\ q.autonomous \in BOOLEAN /\ q.archive \in BOOLEAN /\ q.evidence \subseteq Evidence

-----------------------------------------------------------------------------
(* Connectors. *)

\* The response says so, and the request, which is passed on, too.
DryRun(q) == q.preview \/ ~q.apply \/ q.operation = "preview_action"

Applies(q) == q.operation = "execute_action" /\ ~q.preview /\ q.apply

\* Weakened: an action that asks for no Guardian needs nothing else either.
PermitsUnguarded(a, q) == a.id = q.action /\ (a.guardian => q.allowed)

Permits(a, q) ==
  /\ a.id = q.action
  /\ a.guardian => q.allowed
  /\ a.hitl => q.approved
  /\ a.confirm => q.confirmed

\* blockedApplyReason; ids of one manifest are distinct.
Blocked(m, q) == Applies(q) /\ ~\E a \in m.actions : Permits(a, q)

Response(status, q, applied) ==
  [status |-> status, dryRun |-> DryRun(q), safe |-> TRUE, applied |-> applied]

Kept(status, q) == [reached |-> FALSE, response |-> Response(status, q, FALSE)]

\* The call fails, before or after the runtime has carried it out.
Lost(q) == {[reached |-> r, response |-> Response("failed", q, FALSE)] : r \in BOOLEAN}

\* Whatever the runtime answers, what it says of safety is not taken over.
Answered(q) ==
  {[reached |-> TRUE, response |-> Response(s, q, applied)] :
     s \in {"ok", "failed", "blocked"}, applied \in BOOLEAN}

InvokeHTTP(m, q) ==
  IF q.endpoint
    THEN Lost(q) \cup Answered(q)
    ELSE {Kept("needs_configuration", q)}

\* An answer that cannot be read is a failure of an HTTP runtime, but not of a
\* process.
InvokeProcess(m, q) ==
  IF m.entrypoint
    THEN Lost(q) \cup Answered(q)
           \cup {[reached |-> TRUE, response |-> Response("ok", q, FALSE)]}
    ELSE {Kept("needs_configuration", q)}

InvokeConnector(m, q) ==
  CASE q.operation \notin ConnectorOperations \/ Blocked(m, q) \/ m.kind = "unknown" ->
         {Kept("blocked", q)}
    [] OTHER ->
         CASE m.kind = "builtin" -> {Kept("native_runtime", q)}
           [] m.kind = "http" \/ (m.kind = "external_process_or_http" /\ q.endpoint) ->
                InvokeHTTP(m, q)
           [] OTHER -> InvokeProcess(m, q)

-----------------------------------------------------------------------------
(* AI providers. *)

\* The second field counts if the first is there and empty: one that is not
\* there does not read as an empty one.
RiskOf(e) == IF e.level = "" THEN e.risk ELSE e.level

\* The recommendations of the built-in provider, per row of evidence.
Recommendations(q) ==
  LET risky == {e \in q.evidence : RiskOf(e) \in {"critical", "high"}} IN
    IF risky = {}
      THEN {[of |-> 0, operation |-> "metadata_scan", hitl |-> FALSE, status |-> "scan_required"]}
      ELSE {[of |-> e.id, operation |-> IF q.archive THEN "archive" ELSE "quarantine",
             hitl |-> TRUE, status |-> "needs_approval"] : e \in risky}

Advice(status, prompted, advice) == [status |-> status, prompted |-> prompted, advice |-> advice]

Unsent(status, advice) == [sent |-> FALSE, response |-> Advice(status, FALSE, advice)]

Advises(q) == q.task \in {"recommend_actions", "prepare_hitl"}

\* What a runtime answers is passed on: its recommendations may ask for nobody.
RuntimeAdvice ==
  {{}} \cup {{[of |-> 1, operation |-> "delete", hitl |-> h, status |-> "ok"]} : h \in BOOLEAN}

\* The prompt audit says that the prompt was sent when there is an answer.
InvokeProvider(m, q) ==
  CASE q.task \notin m.tasks \/ q.autonomous \/ m.kind = "unknown" -> {Unsent("blocked", {})}
    [] OTHER ->
         CASE m.kind = "builtin" ->
                {Unsent("ok", IF Advises(q) THEN Recommendations(q) ELSE {})}
           [] m.kind = "http" /\ m.endpoint ->  \* http, local_http and custom_http
                {[sent |-> s, response |-> Advice("failed", FALSE, {})] : s \in BOOLEAN}
                \cup {[sent |-> TRUE, response |-> Advice(s, TRUE, a)] :
                         s \in {"ok", "failed", "blocked"}, a \in RuntimeAdvice}
           [] OTHER -> {Unsent("needs_configuration", {})}

-----------------------------------------------------------------------------
(* Properties. *)

\* What is not a dry run reaches a connector's runtime as an action only if the
\* manifest declares it and what it asks for was given, whichever runtime it
\* is, and no response claims that something was carried out that did not
\* reach the runtime.  No AI provider is called for an autonomous application,
\* or for a task that it does not offer; the prompt audit claims nothing that
\* did not happen; and of the built-in provider, every row of evidence whose risk
\* level is critical or high gets a recommendation, all of which a human must
\* approve.
RuntimesAreGated ==
  /\ \A m \in Connectors, q \in ConnectorCalls : \A o \in InvokeConnector(m, q) :
       /\ o.reached /\ q.operation = "execute_action" /\ ~o.response.dryRun =>
            \E a \in m.actions :
              /\ a.id = q.action
              /\ (a.guardian => q.allowed) /\ (a.hitl => q.approved) /\ (a.confirm => q.confirmed)
       /\ ~o.reached => ~o.response.applied /\ o.response.status # "ok"
  /\ \A m \in Providers, q \in ProviderCalls : \A o \in InvokeProvider(m, q) :
       /\ o.sent => ~q.autonomous /\ q.task \in m.tasks /\ m.kind # "builtin"
       /\ o.response.prompted => o.sent
       /\ ~o.sent => \A r \in o.response.advice : r.operation # "metadata_scan" => r.hitl
       /\ o.response.status = "ok" /\ ~o.sent /\ Advises(q) =>
            \A e \in q.evidence : e.level \in {"critical", "high"} =>
              \E r \in o.response.advice : r.of = e.id /\ r.hitl
=============================================================================
