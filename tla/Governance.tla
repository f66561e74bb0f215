------------------------------ MODULE Governance ------------------------------
(***************************************************************************)
(* The governance decision on an operation of a role between two regions,  *)
(* and the approvers that an approval of it asks for.  It is a function of *)
(* the request: nothing is stored but the approval, which ControlPlane     *)
(* keeps.                                                                  *)
(***************************************************************************)
EXTENDS Naturals, FiniteSets

CONSTANTS
  AskedRoles,      \* the roles that requests name, known or not
  AskedRegions,    \* the regions, "" for none
  AskedPolicies    \* the sets of policies they select

RoleProfiles == {"viewer", "data_steward", "security_officer", "platform_admin",
                 "contract_owner"}
Tagging == {"apply_blob_metadata", "apply_blob_index_tags"}
Destructive == {"delete", "archive", "retrieve", "rehydrate", "quarantine", "migration"}
GovernedOperations == Tagging \cup Destructive \cup {"metadata_scan", "view_evidence"}

\* The built-in policies, by precedence.
PolicyPrecedence ==
  [p \in {"regional-data-residency", "destructive-action-safety", "azureblob-approved-tagging",
          "azureblob-confidential-tagging-preview", "azureblob-metadata-discovery"} |->
     CASE p = "regional-data-residency"                -> 100
       [] p = "destructive-action-safety"              -> 90
       [] p = "azureblob-approved-tagging"             -> 70
       [] p = "azureblob-confidential-tagging-preview" -> 60
       [] p = "azureblob-metadata-discovery"           -> 50]

ASSUME GovernanceAssumption ==
  AskedPolicies \subseteq SUBSET (DOMAIN PolicyPrecedence \cup {"unknown"})

\* "owner" is whether a contract owner is named, "apply" that the mode is apply
\* or write-back is enabled.
GovernanceRequests ==
  [role : AskedRoles, operation : GovernedOperations, source : AskedRegions,
   target : AskedRegions, policies : AskedPolicies, owner : BOOLEAN, apply : BOOLEAN]

AllowedOperations ==
  [role \in RoleProfiles |->
     {"metadata_scan", "view_evidence"} \cup
     CASE role = "viewer"           -> {}
       [] role = "data_steward"     -> Tagging
       [] role = "security_officer" -> Tagging \cup {"quarantine", "delete"}
       [] role = "platform_admin"   -> Tagging \cup Destructive
       [] role = "contract_owner"   -> Destructive]

\* A role without a profile is a data steward.
RoleProfile(role) == IF role \in RoleProfiles THEN role ELSE "data_steward"

RoleAllows(q) == q.operation \in AllowedOperations[RoleProfile(q.role)]

\* The first selected policy; none if no selected policy is known.
AppliedPolicy(q) ==
  LET selected == IF q.policies = {} THEN DOMAIN PolicyPrecedence
                  ELSE q.policies \cap DOMAIN PolicyPrecedence
  IN IF selected = {} THEN "none"
     ELSE CHOOSE p \in selected : \A o \in selected : PolicyPrecedence[p] >= PolicyPrecedence[o]

JurisdictionRule(q) ==
  CASE q.operation = "migration" /\ q.source = "IN" /\ q.target = "AE" ->
         [decision |-> "block", hitl |-> TRUE, owner |-> "contract_owner"]
    [] q.operation = "migration" /\ q.source # q.target /\ "" \notin {q.source, q.target}
         /\ <<q.source, q.target>> # <<"IN", "AE">> ->
         [decision |-> "review_required", hitl |-> TRUE, owner |-> "contract_owner"]
    [] OTHER ->
         [decision |-> "allow", hitl |-> FALSE, owner |-> "data_steward"]

DestructiveApprovers(q) ==
  IF q.operation \in Destructive THEN {"security_officer", "contract_owner"} ELSE {}
ApplyApprovers(q) == IF q.apply THEN {"data_steward", "security_officer"} ELSE {}
OwnerApprovers(q) ==
  IF q.operation \in Destructive /\ ~q.owner THEN {"contract_owner"} ELSE {}
RuleApprovers(q) == IF JurisdictionRule(q).hitl THEN {JurisdictionRule(q).owner} ELSE {}
Approvers(q) ==
  RuleApprovers(q) \cup DestructiveApprovers(q) \cup ApplyApprovers(q) \cup OwnerApprovers(q)

\* Weakened: a jurisdiction's block does not end the evaluation.
EvaluateOn(q) ==
  IF ~RoleAllows(q)
    THEN [decision |-> "block", hitl |-> FALSE, approvers |-> {}, policy |-> AppliedPolicy(q)]
  ELSE LET reviewed == q.operation \in Destructive \/ q.apply IN
    [decision |-> IF reviewed THEN "review_required" ELSE JurisdictionRule(q).decision,
     hitl |-> JurisdictionRule(q).hitl \/ reviewed,
     approvers |-> Approvers(q),
     policy |-> AppliedPolicy(q)]

\* The role's profile comes first, then the jurisdiction, which may end it; what
\* destroys or applies is reviewed.
EvaluateGovernance(q) ==
  CASE ~RoleAllows(q) ->
         [decision |-> "block", hitl |-> FALSE, approvers |-> {}, policy |-> AppliedPolicy(q)]
    [] RoleAllows(q) /\ JurisdictionRule(q).decision = "block" ->
         [decision |-> "block", hitl |-> TRUE, approvers |-> RuleApprovers(q),
          policy |-> AppliedPolicy(q)]
    [] OTHER ->
         LET reviewed == q.operation \in Destructive \/ q.apply IN
         [decision |-> IF reviewed THEN "review_required" ELSE JurisdictionRule(q).decision,
          hitl |-> JurisdictionRule(q).hitl \/ reviewed,
          approvers |-> Approvers(q),
          policy |-> AppliedPolicy(q)]

DefaultApprovers(operation) ==
  CASE operation \in Tagging     -> {"data_steward", "security_officer"}
    [] operation \in Destructive -> {"contract_owner", "security_officer"}
    [] OTHER                     -> {"security_officer"}

\* CreateApproval: always evaluated as an apply; those asked for and those that
\* governance requires.
RequiredApprovers(q, asked) ==
  (IF asked = {} THEN DefaultApprovers(q.operation) ELSE asked)
    \cup EvaluateGovernance([q EXCEPT !.apply = TRUE]).approvers

-----------------------------------------------------------------------------
(* Properties. *)

Strictness(decision) ==
  CASE decision = "allow" -> 0 [] decision = "review_required" -> 1 [] decision = "block" -> 2

\* The decision is as strict as its parts: it blocks exactly what the role must
\* not do and migrations from India to the Emirates, it allows outright only
\* what changes nothing, and a review always names approvers, the contract
\* owner and the security officer for whatever destroys.  Asking for more, to
\* apply, or withholding the owner, never gets less, and an approval asks for
\* all approvers whoever the request names.
DecisionsAreStrict ==
  \A q \in GovernanceRequests :
    LET r == EvaluateGovernance(q) IN
      /\ r.decision = "block" <=>
           \/ q.operation \notin AllowedOperations[RoleProfile(q.role)]
           \/ q.operation = "migration" /\ q.source = "IN" /\ q.target = "AE"
      /\ r.decision = "allow" => ~r.hitl /\ ~q.apply /\ q.operation \notin Destructive
      /\ r.decision = "review_required" => r.hitl /\ r.approvers # {}
      /\ r.decision = "review_required" /\ q.operation \in Destructive =>
           {"security_officer", "contract_owner"} \subseteq r.approvers
      /\ LET more == EvaluateGovernance([q EXCEPT !.apply = TRUE])
             less == EvaluateGovernance([q EXCEPT !.owner = FALSE])
         IN /\ Strictness(more.decision) >= Strictness(r.decision)
            /\ r.approvers \subseteq more.approvers
            /\ less = r
      /\ \A asked \in {{}, {"viewer"}} :
           /\ r.approvers \subseteq RequiredApprovers(q, asked)
           /\ asked \subseteq RequiredApprovers(q, asked)
      /\ r.policy # "none" /\ q.policies # {} => r.policy \in q.policies
=============================================================================
