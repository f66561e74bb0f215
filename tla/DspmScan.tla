------------------------------- MODULE DspmScan -------------------------------
(***************************************************************************)
(* The posture scan of one object: what is found in its names, metadata,   *)
(* tags and sampled content, the risk and classification that follow, and  *)
(* the deeper tier that is suggested.                                      *)
(*                                                                         *)
(* Matching is abstracted: an object is given by the keyword patterns that *)
(* match each of its parts, and by the entities of its sample.  Different  *)
(* patterns match different words.                                         *)
(***************************************************************************)
EXTENDS Naturals, FiniteSets, FiniteSetsExt

CONSTANTS
  Patterns,   \* keyword patterns: built-in ones, and those of the request
  Objects     \* the objects that are scanned

Tiers == <<"metadata", "rules", "model", "deep">>
Severities == {"critical", "high", "medium", "low", "info"}
KeywordTypes == {"BUSINESS_SENSITIVE", "LEGAL_TERM", "FINANCIAL_TERM", "SECRET", "KEYWORD",
                 "CUSTOM"}
RuleTypes == {"EMAIL", "PHONE", "SSN", "INDIA_PAN", "CREDIT_CARD", "SECRET"}
Classifications == <<"public", "internal", "confidential", "restricted">>
Parts == {"path", "metadata", "tags", "content"}

\* What is known of an object: the patterns that match each part, the parts
\* that an exclusion matches, the entities of the sample, and what its path,
\* type, size and model profile are.
ASSUME DspmAssumption ==
  /\ IsFiniteSet(Patterns)
  /\ \A p \in Patterns : p.type \in KeywordTypes /\ p.severity \in Severities /\ p.scopes \subseteq Parts
  /\ \A o \in Objects :
       /\ o.matches \in [Parts -> SUBSET Patterns] /\ o.excluded \subseteq Parts
       /\ o.sample \subseteq RuleTypes \X Nat /\ IsFiniteSet(o.sample)
       /\ {o.hasSample, o.sensitivePath, o.publicPath, o.typed, o.large, o.knownModel} \subseteq BOOLEAN
       /\ ~o.hasSample => o.sample = {} /\ o.matches["content"] = {}

\* Weakened: a secret is confidential like other identifiers.
ClassOfTypeMild(type) == 3

-----------------------------------------------------------------------------
(* Entities. *)

\* The parts that a tier reads.
Sources(tier) == IF tier = "metadata" THEN Parts \ {"content"} ELSE Parts

\* detectKeywordEntities
Keywords(o, tier) ==
  UNION {{[type |-> p.type, severity |-> p.severity, keyword |-> TRUE, id |-> <<{p}, s, 0>>] :
            p \in {m \in o.matches[s] : s \in m.scopes}} :
         s \in Sources(tier) \ o.excluded}

\* detectRuleEntities; a built-in entity has no severity, which reads as medium.
RuleEntities(o, tier) ==
  IF tier = "metadata" \/ ~o.hasSample THEN {}
  ELSE {[type |-> e[1], severity |-> "medium", keyword |-> FALSE, id |-> <<{}, "content", e[2]>>] : e \in o.sample}

Entities(o, tier) == Keywords(o, tier) \cup RuleEntities(o, tier)

-----------------------------------------------------------------------------
(* Checks. *)

MetadataChecks(o) ==
  {[check |-> <<"path", "none">>, severity |-> "medium"] : x \in {y \in {1} : o.sensitivePath}}
    \cup {[check |-> <<"content_type", "none">>, severity |-> "low"] : x \in {y \in {1} : ~o.typed}}
    \cup {[check |-> <<"large", "none">>, severity |-> "medium"] : x \in {y \in {1} : o.large}}

\* One check per type of keyword.  A type without a severity yet ranks as
\* medium, so that low and informational keywords count as medium.
KeywordSeverity(found) ==
  CASE \E e \in found : e.severity = "critical" -> "critical"
    [] (\E e \in found : e.severity = "high") /\ (\A e \in found : e.severity # "critical") -> "high"
    [] OTHER -> "medium"

KeywordChecks(o, tier) ==
  {[check |-> <<"keyword", t>>,
    severity |-> KeywordSeverity({e \in Keywords(o, tier) : e.type = t})] :
     t \in {e.type : e \in Keywords(o, tier)}}

EntitySeverity(type) ==
  CASE type = "SECRET"                              -> "critical"
    [] type \in {"CREDIT_CARD", "SSN", "INDIA_PAN"} -> "high"
    [] OTHER                                        -> "medium"

EntityChecks(o, tier) ==
  {[check |-> <<"content", t>>, severity |-> EntitySeverity(t)] :
     t \in {e.type : e \in RuleEntities(o, tier)}}

ModelCheck(o, tier) ==
  IF tier \in {"model", "deep"} /\ ~o.knownModel
    THEN {[check |-> <<"model", "none">>, severity |-> "medium"]} ELSE {}

Checks(o, tier) ==
  MetadataChecks(o) \cup KeywordChecks(o, tier) \cup EntityChecks(o, tier) \cup ModelCheck(o, tier)

-----------------------------------------------------------------------------
(* classify *)

CheckRisk(c) ==
  CASE c.severity = "critical" -> 45 [] c.severity = "high" -> 30 [] c.severity = "medium" -> 15
    [] c.severity = "low" -> 5 [] OTHER -> 0

EntityRisk(e) ==
  (CASE e.severity = "critical" -> 35 [] e.severity = "high" -> 22 [] e.severity = "medium" -> 10
     [] OTHER -> 0)
  + (CASE e.type = "SECRET" -> 35 [] e.type \in {"CREDIT_CARD", "SSN", "INDIA_PAN"} -> 25
       [] e.type \in {"EMAIL", "PHONE"} -> 8 [] OTHER -> 0)

\* The risk is at most 100.
Risk(o, tier) ==
  Min({100, 20 + SumFunction([c \in Checks(o, tier) |-> CheckRisk(c)])
               + SumFunction([e \in Entities(o, tier) |-> EntityRisk(e)])})

\* Entities only raise the class.  Every known type is at least confidential; a
\* type of a request's own counts by its severity alone.
ClassOfType(type) == CASE type = "SECRET" -> 4 [] type = "CUSTOM" -> 2 [] OTHER -> 3

ClassOfSeverity(severity) ==
  CASE severity = "critical" -> 4 [] severity \in {"high", "medium"} -> 3 [] OTHER -> 2

ClassOf(e) == Max({ClassOfSeverity(e.severity), ClassOfType(e.type)})

Class(o, tier) ==
  IF Entities(o, tier) = {}
    THEN IF o.publicPath THEN 1 ELSE 2
    ELSE Max({ClassOf(e) : e \in Entities(o, tier)})

RequiresHITL(o, tier) == Risk(o, tier) >= 80 \/ Classifications[Class(o, tier)] = "restricted"

NextTier(o, tier) ==
  CASE tier = "metadata" /\ (Risk(o, tier) >= 35 \/ ~o.hasSample)           -> "rules"
    [] tier = "rules" /\ (Risk(o, tier) >= 60 \/ Entities(o, tier) # {})    -> "model"
    [] tier = "model" /\ Risk(o, tier) >= 80                                -> "deep"
    [] OTHER                                                                -> "none"

-----------------------------------------------------------------------------
(* Properties. *)

\* A deeper scan never takes anything back: risk, class and the need for a
\* human grow from tier to tier, although checks and entities are found anew;
\* a secret in a sample that is read is restricted; an object is only public
\* if nothing was found in it; and who follows the suggestions goes on until
\* a risk of 80 has been scanned at the deepest tier, once entities are found.
TiersEscalate ==
  \A o \in Objects :
    /\ \A i, j \in DOMAIN Tiers : i < j =>
         /\ Risk(o, Tiers[i]) <= Risk(o, Tiers[j])
         /\ Class(o, Tiers[i]) <= Class(o, Tiers[j])
         /\ RequiresHITL(o, Tiers[i]) => RequiresHITL(o, Tiers[j])
    /\ \A i \in 2 .. 4 :
         (\E e \in o.sample : e[1] = "SECRET") =>
           /\ RequiresHITL(o, Tiers[i])
           /\ Classifications[Class(o, Tiers[i])] = "restricted"
    /\ \A i \in DOMAIN Tiers :
         Classifications[Class(o, Tiers[i])] = "public" => Entities(o, Tiers[i]) = {}
    /\ \A i \in 1 .. 3 :
         /\ NextTier(o, Tiers[i]) \in {"none", Tiers[i + 1]}
         /\ Entities(o, Tiers[i]) # {} /\ Risk(o, Tiers[i]) >= 80 =>
              \A j \in i .. 3 : NextTier(o, Tiers[j]) = Tiers[j + 1]
=============================================================================
