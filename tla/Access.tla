-------------------------------- MODULE Access --------------------------------
(***************************************************************************)
(* Who may act, and what is decided about it: sessions, and the decisions  *)
(* that are functions of a request, next to each other.                    *)
(***************************************************************************)
EXTENDS Sessions, Governance, ExternalRuntimes, DspmScan

(* The decisions are functions of their request and of no state, so that it is *)
(* enough to look at all of them before anything has happened.                 *)

\* EvaluateGovernance decides every request as strictly as its parts demand.
GovernanceIsStrict == Init => DecisionsAreStrict

\* Every call that reaches a runtime passed its gates, and no answer claims more.
CallsAreGated == Init => RuntimesAreGated

\* A deeper scan takes nothing back, and leads on where there is something to find.
ScansEscalate == Init => TiersEscalate
=============================================================================
