------------------------- MODULE MCPolicyResolution -------------------------
(* A small instance of PolicyResolution for TLC. *)
EXTENDS PolicyResolution

CONSTANTS v1, a1, a2, a3

\* One lease for each artifact; the second fails closed.
ThreeLeases == {[version |-> v1, hash |-> a1, lkg |-> TRUE],
                [version |-> v1, hash |-> a2, lkg |-> FALSE],
                [version |-> v1, hash |-> a3, lkg |-> TRUE]}
=============================================================================
