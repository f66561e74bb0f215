--------------------------- MODULE MCOrchestrator ---------------------------
(* A small instance of Orchestrator for TLC. *)
EXTENDS Orchestrator

CONSTANTS v1, a1, a2, e1

TwoLeases == {[version |-> v1, hash |-> a1, lkg |-> TRUE],
              [version |-> v1, hash |-> a2, lkg |-> TRUE]}

\* One request for each lease; the first wants search documents.
TwoRequests == {[execution |-> e1, lease |-> l, index |-> l.hash = a1] : l \in TwoLeases}

\* Scores on both sides of every threshold, and a batch longer than a sample.
SmallScores == {0, 1, 39, 40, 44, 45, 69, 70, 89, 90, 100}
SmallBatches ==
  UNION {[1 .. n -> SmallScores] : n \in 0 .. 2} \cup [1 .. 3 -> {0, 44, 70, 95}]
    \cup {[i \in 1 .. 27 |-> 3 * i]}

AllSettings == [tier : Tiers, action : Modes \cup {"none"}, asked : Modes \cup {"none"},
                writeback : BOOLEAN, content : BOOLEAN]

=============================================================================
