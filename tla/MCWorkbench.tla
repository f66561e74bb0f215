---------------------------- MODULE MCWorkbench ----------------------------
(* A small instance of Workbench for TLC. *)
EXTENDS Workbench, TLC

CONSTANTS b1, b2, c1

OneContainer == [b \in Blobs |-> c1]

Ask(op, blob, role, dry) ==
  [op |-> op, blob |-> blob, target |-> IF blob = b1 THEN b2 ELSE b1, role |-> role, dry |-> dry,
   confirmed |-> TRUE, overwrite |-> FALSE, extras |-> FALSE, valid |-> TRUE]

\* Each operation on the first blob, as an administrator; some on the second,
\* as dry runs, without what they need, or by who is not allowed to.
ManyRequests ==
  {Ask(op, b1, "platform_admin", FALSE) : op \in Operations}
    \cup {Ask("create_blob", b2, "data_analyst", FALSE),
          Ask("delete_blob", b2, "data_steward", FALSE),
          Ask("create_blob", b1, "data_analyst", TRUE),
          Ask("move_blob", b2, "data_steward", TRUE),
          [Ask("create_blob", b2, "data_steward", FALSE) EXCEPT !.overwrite = TRUE, !.extras = TRUE],
          [Ask("delete_container", b1, "compliance_officer", FALSE) EXCEPT !.confirmed = FALSE],
          [Ask("list_blobs", b1, "data_analyst", FALSE) EXCEPT !.valid = FALSE]}

HandlerSymmetry == Permutations(Handlers)
=============================================================================
