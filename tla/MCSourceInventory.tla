-------------------------- MODULE MCSourceInventory --------------------------
(* Small instances of SourceInventory for TLC. *)
EXTENDS SourceInventory, TLC

CONSTANTS s1, s2

HandlerSymmetry == Permutations(Handlers)

Of(kinds, sources) == [kind : kinds, source : sources]

\* What has no source of its own is asked for once; a reset of all takes every
\* step of a reset, and an import every step of a merge.
MostRequests ==
  Of({"save", "delete"}, {s1, s2}) \cup Of({"access", "amend", "configure", "seed"}, {s2})
    \cup Of({"scan", "discover", "test", "options", "reset_all", "import"}, {s1})

\* Saves of the portal's state fail while no other request is in progress.
FailsUndisturbed == behind # {} => \A h \in Handlers \ behind : pc[h] \in {"ready", "done"}

\* The second source's account first.
TwoSources == <<s2, s1>>
=============================================================================
