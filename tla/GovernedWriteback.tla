------------------------- MODULE GovernedWriteback -------------------------
(***************************************************************************)
(* What is promised of write-backs, whoever carries them out and whatever  *)
(* is lost on the way: a blob is written after somebody decided that it    *)
(* may be, by a batch only if the execution was asked for with write-back  *)
(* and has its plan; no decision, plan or write is taken back; and only    *)
(* what was written is shown as completed, only what was planned as ended. *)
(***************************************************************************)
CONSTANTS Executions, Files, Operations

VARIABLES wanted,    \* the executions that were asked for with write-back
          approved,  \* the operations that were approved, and for which execution
          planned,   \* the executions that have a plan
          written,   \* the writes
          shown,     \* the files of each execution that are shown as completed
          ended      \* the executions that are shown as completed

vars == <<wanted, approved, planned, written, shown, ended>>

Writes == [execution : Executions, file : Files, covers : SUBSET Operations, batch : BOOLEAN]

Init ==
  /\ wanted = {} /\ approved = {} /\ planned = {} /\ written = {} /\ ended = {}
  /\ shown = [e \in Executions |-> {}]

\* Whoever creates a job for an execution again opens it again.
Ask(e) ==
  /\ wanted' \in {wanted, wanted \cup {e}}
  /\ ended' \in {ended, ended \ {e}}
  /\ UNCHANGED <<approved, planned, written, shown>>

\* One decision may cover an operation and another type of action.
Decide(e, ops) ==
  /\ approved' = approved \cup {<<e, o>> : o \in ops}
  /\ UNCHANGED <<wanted, planned, written, shown, ended>>

MakePlan(e) ==
  /\ planned' = planned \cup {e}
  /\ UNCHANGED <<wanted, approved, written, shown, ended>>

Write(w) ==
  /\ \E o \in w.covers : <<w.execution, o>> \in approved
  /\ w.batch => w.execution \in wanted \cap planned
  /\ written' = written \cup {w}
  /\ UNCHANGED <<wanted, approved, planned, shown, ended>>

\* The results of an execution are replaced together, perhaps by older ones.
Show(e, files) ==
  /\ \A f \in files : \E w \in written : w.execution = e /\ w.file = f
  /\ shown' = [shown EXCEPT ![e] = files]
  /\ UNCHANGED <<wanted, approved, planned, written, ended>>

End(e) ==
  /\ e \in planned
  /\ ended' = ended \cup {e}
  /\ UNCHANGED <<wanted, approved, planned, written, shown>>

\* A late report of another state.
Reopen(e) ==
  /\ ended' = ended \ {e}
  /\ UNCHANGED <<wanted, approved, planned, written, shown>>

Next ==
  \/ \E e \in Executions :
       \/ Ask(e) \/ MakePlan(e) \/ End(e) \/ Reopen(e)
       \/ \E ops \in SUBSET Operations : Decide(e, ops)
       \/ \E files \in SUBSET Files : Show(e, files)
  \/ \E w \in Writes : Write(w)

Spec == Init /\ [][Next]_vars
=============================================================================
