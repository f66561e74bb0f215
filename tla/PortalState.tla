----------------------------- MODULE PortalState -----------------------------
(***************************************************************************)
(* The portal's inventory and records (internal/portalstate) as one value: *)
(* what each method of the store does to it under the store's lock.        *)
(* Containers and blobs are known by the source they are listed under, a   *)
(* record by the request that made it.                                     *)
(***************************************************************************)
EXTENDS Sequences, Integers

CONSTANT RecordCap  \* how many records of a kind are kept: 1000, or 100 of the workbench's

ASSUME RecordCapAssumption == RecordCap \in Nat \ {0}

EmptyPortal == [sources |-> {}, containers |-> {}, blobs |-> {},
                evidence |-> <<>>, audit |-> <<>>, actions |-> <<>>, history |-> <<>>]

-----------------------------------------------------------------------------
(* Weakened forms of operators below, which the properties must tell apart. *)

\* The items of a removed source stay.
WithoutSourceOnly(p, s) == [p EXCEPT !.sources = @ \ {s}]

-----------------------------------------------------------------------------
(* The inventory. *)

WithSource(p, s) == [p EXCEPT !.sources = @ \cup {s}]

WithoutSource(p, s) ==
  [p EXCEPT !.sources = @ \ {s},
            !.containers = @ \ {s},
            !.blobs = @ \ {s}]

WithContainers(p, s) == [p EXCEPT !.containers = @ \cup {s}]
WithBlobs(p, s) == [p EXCEPT !.blobs = @ \cup {s}]

(* The records: newest first, and the oldest are dropped. *)

NewestOf(records) ==
  IF Len(records) > RecordCap THEN SubSeq(records, 1, RecordCap) ELSE records

WithEvidence(p, r) == [p EXCEPT !.evidence = NewestOf(<<r>> \o @)]
WithAudit(p, r) == [p EXCEPT !.audit = NewestOf(<<r>> \o @)]
WithHistory(p, r) == [p EXCEPT !.history = NewestOf(<<r>> \o @)]

\* An action without an identifier is a new one.
WithAction(p, r) == [p EXCEPT !.actions = NewestOf(<<r>> \o @)]

\* A record is there, or newer ones have taken its place.
Holds(records, r) == Len(records) = RecordCap \/ \E i \in DOMAIN records : records[i] = r
=============================================================================
