------------------------------ MODULE ScanLease ------------------------------
(***************************************************************************)
(* What the lease of a scan job promises, whoever asks for it: a lease     *)
(* that has not expired belongs to one worker, and only that worker        *)
(* renews it.  It changes hands only after it expired or was dropped, by   *)
(* its owner or by a request that clears it, or with a restart, which      *)
(* brings back the lease that was saved last.                              *)
(***************************************************************************)
CONSTANTS Workers, NoWorker

VARIABLES owner,  \* the worker that was granted the lease last
          live,   \* the lease has not expired
          saved   \* the lease that a restart would bring back

vars == <<owner, live, saved>>

NoLease == [owner |-> NoWorker, live |-> FALSE]

Init == owner = NoWorker /\ live = FALSE /\ saved = NoLease

\* Granted to a worker for the first time, or renewed by its owner.
Grant(w) ==
  /\ owner \in {NoWorker, w} \/ ~live
  /\ owner' = w
  /\ live' = TRUE

Drop == owner' = NoWorker /\ live' = FALSE

Expire ==
  /\ live
  /\ live' = FALSE
  /\ UNCHANGED owner

Restart ==
  /\ owner' = saved.owner
  /\ live' = saved.live

\* A save that fails keeps the lease that was saved before, or loses it.
Save == saved' \in {[owner |-> owner', live |-> live'], saved, NoLease}

Next ==
  /\ (\E w \in Workers : Grant(w)) \/ Drop \/ Expire \/ Restart
       \/ UNCHANGED <<owner, live>>
  /\ Save

Spec == Init /\ [][Next]_vars
=============================================================================
