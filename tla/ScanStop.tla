------------------------------ MODULE ScanStop ------------------------------
(***************************************************************************)
(* AsyncScan with a history variable: how many pages each worker listed    *)
(* since the job was paused or cancelled.                                  *)
(***************************************************************************)
EXTENDS AsyncScanProperties

VARIABLE overrun

stopVars == <<vars, overrun>>

ListsPage(w) == pc[w] = "list" /\ pc'[w] \in {"persist", "checkpoint"}

Stopped(j) == j.cancel \/ j.status \in {"paused", "cancelled"}

StopInit == Init /\ overrun = [w \in Workers |-> 0]

StopNext ==
  /\ Next
  /\ overrun' = [w \in Workers |->
                   IF ~Stopped(job') THEN 0
                   ELSE overrun[w] + (IF ListsPage(w) THEN 1 ELSE 0)]

\* The fairness of AsyncScan.
StopSpec == StopInit /\ [][StopNext]_stopVars /\ Fairness

\* Pause and cancel stop a worker between pages: it ends the page it is in and
\* lists no other, wherever the two halves of the request fall.
StopsWithinPage == \A w \in Workers : overrun[w] <= 1
=============================================================================
