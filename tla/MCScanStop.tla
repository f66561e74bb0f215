------------------------------ MODULE MCScanStop ------------------------------
(* The accounts of MCAsyncScan for the specification with the page counter. *)
EXTENDS MCAsyncScan, ScanStop
=============================================================================
