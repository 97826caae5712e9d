------------------------------ MODULE MCSyncCycle ------------------------------
(* Cycles with every set of calls failing at first.                           *)
EXTENDS SyncCycle
=============================================================================
