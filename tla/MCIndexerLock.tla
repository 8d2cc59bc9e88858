---------------------------- MODULE MCIndexerLock ----------------------------
(* IndexerLock with one or two processes; the second one is never a monitor. *)
EXTENDS IndexerLock

CONSTANTS p1, p2

KindsOf == [p \in Proc |-> IF p = p1 THEN {"batch", "monitor"} ELSE {"batch"}]
=============================================================================
