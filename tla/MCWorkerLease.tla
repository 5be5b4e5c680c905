--------------------------- MODULE MCWorkerLease ---------------------------
(***************************************************************************)
(* Finite instances of WorkerLease.                                        *)
(***************************************************************************)
EXTENDS WorkerLease

CONSTANTS r1, r2

\* The second replica's clock runs one unit ahead.
SkewedClocks == [r \in Replicas |-> IF r = r1 THEN 0 ELSE 1]
SyncedClocks == [r \in Replicas |-> 0]

=============================================================================
