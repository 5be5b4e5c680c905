--------------------------- MODULE MCOutboxRelay ---------------------------
(***************************************************************************)
(* Finite instances of OutboxRelay.                                        *)
(***************************************************************************)
EXTENDS OutboxRelay

CONSTANTS r1, r2, e1, e2

SyncedClocks == [r \in Replicas |-> 0]

=============================================================================
