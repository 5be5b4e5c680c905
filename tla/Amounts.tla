------------------------------ MODULE Amounts ------------------------------
(***************************************************************************)
(* The total of a set of ledger rows, each with its own id and an integer  *)
(* amount in minor units.  The units are counted one by one, what was      *)
(* credited and what was debited, so that the total is a difference of two *)
(* cardinalities and no recursion is needed to reason about it.            *)
(***************************************************************************)
EXTENDS Integers, FiniteSets

Credited(rows) == UNION {{r.id} \X (1 .. r.amt) : r \in rows}

Debited(rows) == UNION {{r.id} \X (1 .. -r.amt) : r \in rows}

Total(rows) == Cardinality(Credited(rows)) - Cardinality(Debited(rows))

=============================================================================
