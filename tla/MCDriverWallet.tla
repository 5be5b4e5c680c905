--------------------------- MODULE MCDriverWallet ---------------------------
(***************************************************************************)
(* Finite instances of DriverWallet.                                       *)
(***************************************************************************)
EXTENDS DriverWallet, TLC

CONSTANTS t1, t2, k1, k2, w1, w2

\* The first trip earns 4 and nets 2, the second earns 1 and nets 1.
TwoFares ==
    [t \in {t1, t2} |->
       [x \in EntryTypes |->
          CASE x = "TRIP_EARNING" -> IF t = t1 THEN 4 ELSE 1
            [] x \in {"COMMISSION", "PENALTY"} -> IF t = t1 THEN 1 ELSE 0
            [] OTHER -> 0]]

TwoUnits == [k \in {k1, k2} |-> 2]

Event(k, s) == [key |-> k, status |-> s]

\* The first payout arrives and comes back, the second one fails.
Outcomes == {Event(k1, "processed"), Event(k1, "reversed"),
             Event(k2, "pending"), Event(k2, "failed")}

=============================================================================
