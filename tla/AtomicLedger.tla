---------------------------- MODULE AtomicLedger ----------------------------
(***************************************************************************)
(* What the payment subsystem promises, without requests, transactions,    *)
(* versions or retries: an invoice account is changed by three atomic      *)
(* events.  A posting adds one ledger row under a key its tenant has not   *)
(* used and moves the balance by exactly the row's amount; a cancelled     *)
(* invoice takes no postings; a total changes only while no money is on    *)
(* the account.                                                            *)
(***************************************************************************)
EXTENDS Integers

CONSTANTS Invoices, TenantOf, InitTotal

VARIABLES
    account,    \* per invoice: paid, total, cancelled
    rows        \* the posted ledger rows: id, inv, amt, key

vars == <<account, rows>>

Init ==
    /\ account = [i \in Invoices |->
                    [paid |-> 0, total |-> InitTotal[i], cancelled |-> FALSE]]
    /\ rows = {}

Post(p) ==
    /\ rows' = rows \cup {p}
    /\ \A q \in rows : /\ q.id # p.id
                       /\ TenantOf[q.inv] = TenantOf[p.inv] => q.key # p.key
    /\ ~account[p.inv].cancelled
    /\ account[p.inv].paid + p.amt >= 0
    /\ account' = [account EXCEPT ![p.inv].paid = @ + p.amt]

Void(i) ==
    /\ account[i].paid < account[i].total
    /\ ~account[i].cancelled
    /\ account' = [account EXCEPT ![i].cancelled = TRUE]
    /\ UNCHANGED rows

Reprice(i) ==
    /\ account[i].paid = 0
    /\ account'[i].total > 0
    /\ account' = [account EXCEPT ![i].total = account'[i].total]
    /\ UNCHANGED rows

Next ==
    \/ \E p \in rows' \ rows : Post(p)
    \/ \E i \in Invoices : Void(i) \/ Reprice(i)

Spec == Init /\ [][Next]_vars

=============================================================================
