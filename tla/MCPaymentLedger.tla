-------------------------- MODULE MCPaymentLedger --------------------------
(***************************************************************************)
(* Finite instances of PaymentLedger.                                      *)
(***************************************************************************)
EXTENDS PaymentLedger, TLC

CONSTANTS i1, i2, w1, w2, g1, g2, o1, c1, t1, t2

\* One invoice of the default tenant, one gateway payment for half of it.
OneInvoice   == {i1}
OneTenant    == [i \in {i1} |-> t1]
TotalTwo     == [i \in {i1} |-> 2]
TwoRefs      == {g1, o1}
OneGateway   == {g1}
OrderOne     == [g \in {g1} |-> o1]
PaysFirst    == [g \in {g1} |-> i1]
GwOneUnit    == [g \in {g1} |-> 1]

Captured == [type |-> "payment.captured", gw |-> g1]
OrderPaid == [type |-> "order.paid", gw |-> g1]
Refunded == [type |-> "refund.processed", gw |-> g1]
Failed == [type |-> "payment.failed", gw |-> g1]

BillingEvents == {OrderPaid, Failed}
PaidTwice     == {Captured, OrderPaid}

\* Manual payments: cash without a reference (same-day double submits share
\* a key), and a cheque of the second tenant.
Cash       == [inv |-> i1, amt |-> 2, ref |-> NoRef, day |-> 1]
Cheque     == [inv |-> i2, amt |-> 1, ref |-> c1, day |-> 1]
CashOnly   == {Cash}
ChequeOnly == {Cheque}
NoRequests == {}

\* Two tenants; the gateway payment g1 belongs to the one that is not the
\* default, g2 names no invoice.
TwoInvoices  == {i1, i2}
TwoTenants   == [i \in {i1, i2} |-> IF i = i1 THEN t1 ELSE t2]
TotalsOne    == [i \in {i1, i2} |-> 1]
FourRefs     == {g1, g2, o1, c1}
TwoGateways  == {g1, g2}
OrdersTwo    == [g \in {g1, g2} |-> o1]
PaysSecond   == [g \in {g1, g2} |-> IF g = g1 THEN i2 ELSE NoInvoice]
GwUnits      == [g \in {g1, g2} |-> 1]
SettleEvents == {Captured, Refunded, [type |-> "payment.captured", gw |-> g2]}

Symmetric == Permutations(Workers)

=============================================================================
