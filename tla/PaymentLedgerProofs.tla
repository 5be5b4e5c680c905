------------------------ MODULE PaymentLedgerProofs ------------------------
(***************************************************************************)
(* Proofs about PaymentLedger for every set of invoices, tenants, workers, *)
(* references and gateway payments.                                        *)
(***************************************************************************)
EXTENDS PaymentLedger, AmountsProofs, TLAPS

\* What the step a request has reached says about its fields.
WellFormed(j) ==
    /\ j.pc \in {"lookup", "find", "setevent", "mark"} => j.ev \in Events
    /\ j.pc \in {"findrazorpay", "balance", "claim", "read", "save"} =>
         j.inv \in Invoices
    /\ j.pc = "lookup" => j.inv = GwInv[j.ev.gw]
    /\ j.pc = "find" /\ j.ev.type # "refund.processed" => j.inv \in Invoices
    /\ j.pc = "begin" /\ j.op # "reverse" => j.inv \in Invoices
    /\ j.pc \in {"findrazorpay", "balance"} => j.op = "record"
    /\ j.pc \in {"claim", "read"} => j.op \in {"record", "reverse"}
    /\ j.pc = "save" /\ j.op = "attach" => j.snap.payStatus = "pending"

JobOK == \A w \in Workers : WellFormed(job[w])

\* A payment reference is a key (idempotencyKey).
LEMMA RefKeyType == ASSUME NEW r \in Refs \cup {NoRef} PROVE RefKey(r) \in Keys
  BY DEF RefKey, Keys

\* A reversal reference is a key.
LEMMA RevKeyType == ASSUME NEW n \in Nat PROVE RevKey(n) \in Keys
  BY DEF RevKey, Keys

\* Two payments never share a reversal reference.
LEMMA RevKeyInjective ==
    ASSUME NEW m, NEW n, RevKey(m) = RevKey(n) PROVE m = n
  BY DEF RevKey

\* The key of a manual payment is a key.
LEMMA RequestKeyType ==
    ASSUME NEW r \in Requests PROVE idempotencyKey(r) \in Keys
  BY LedgerAssumption DEF idempotencyKey, RefKey, Keys

\* A worker without a request has the type of a job.
LEMMA IdleJobType == IdleJob \in Job
  BY RefKeyType DEF IdleJob, Job, NoSnap, InvoiceRow, PaymentStatuses,
     InvoiceStatuses

\* ApplyPayment returns an invoice row: the clamp keeps the paid amount natural.
LEMMA ApplyPaymentType ==
    ASSUME NEW inv \in InvoiceRow, NEW amt \in Int
    PROVE  ApplyPayment(inv, amt) \in InvoiceRow
<1> DEFINE newPaid == IF inv.paid + amt < 0 THEN 0 ELSE inv.paid + amt
           newStatus == IF newPaid >= inv.total THEN "paid"
                        ELSE IF inv.status = "paid" THEN "outstanding"
                        ELSE inv.status
<1>1. newPaid \in Nat
  BY DEF InvoiceRow
<1>2. newStatus \in InvoiceStatuses
  BY DEF InvoiceRow, InvoiceStatuses
<1>3. PaymentStatusFor(newPaid, inv.total) \in PaymentStatuses
  BY DEF PaymentStatusFor, PaymentStatuses
<1>4. ApplyPayment(inv, amt) =
        [inv EXCEPT !.paid = newPaid,
                    !.payStatus = PaymentStatusFor(newPaid, inv.total),
                    !.status = newStatus]
  BY DEF ApplyPayment
<1> HIDE DEF newPaid, newStatus
<1> QED
  BY <1>1, <1>2, <1>3, <1>4 DEF InvoiceRow

\* The empty database is well typed.
LEMMA TypeInit == Init => TypeOK
  BY IdleJobType, LedgerAssumption
  DEF Init, TypeOK, InvoiceRow, PaymentStatuses, InvoiceStatuses

\* No request is in flight at first.
LEMMA InitJobOK == Init => JobOK
  BY DEF Init, JobOK, WellFormed, IdleJob

\* A step that gives worker w the job j, well formed and of type Job.
LEMMA OneJob ==
    ASSUME TypeOK, JobOK, NEW w \in Workers, NEW j \in Job, WellFormed(j),
           job' = [job EXCEPT ![w] = j]
    PROVE  job' \in [Workers -> Job] /\ JobOK'
  BY DEF TypeOK, JobOK, WellFormed

\* A worker without a request is well formed.
LEMMA IdleWellFormed == WellFormed(IdleJob)
  BY DEF WellFormed, IdleJob

\* An error answer leaves the other requests alone.
LEMMA FailStep ==
    ASSUME TypeOK, JobOK, NEW w \in Workers, Fail(w)
    PROVE  job' \in [Workers -> Job] /\ JobOK'
  BY OneJob, IdleJobType, IdleWellFormed DEF Fail

\* A use case that returns keeps the requests well formed.
LEMMA ReturnStep ==
    ASSUME TypeOK, JobOK, NEW w \in Workers, NEW id \in Nat, Return(w, id)
    PROVE  job' \in [Workers -> Job] /\ JobOK'
<1>1. CASE job[w].ev = NoEvent
  BY <1>1, FailStep DEF Fail, Return
<1>2. CASE job[w].ev # NoEvent
  <2> DEFINE j == [IdleJob EXCEPT !.pc = "setevent", !.ev = job[w].ev,
                                  !.id = id]
  <2>1. job[w].ev \in Events
    BY <1>2 DEF TypeOK, Job
  <2>2. j \in Job /\ WellFormed(j)
    BY <2>1, IdleJobType DEF Job, WellFormed, IdleJob
  <2>3. job' = [job EXCEPT ![w] = j]
    BY <1>2 DEF Return
  <2> QED
    BY <2>2, <2>3, OneJob
<1> QED
  BY <1>1, <1>2

\* A request that arrives is a well-formed job.
LEMMA ArriveStep ==
    ASSUME TypeOK, JobOK, NEW w \in Workers, NEW j \in Job, WellFormed(j),
           Arrive(w, j)
    PROVE  TypeOK' /\ JobOK'
<1>1. job' \in [Workers -> Job] /\ JobOK'
  BY OneJob DEF Arrive
<1> QED
  BY <1>1 DEF Arrive, TypeOK, db

\* Every request the API accepts is well typed.
LEMMA RequestStep ==
    ASSUME TypeOK, JobOK, NEW w \in Workers, Request(w)
    PROVE  TypeOK' /\ JobOK'
<1> USE IdleJobType, LedgerAssumption
<1>1. ASSUME NEW r \in Requests, SubmitPayment(w, r)
      PROVE  TypeOK' /\ JobOK'
  <2> DEFINE j == [IdleJob EXCEPT !.pc = "begin", !.op = "record",
                     !.inv = r.inv, !.amt = r.amt, !.key = idempotencyKey(r)]
  <2>1. idempotencyKey(r) \in Keys /\ r.inv \in Invoices /\ r.amt \in Int
    BY RequestKeyType
  <2>2. j \in Job /\ WellFormed(j)
    BY <2>1 DEF Job, WellFormed, IdleJob
  <2> QED
    BY <1>1, <2>2, ArriveStep DEF SubmitPayment
<1>2. ASSUME NEW p \in payments, SubmitReversal(w, p)
      PROVE  TypeOK' /\ JobOK'
  <2> DEFINE j == [IdleJob EXCEPT !.pc = "begin", !.op = "reverse",
                                  !.id = p.id]
  <2>1. j \in Job /\ WellFormed(j)
    BY DEF Job, WellFormed, IdleJob, TypeOK, PaymentRow
  <2> QED
    BY <1>2, <2>1, ArriveStep DEF SubmitReversal
<1>3. ASSUME NEW g \in Verifiable, SubmitVerify(w, g)
      PROVE  TypeOK' /\ JobOK'
  <2> DEFINE j == [IdleJob EXCEPT !.pc = "findrazorpay", !.op = "record",
                     !.inv = GwInv[g], !.key = RefKey(g), !.rzp = g]
  <2>1. g \in GwPays /\ GwInv[g] \in Invoices /\ RefKey(g) \in Keys
    BY RefKeyType
  <2>2. j \in Job /\ WellFormed(j)
    BY <2>1 DEF Job, WellFormed, IdleJob
  <2> QED
    BY <1>3, <2>2, ArriveStep DEF SubmitVerify
<1>4. ASSUME NEW i \in Voidable, SubmitVoid(w, i)
      PROVE  TypeOK' /\ JobOK'
  <2> DEFINE j == [IdleJob EXCEPT !.pc = "begin", !.op = "void", !.inv = i]
  <2>1. j \in Job /\ WellFormed(j)
    BY DEF Job, WellFormed, IdleJob
  <2> QED
    BY <1>4, <2>1, ArriveStep DEF SubmitVoid
<1>5. ASSUME NEW i \in Invoices, SubmitAttach(w, i)
      PROVE  TypeOK' /\ JobOK'
  <2> DEFINE j == [IdleJob EXCEPT !.pc = "begin", !.op = "attach", !.inv = i]
  <2>1. j \in Job /\ WellFormed(j)
    BY DEF Job, WellFormed, IdleJob
  <2> QED
    BY <1>5, <2>1, ArriveStep DEF SubmitAttach
<1>6. ASSUME NEW e \in Events, DeliverWebhook(w, e)
      PROVE  TypeOK' /\ JobOK'
  <2> DEFINE j == [IdleJob EXCEPT !.pc = "lookup", !.ev = e,
                                  !.inv = GwInv[e.gw]]
  <2>1. GwInv[e.gw] \in Invoices \cup {NoInvoice}
    OBVIOUS
  <2>2. j \in Job /\ WellFormed(j)
    BY <2>1 DEF Job, WellFormed, IdleJob
  <2> QED
    BY <1>6, <2>2, ArriveStep DEF DeliverWebhook
<1> QED
  BY <1>1, <1>2, <1>3, <1>4, <1>5, <1>6 DEF Request

\* Steps that only move a job on, in the order of Step.
LEMMA LocalStep ==
    ASSUME TypeOK, JobOK, NEW w \in Workers, Step(w)
    PROVE  TypeOK' /\ JobOK'
<1> USE IdleJobType, LedgerAssumption
<1>0. job[w] \in Job /\ WellFormed(job[w])
  BY DEF TypeOK, JobOK
<1>1. CASE LookupEvent(w)
  <2>1. job[w].ev \in Events
    BY <1>0, <1>1 DEF LookupEvent, WellFormed
  <2>2. CASE job' = [job EXCEPT ![w] = IdleJob]
    BY <1>1, <2>1, <2>2, FailStep DEF Fail, LookupEvent, TypeOK, db
  <2>3. CASE Goto(w, Dispatch(job[w].ev)) /\ UNCHANGED <<processed, acked>>
    <3> DEFINE j == [job[w] EXCEPT !.pc = Dispatch(job[w].ev)]
    <3>1. j \in Job /\ WellFormed(j)
      BY <1>0, <1>1, <2>1 DEF Job, WellFormed, LookupEvent, Dispatch
    <3>2. job' = [job EXCEPT ![w] = j]
      BY <2>3 DEF Goto
    <3> QED
      BY <1>1, <2>3, <3>1, <3>2, OneJob DEF LookupEvent, TypeOK, db
  <2> QED
    BY <1>1, <2>2, <2>3 DEF LookupEvent
<1>2. CASE FindExisting(w)
  <2> DEFINE e == job[w].ev
             g == e.gw
             ref == IF e.type = "order.paid" THEN GwOrder[g] ELSE g
             j1(p) == [IdleJob EXCEPT !.pc = "begin", !.op = "reverse",
                                      !.ev = e, !.id = p.id]
             j2 == [IdleJob EXCEPT !.pc = "begin", !.op = "record", !.ev = e,
                                   !.inv = job[w].inv, !.amt = GwAmt[g],
                                   !.key = RefKey(ref)]
  <2>1. /\ e \in Events
        /\ e.type # "refund.processed" => job[w].inv \in Invoices
    BY <1>0, <1>2 DEF FindExisting, WellFormed
  <2>2. g \in GwPays /\ ref \in Refs
    BY <2>1
  <2>3. RefKey(ref) \in Keys /\ GwAmt[g] \in Int
    BY <2>2, RefKeyType
  <2>4. \/ Fail(w)
        \/ \E p \in payments : job' = [job EXCEPT ![w] = j1(p)]
        \/ e.type # "refund.processed" /\ job' = [job EXCEPT ![w] = j2]
        \/ \E p \in payments : Return(w, p.id)
    BY <1>2 DEF FindExisting, RowsWithKey, RowsWithRazorpayId
  <2>5. ASSUME NEW p \in payments PROVE j1(p) \in Job /\ WellFormed(j1(p))
    BY <2>1 DEF Job, WellFormed, IdleJob, TypeOK, PaymentRow
  <2>6. e.type # "refund.processed" => j2 \in Job /\ WellFormed(j2)
    BY <2>1, <2>3 DEF Job, WellFormed, IdleJob
  <2>7. \A p \in payments : p.id \in Nat
    BY DEF TypeOK, PaymentRow
  <2>8. job' \in [Workers -> Job] /\ JobOK'
    <3> HIDE DEF j1, j2
    <3> QED
      BY <2>4, <2>5, <2>6, <2>7, FailStep, ReturnStep, OneJob
  <2> QED
    BY <1>2, <2>8 DEF FindExisting, TypeOK, db
<1>3. CASE SetWebhookEventID(w)
  <2> DEFINE j == [job[w] EXCEPT !.pc = "mark"]
  <2>1. job[w].ev \in Events /\ job[w].id \in Nat
    BY <1>0, <1>3 DEF SetWebhookEventID, WellFormed, Job
  <2>2. j \in Job /\ WellFormed(j)
    BY <1>0, <2>1 DEF Job, WellFormed
  <2>3. job' = [job EXCEPT ![w] = j]
    BY <1>3 DEF SetWebhookEventID, Goto
  <2>4. eventOf' \subseteq Nat \X Events
    BY <1>3, <2>1 DEF SetWebhookEventID, TypeOK
  <2> QED
    BY <1>3, <2>2, <2>3, <2>4, OneJob DEF SetWebhookEventID, TypeOK
<1>4. CASE MarkProcessed(w)
  <2>1. job[w].ev \in Events
    BY <1>0, <1>4 DEF MarkProcessed, WellFormed
  <2> QED
    BY <1>4, <2>1, FailStep DEF Fail, MarkProcessed, TypeOK, db
<1>5. CASE FindRazorpayPayment(w)
  <2> DEFINE j == [job[w] EXCEPT !.pc = "balance"]
  <2>1. j \in Job /\ WellFormed(j)
    BY <1>0, <1>5 DEF FindRazorpayPayment, Job, WellFormed
  <2>2. Fail(w) \/ job' = [job EXCEPT ![w] = j]
    BY <1>5 DEF FindRazorpayPayment, Goto
  <2> QED
    BY <1>5, <2>1, <2>2, OneJob, FailStep DEF FindRazorpayPayment, TypeOK, db
<1>6. CASE ReadBalance(w)
  <2> DEFINE b == OutstandingBalance(invoice[job[w].inv])
             j == [job[w] EXCEPT !.pc = "begin", !.amt = b]
  <2>1. job[w].inv \in Invoices /\ job[w].op = "record"
    BY <1>0, <1>6 DEF ReadBalance, WellFormed
  <2>2. b \in Int
    BY <2>1 DEF TypeOK, InvoiceRow, OutstandingBalance
  <2>3. j \in Job /\ WellFormed(j)
    <3> HIDE DEF b
    <3>1. j \in Job
      BY <1>0, <2>2 DEF Job
    <3>2. j.pc = "begin" /\ j.inv = job[w].inv /\ j.op = job[w].op
      BY <1>0 DEF Job
    <3> QED
      BY <2>1, <3>1, <3>2 DEF WellFormed
  <2>4. Fail(w) \/ job' = [job EXCEPT ![w] = j]
    BY <1>6 DEF ReadBalance
  <2> QED
    BY <1>6, <2>3, <2>4, OneJob, FailStep DEF ReadBalance, TypeOK, db
<1>7. CASE BeginRecord(w)
  <2> DEFINE j == [job[w] EXCEPT !.pc = "claim", !.snap = invoice[job[w].inv]]
  <2>1. job[w].inv \in Invoices /\ job[w].op = "record"
    BY <1>0, <1>7 DEF BeginRecord, WellFormed
  <2>2. invoice[job[w].inv] \in InvoiceRow
    BY <2>1 DEF TypeOK
  <2>3. j \in Job
    BY <1>0, <2>2 DEF Job
  <2>4. j.pc = "claim" /\ j.inv = job[w].inv /\ j.op = job[w].op
    BY <1>0 DEF Job
  <2>5. WellFormed(j)
    BY <2>1, <2>3, <2>4 DEF WellFormed
  <2>6. job' = [job EXCEPT ![w] = j]
    BY <1>7 DEF BeginRecord
  <2> QED
    BY <1>7, <2>3, <2>5, <2>6, OneJob DEF BeginRecord, TypeOK, db
<1>8. CASE BeginReverse(w)
  <2> DEFINE j(p) == [job[w] EXCEPT !.pc = "claim", !.inv = p.inv,
                        !.amt = ReversalAmount(p), !.key = RevKey(p.id)]
  <2>1. \/ Fail(w)
        \/ \E r \in payments : Return(w, r.id)
        \/ \E p \in payments : job' = [job EXCEPT ![w] = j(p)]
    <3>1. CASE (\A p \in payments : p.id # job[w].id) /\ Fail(w)
      BY <3>1
    <3>2. CASE \E p \in payments : p.id = job[w].id
      <4>1. PICK p \in payments :
              /\ p.id = job[w].id
              /\ IF RowsWithKey(p.inv, RevKey(p.id)) # {}
                 THEN \E r \in RowsWithKey(p.inv, RevKey(p.id)) :
                        Return(w, r.id)
                 ELSE job' = [job EXCEPT ![w].pc = "claim",
                                         ![w].inv = p.inv,
                                         ![w].amt = ReversalAmount(p),
                                         ![w].key = RevKey(p.id)]
        BY <1>8, <3>2, Zenon DEF BeginReverse
      <4>2. RowsWithKey(p.inv, RevKey(p.id)) \subseteq payments
        BY DEF RowsWithKey
      <4>3. CASE RowsWithKey(p.inv, RevKey(p.id)) # {}
        BY <4>1, <4>2, <4>3
      <4>4. CASE RowsWithKey(p.inv, RevKey(p.id)) = {}
        <5>1. job' = [job EXCEPT ![w] = j(p)]
          BY <4>1, <4>4
        <5> QED
          BY <5>1
      <4> QED
        BY <4>3, <4>4
    <3> QED
      BY <1>8, <3>1, <3>2 DEF BeginReverse
  <2>2. ASSUME NEW p \in payments PROVE j(p) \in Job /\ WellFormed(j(p))
    <3>1. /\ p.inv \in Invoices
          /\ ReversalAmount(p) \in Int
          /\ RevKey(p.id) \in Keys
      BY RevKeyType DEF TypeOK, PaymentRow, ReversalAmount
    <3>2. j(p) \in Job
      BY <1>0, <3>1 DEF Job
    <3>3. j(p).pc = "claim" /\ j(p).inv = p.inv /\ j(p).op = job[w].op
      BY <1>0 DEF Job
    <3> QED
      BY <1>8, <3>1, <3>2, <3>3 DEF WellFormed, BeginReverse
  <2>3. \A p \in payments : p.id \in Nat
    BY DEF TypeOK, PaymentRow
  <2>4. job' \in [Workers -> Job] /\ JobOK'
    <3> HIDE DEF j
    <3> QED
      BY <2>1, <2>2, <2>3, FailStep, ReturnStep, OneJob
  <2> QED
    BY <1>8, <2>4 DEF BeginReverse, TypeOK, db
<1>9. CASE BeginVoid(w)
  <2> DEFINE j == [job[w] EXCEPT !.pc = "save", !.snap = invoice[job[w].inv]]
  <2>1. job[w].inv \in Invoices /\ job[w].op = "void"
    BY <1>0, <1>9 DEF BeginVoid, WellFormed
  <2>2. invoice[job[w].inv] \in InvoiceRow
    BY <2>1 DEF TypeOK
  <2>3. j \in Job
    BY <1>0, <2>2 DEF Job
  <2>4. j.pc = "save" /\ j.inv = job[w].inv /\ j.op = job[w].op
    BY <1>0 DEF Job
  <2>5. WellFormed(j)
    BY <2>1, <2>3, <2>4 DEF WellFormed
  <2>6. Fail(w) \/ job' = [job EXCEPT ![w] = j]
    BY <1>9 DEF BeginVoid
  <2> QED
    BY <1>9, <2>3, <2>5, <2>6, OneJob, FailStep DEF BeginVoid, TypeOK, db
<1>10. CASE BeginAttach(w)
  <2> DEFINE j == [job[w] EXCEPT !.pc = "save", !.snap = invoice[job[w].inv]]
  <2>1. job[w].inv \in Invoices /\ job[w].op = "attach"
    BY <1>0, <1>10 DEF BeginAttach, WellFormed
  <2>2. invoice[job[w].inv] \in InvoiceRow
    BY <2>1 DEF TypeOK
  <2>3. j \in Job
    BY <1>0, <2>2 DEF Job
  <2>4. /\ j.pc = "save" /\ j.inv = job[w].inv /\ j.op = job[w].op
        /\ j.snap = invoice[job[w].inv]
    BY <1>0 DEF Job
  <2>5. \/ Fail(w)
        \/ /\ job' = [job EXCEPT ![w] = j]
           /\ invoice[job[w].inv].payStatus = "pending"
    BY <1>10, <2>2 DEF BeginAttach, InvoiceRow, PaymentStatuses
  <2>6. invoice[job[w].inv].payStatus = "pending" => WellFormed(j)
    BY <2>1, <2>3, <2>4 DEF WellFormed
  <2> QED
    BY <1>10, <2>3, <2>5, <2>6, OneJob, FailStep DEF BeginAttach, TypeOK, db
<1>11. CASE SaveIfNew(w)
  <2> DEFINE q == IF job[w].op = "record" THEN "save" ELSE "read"
             j == [job[w] EXCEPT !.pc = q]
  <2>1. job[w].inv \in Invoices /\ job[w].op \in {"record", "reverse"}
    BY <1>0, <1>11 DEF SaveIfNew, WellFormed
  <2>2. j \in Job
    BY <1>0 DEF Job
  <2>3. j.pc = q /\ j.inv = job[w].inv /\ j.op = job[w].op
    BY <1>0 DEF Job
  <2>4. WellFormed(j)
    BY <2>1, <2>2, <2>3 DEF WellFormed
  <2>5. (\E p \in payments : Return(w, p.id)) \/ job' = [job EXCEPT ![w] = j]
    BY <1>11 DEF SaveIfNew, RowsWithKey, Goto
  <2>6. \A p \in payments : p.id \in Nat
    BY DEF TypeOK, PaymentRow
  <2>7. job' \in [Workers -> Job] /\ JobOK'
    <3> HIDE DEF j
    <3> QED
      BY <2>2, <2>4, <2>5, <2>6, ReturnStep, OneJob
  <2> QED
    BY <1>11, <2>7 DEF SaveIfNew, TypeOK, db
<1>12. CASE ReadInvoice(w)
  <2> DEFINE j == [job[w] EXCEPT !.pc = "save", !.snap = invoice[job[w].inv]]
  <2>1. job[w].inv \in Invoices /\ job[w].op \in {"record", "reverse"}
    BY <1>0, <1>12 DEF ReadInvoice, WellFormed
  <2>2. invoice[job[w].inv] \in InvoiceRow
    BY <2>1 DEF TypeOK
  <2>3. j \in Job
    BY <1>0, <2>2 DEF Job
  <2>4. j.pc = "save" /\ j.inv = job[w].inv /\ j.op = job[w].op
    BY <1>0 DEF Job
  <2>5. WellFormed(j)
    BY <2>1, <2>3, <2>4 DEF WellFormed
  <2>6. job' = [job EXCEPT ![w] = j]
    BY <1>12 DEF ReadInvoice
  <2> QED
    BY <1>12, <2>3, <2>5, <2>6, OneJob DEF ReadInvoice, TypeOK, db
<1>13. CASE CommitPayment(w)
  <2> DEFINE p == [id |-> nextId, inv |-> job[w].inv, amt |-> job[w].amt,
                   key |-> job[w].key, rzp |-> job[w].rzp]
  <2>1. job[w].inv \in Invoices
    BY <1>0, <1>13 DEF CommitPayment, WellFormed
  <2>2. p \in PaymentRow
    BY <1>0, <2>1 DEF Job, PaymentRow, TypeOK
  <2>3. payments' \subseteq PaymentRow
    BY <1>13, <2>2 DEF CommitPayment, TypeOK
  <2>4. ApplyPayment(job[w].snap, job[w].amt) \in InvoiceRow
    BY <1>0, ApplyPaymentType DEF Job
  <2>5. invoice' \in [Invoices -> InvoiceRow]
    <3> HIDE DEF p
    <3>1. job[w].snap.version + 1 \in Nat
      BY <1>0 DEF Job, InvoiceRow
    <3>2. invoice' = Saved(w, ApplyPayment(job[w].snap, job[w].amt))
      BY <1>13 DEF CommitPayment
    <3> QED
      BY <2>1, <2>4, <3>1, <3>2 DEF Saved, TypeOK, InvoiceRow
  <2>6. nextId \in Nat /\ nextId' \in Nat \ {0}
    BY <1>13 DEF CommitPayment, TypeOK
  <2>7. job' \in [Workers -> Job] /\ JobOK'
    BY <1>13, <2>6, ReturnStep DEF CommitPayment
  <2> QED
    BY <1>13, <2>3, <2>5, <2>6, <2>7 DEF CommitPayment, TypeOK
<1>14. CASE CommitVoid(w)
  <2>1. job[w].inv \in Invoices
    BY <1>0, <1>14 DEF CommitVoid, WellFormed
  <2>2. [job[w].snap EXCEPT !.status = "cancelled"] \in InvoiceRow
    BY <1>0 DEF Job, InvoiceRow, InvoiceStatuses
  <2>3. invoice' \in [Invoices -> InvoiceRow]
    <3>1. job[w].snap.version + 1 \in Nat
      BY <1>0 DEF Job, InvoiceRow
    <3> QED
      BY <1>14, <2>1, <2>2, <3>1 DEF CommitVoid, Saved, TypeOK, InvoiceRow
  <2> QED
    BY <1>14, <2>3, FailStep DEF CommitVoid, TypeOK
<1>15. CASE CommitAttach(w)
  <2>1. job[w].inv \in Invoices
    BY <1>0, <1>15 DEF CommitAttach, WellFormed
  <2>2. [job[w].snap EXCEPT !.total = job[w].snap.total + 1] \in InvoiceRow
    BY <1>0 DEF Job, InvoiceRow
  <2>3. invoice' \in [Invoices -> InvoiceRow]
    <3>1. job[w].snap.version + 1 \in Nat
      BY <1>0 DEF Job, InvoiceRow
    <3> QED
      BY <1>15, <2>1, <2>2, <3>1 DEF CommitAttach, Saved, TypeOK, InvoiceRow
  <2> QED
    BY <1>15, <2>3, FailStep DEF CommitAttach, TypeOK
<1>16. CASE RollBack(w)
  BY <1>16, FailStep DEF RollBack, TypeOK, db
<1> QED
  BY <1>1, <1>2, <1>3, <1>4, <1>5, <1>6, <1>7, <1>8, <1>9, <1>10, <1>11,
     <1>12, <1>13, <1>14, <1>15, <1>16 DEF Step

\* Type correctness is inductive.
LEMMA TypeStep ==
    ASSUME TypeOK, JobOK, [Next]_vars
    PROVE  TypeOK' /\ JobOK'
<1>1. ASSUME NEW w \in Workers, DatabaseError(w) PROVE TypeOK' /\ JobOK'
  BY <1>1, FailStep DEF DatabaseError, TypeOK, db
<1>2. ASSUME NEW e \in Events, ExpireProcessed(e) PROVE TypeOK' /\ JobOK'
  BY <1>2 DEF ExpireProcessed, TypeOK, db, JobOK, WellFormed
<1>3. CASE Restart
  <2>1. job' \in [Workers -> Job]
    BY <1>3, IdleJobType DEF Restart
  <2>2. JobOK'
    BY <1>3, IdleWellFormed DEF Restart, JobOK, WellFormed
  <2> QED
    BY <1>3, <2>1, <2>2 DEF Restart, TypeOK, db
<1>4. CASE UNCHANGED vars
  BY <1>4 DEF vars, TypeOK, JobOK, WellFormed
<1> QED
  BY <1>1, <1>2, <1>3, <1>4, RequestStep, LocalStep DEF Next

\* Every table, cache and request keeps its shape; in particular no
\* interleaving drives an invoice's paid amount below zero.
THEOREM TypeCorrect == Spec => []TypeOK
<1>1. Init => TypeOK /\ JobOK
  BY TypeInit, InitJobOK
<1>2. TypeOK /\ JobOK /\ [Next]_vars => TypeOK' /\ JobOK'
  BY TypeStep
<1> QED
  BY <1>1, <1>2, PTL DEF Spec

-----------------------------------------------------------------------------
(* The safety invariants.                                                  *)

\* The snapshot a transaction writes back is either out of date, with an older
\* version than the row, or equal to the row.
SnapFresh(w) ==
    \/ job[w].pc = "save"
    \/ job[w].pc = "claim" /\ job[w].op = "record"
    => /\ job[w].snap.version <= invoice[job[w].inv].version
       /\ job[w].snap.version = invoice[job[w].inv].version =>
            job[w].snap = invoice[job[w].inv]

\* A transaction that holds a key is the only one, and no row has that key.
ClaimFree(w) ==
    job[w].pc \in Claiming /\ job[w].op \in {"record", "reverse"} =>
        /\ RowsWithKey(job[w].inv, job[w].key) = {}
        /\ \A v \in Workers \ {w} : ~HoldsClaim(v, job[w].inv, job[w].key)

\* Only a reversal carries a reversal key, and it has the original's invoice
\* and the opposite amount.
ReversalJob(w) ==
    /\ job[w].op = "record" => job[w].key[1] # "reversal"
    /\ job[w].op = "reverse" /\ job[w].pc \in {"claim", "read", "save"} =>
         \E p \in payments : /\ job[w].key = RevKey(p.id)
                             /\ job[w].inv = p.inv
                             /\ job[w].amt = -p.amt

JobSafe == \A w \in Workers : SnapFresh(w) /\ ClaimFree(w) /\ ReversalJob(w)

IdsBelow == \A p \in payments : p.id < nextId

ReversalsExact ==
    \A r \in payments : \A n \in Nat :
        r.key = RevKey(n) =>
            \E p \in payments : p.id = n /\ p.inv = r.inv /\ r.amt = -p.amt

Safe == /\ TypeOK /\ JobOK
        /\ JobSafe /\ KeysUnique /\ IdsBelow /\ ReversalsExact
        /\ StatusMatchesBalance

tables == <<invoice, payments, nextId>>

\* A step that leaves the tables alone and takes worker w out of its
\* transaction keeps every invariant.
LEMMA QuietStep ==
    ASSUME Safe, TypeOK', JobOK', NEW w \in Workers, NEW j,
           UNCHANGED tables,
           job' = [job EXCEPT ![w] = j],
           j.pc \notin {"claim", "read", "save"},
           j.op = "record" => j.key[1] # "reversal"
    PROVE  Safe'
<1>1. job'[w] = j /\ \A v \in Workers \ {w} : job'[v] = job[v]
  BY DEF Safe, TypeOK
<1>2. UNCHANGED <<invoice, payments, nextId>>
  BY DEF tables
<1>3. \A v \in Workers : SnapFresh(v)'
  BY <1>1, <1>2 DEF Safe, JobSafe, SnapFresh
<1>4. \A v \in Workers : ClaimFree(v)'
  BY <1>1, <1>2 DEF Safe, JobSafe, ClaimFree, HoldsClaim, Claiming, RowsWithKey
<1>5. \A v \in Workers : ReversalJob(v)'
  BY <1>1, <1>2 DEF Safe, JobSafe, ReversalJob
<1> QED
  BY <1>2, <1>3, <1>4, <1>5
  DEF Safe, JobSafe, KeysUnique, IdsBelow, ReversalsExact, StatusMatchesBalance

\* The invariant holds of the empty database.
LEMMA SafeInit == Init => Safe
<1> SUFFICES ASSUME Init PROVE Safe
  OBVIOUS
<1>1. TypeOK /\ JobOK
  BY TypeInit, InitJobOK
<1>2. JobSafe
  BY DEF Init, JobSafe, SnapFresh, ClaimFree, ReversalJob, IdleJob, Claiming
<1>3. KeysUnique /\ IdsBelow /\ ReversalsExact
  BY DEF Init, KeysUnique, IdsBelow, ReversalsExact
<1>4. StatusMatchesBalance
  BY LedgerAssumption DEF Init, StatusMatchesBalance, PaymentStatusFor
<1> QED
  BY <1>1, <1>2, <1>3, <1>4 DEF Safe

\* A step that leaves the tables alone and moves worker w on inside its
\* transaction keeps the invariants if its new job does.
LEMMA JobStep ==
    ASSUME Safe, TypeOK', JobOK', NEW w \in Workers, NEW j \in Job,
           UNCHANGED tables,
           job' = [job EXCEPT ![w] = j],
           j.pc = "save" \/ (j.pc = "claim" /\ j.op = "record") =>
             /\ j.snap.version <= invoice[j.inv].version
             /\ j.snap.version = invoice[j.inv].version =>
                  j.snap = invoice[j.inv],
           j.pc \in Claiming /\ j.op \in {"record", "reverse"} =>
             /\ RowsWithKey(j.inv, j.key) = {}
             /\ \A v \in Workers \ {w} : ~HoldsClaim(v, j.inv, j.key),
           j.op = "record" => j.key[1] # "reversal",
           j.op = "reverse" /\ j.pc \in {"claim", "read", "save"} =>
             \E p \in payments : /\ j.key = RevKey(p.id)
                                 /\ j.inv = p.inv /\ j.amt = -p.amt
    PROVE  Safe'
<1>1. job'[w] = j /\ \A v \in Workers \ {w} : job'[v] = job[v]
  BY DEF Safe, TypeOK
<1>2. UNCHANGED <<invoice, payments, nextId>>
  BY DEF tables
<1>3. \A v \in Workers : SnapFresh(v)'
  BY <1>1, <1>2 DEF Safe, JobSafe, SnapFresh
<1>4. ASSUME NEW v \in Workers PROVE ClaimFree(v)'
  <2>1. CASE v = w
    BY <1>1, <1>2, <2>1
    DEF Safe, JobSafe, ClaimFree, HoldsClaim, Claiming, RowsWithKey
  <2>2. CASE v # w
    <3>1. job'[v] = job[v]
      BY <1>1, <2>2
    <3>2. SUFFICES ASSUME job[v].pc \in Claiming,
                          job[v].op \in {"record", "reverse"}
                   PROVE  \A u \in Workers \ {v} :
                            ~HoldsClaim(u, job[v].inv, job[v].key)'
      BY <1>2, <3>1 DEF Safe, JobSafe, ClaimFree, RowsWithKey
    <3>3. ~HoldsClaim(w, job[v].inv, job[v].key)'
      BY <1>1, <2>2, <3>1, <3>2 DEF HoldsClaim, Claiming
    <3>4. \A u \in Workers \ {v, w} :
            ~HoldsClaim(u, job[v].inv, job[v].key)'
      BY <1>1, <3>1, <3>2 DEF HoldsClaim, Safe, JobSafe, ClaimFree
    <3> QED
      BY <3>3, <3>4
  <2> QED
    BY <2>1, <2>2
<1>5. \A v \in Workers : ReversalJob(v)'
  BY <1>1, <1>2 DEF Safe, JobSafe, ReversalJob
<1> QED
  BY <1>2, <1>3, <1>4, <1>5
  DEF Safe, JobSafe, KeysUnique, IdsBelow, ReversalsExact, StatusMatchesBalance

\* A rolled-back request keeps the invariant.
LEMMA SafeFail ==
    ASSUME Safe, TypeOK', JobOK', NEW w \in Workers, UNCHANGED tables, Fail(w)
    PROVE  Safe'
  BY QuietStep DEF Fail, IdleJob

\* A use case that returns without writing keeps the invariant.
LEMMA SafeReturn ==
    ASSUME Safe, TypeOK', JobOK', NEW w \in Workers, NEW id,
           UNCHANGED tables, Return(w, id)
    PROVE  Safe'
<1>1. CASE job[w].ev = NoEvent
  BY <1>1, SafeFail DEF Return, Fail
<1>2. CASE job[w].ev # NoEvent
  <2> DEFINE j == [IdleJob EXCEPT !.pc = "setevent", !.ev = job[w].ev,
                                  !.id = id]
  <2>1. job' = [job EXCEPT ![w] = j]
    BY <1>2 DEF Return
  <2>2. j.pc = "setevent" /\ j.op = "none"
    BY DEF IdleJob
  <2> QED
    BY <2>1, <2>2, QuietStep
<1> QED
  BY <1>1, <1>2

\* The request that arrives is at "begin", "lookup" or "findrazorpay".
LEMMA SafeRequest ==
    ASSUME Safe, NEW w \in Workers, Request(w)
    PROVE  Safe'
<1>1. TypeOK' /\ JobOK'
  BY RequestStep DEF Safe
<1>2. UNCHANGED tables
  BY DEF Request, SubmitPayment, SubmitReversal, SubmitVerify, SubmitVoid,
         SubmitAttach, DeliverWebhook, Arrive, db, tables
<1> DEFINE j == job'[w]
<1>3. /\ job' = [job EXCEPT ![w] = j]
      /\ j.pc \notin {"claim", "read", "save"}
      /\ j.op = "record" => j.key[1] # "reversal"
  <2>1. ASSUME NEW r \in Requests PROVE idempotencyKey(r)[1] # "reversal"
    BY DEF idempotencyKey, RefKey
  <2>2. ASSUME NEW g \in Refs PROVE RefKey(g)[1] # "reversal"
    BY DEF RefKey
  <2>3. CASE \E r \in Requests : SubmitPayment(w, r)
    BY <2>1, <2>3 DEF SubmitPayment, Arrive, IdleJob, Safe, TypeOK
  <2>4. CASE \E p \in payments : SubmitReversal(w, p)
    BY <2>4 DEF SubmitReversal, Arrive, IdleJob, Safe, TypeOK
  <2>5. CASE \E g \in Verifiable : SubmitVerify(w, g)
    BY <2>2, <2>5, LedgerAssumption DEF SubmitVerify, Arrive, IdleJob, Safe, TypeOK
  <2>6. CASE \E i \in Voidable : SubmitVoid(w, i)
    BY <2>6 DEF SubmitVoid, Arrive, IdleJob, Safe, TypeOK
  <2>7. CASE \E i \in Invoices : SubmitAttach(w, i)
    BY <2>7 DEF SubmitAttach, Arrive, IdleJob, Safe, TypeOK
  <2>8. CASE \E e \in Events : DeliverWebhook(w, e)
    BY <2>8 DEF DeliverWebhook, Arrive, IdleJob, Safe, TypeOK
  <2> QED
    BY <2>3, <2>4, <2>5, <2>6, <2>7, <2>8 DEF Request
<1> QED
  BY <1>1, <1>2, <1>3, QuietStep

\* At the commit the snapshot is the row, or the version check had failed.
LEMMA SnapIsRow ==
    ASSUME Safe, NEW w \in Workers, job[w].pc = "save", ~Conflict(w)
    PROVE  job[w].inv \in Invoices /\ job[w].snap = invoice[job[w].inv]
  BY DEF Safe, JobSafe, SnapFresh, Conflict, JobOK, WellFormed

\* A commit ends worker w's transaction and makes every other snapshot of the
\* invoice it writes an old one.
LEMMA CommitJobs ==
    ASSUME Safe, TypeOK', NEW w \in Workers, NEW j,
           job' = [job EXCEPT ![w] = j],
           j.pc \notin {"claim", "read", "save"}, j.op = "none",
           NEW i \in Invoices, NEW row,
           invoice' = [invoice EXCEPT ![i] = row],
           row.version = invoice[i].version + 1,
           payments \subseteq payments',
           \A p \in payments' \ payments : \A v \in Workers \ {w} :
             ~HoldsClaim(v, p.inv, p.key)
    PROVE  JobSafe'
<1>1. job'[w] = j /\ \A v \in Workers \ {w} : job'[v] = job[v]
  BY DEF Safe, TypeOK
<1>2. SUFFICES ASSUME NEW v \in Workers \ {w}
               PROVE  (SnapFresh(v) /\ ClaimFree(v) /\ ReversalJob(v))'
  BY <1>1 DEF JobSafe, SnapFresh, ClaimFree, ReversalJob, Claiming
<1>3. job'[v] = job[v] /\ SnapFresh(v) /\ ClaimFree(v) /\ ReversalJob(v)
  BY <1>1 DEF Safe, JobSafe
<1>4. SnapFresh(v)'
  <2> SUFFICES ASSUME job[v].pc = "save" \/
                        (job[v].pc = "claim" /\ job[v].op = "record")
               PROVE  SnapFresh(v)'
    BY <1>3 DEF SnapFresh
  <2>1. job[v].inv \in Invoices /\ job[v].snap \in InvoiceRow
    BY DEF Safe, JobOK, WellFormed, TypeOK, Job
  <2>2. CASE job[v].inv # i
    BY <1>3, <2>1, <2>2 DEF SnapFresh, Safe, TypeOK
  <2>3. CASE job[v].inv = i
    <3>1. invoice'[i].version = invoice[i].version + 1
      BY DEF Safe, TypeOK
    <3>2. /\ job[v].snap.version \in Nat /\ invoice[i].version \in Nat
          /\ job[v].snap.version <= invoice[i].version
      BY <1>3, <2>1, <2>3 DEF SnapFresh, Safe, TypeOK, InvoiceRow
    <3> QED
      BY <1>3, <2>3, <3>1, <3>2 DEF SnapFresh
  <2> QED
    BY <2>2, <2>3
<1>5. ClaimFree(v)'
  <2> SUFFICES ASSUME job[v].pc \in Claiming,
                      job[v].op \in {"record", "reverse"}
               PROVE  ClaimFree(v)'
    BY <1>3 DEF ClaimFree
  <2>1. HoldsClaim(v, job[v].inv, job[v].key)
    BY DEF HoldsClaim
  <2>2. ASSUME NEW p \in payments', p.key = job[v].key,
               TenantOf[p.inv] = TenantOf[job[v].inv]
        PROVE  FALSE
    <3>1. CASE p \in payments
      BY <1>3, <2>2, <3>1 DEF ClaimFree, RowsWithKey
    <3>2. CASE p \notin payments
      BY <2>1, <2>2, <3>2 DEF HoldsClaim
    <3> QED
      BY <3>1, <3>2
  <2>3. RowsWithKey(job[v].inv, job[v].key)' = {}
    BY <1>3, <2>2 DEF RowsWithKey
  <2>4. \A u \in Workers \ {v} : ~HoldsClaim(u, job[v].inv, job[v].key)'
    BY <1>1, <1>3 DEF HoldsClaim, ClaimFree, Claiming
  <2> QED
    BY <1>3, <2>3, <2>4 DEF ClaimFree
<1>6. ReversalJob(v)'
  BY <1>3 DEF ReversalJob
<1> QED
  BY <1>4, <1>5, <1>6

\* A commit that writes one invoice and no payment row.
LEMMA SafeInvoiceWrite ==
    ASSUME Safe, TypeOK', JobOK', NEW w \in Workers, Fail(w),
           NEW i \in Invoices, NEW row,
           invoice' = [invoice EXCEPT ![i] = row],
           row.version = invoice[i].version + 1,
           row.payStatus = PaymentStatusFor(row.paid, row.total),
           row.status # "cancelled" =>
             (row.status = "paid" <=> row.paid >= row.total),
           UNCHANGED <<payments, nextId>>
    PROVE  Safe'
<1>1. JobSafe'
  <2>1. IdleJob.pc \notin {"claim", "read", "save"} /\ IdleJob.op = "none"
    BY DEF IdleJob
  <2> QED
    BY <2>1, CommitJobs DEF Fail
<1>2. StatusMatchesBalance'
  BY DEF Safe, TypeOK, StatusMatchesBalance
<1>3. (KeysUnique /\ IdsBelow /\ ReversalsExact)'
  BY DEF Safe, KeysUnique, IdsBelow, ReversalsExact
<1> QED
  BY <1>1, <1>2, <1>3 DEF Safe

\* A committed void keeps the invariant: it leaves the amounts alone.
LEMMA SafeVoid ==
    ASSUME Safe, TypeOK', JobOK', NEW w \in Workers, CommitVoid(w)
    PROVE  Safe'
<1> DEFINE i == job[w].inv
           row == [job[w].snap EXCEPT !.status = "cancelled",
                                      !.version = job[w].snap.version + 1]
<1>1. i \in Invoices /\ job[w].snap = invoice[i]
  BY SnapIsRow DEF CommitVoid
<1>2. invoice[i] \in InvoiceRow
  BY <1>1 DEF Safe, TypeOK
<1>3. /\ row.version = invoice[i].version + 1
      /\ row.status = "cancelled"
      /\ row.paid = invoice[i].paid /\ row.total = invoice[i].total
      /\ row.payStatus = invoice[i].payStatus
  BY <1>1, <1>2 DEF InvoiceRow
<1>4. invoice[i].payStatus = PaymentStatusFor(invoice[i].paid, invoice[i].total)
  BY <1>1 DEF Safe, StatusMatchesBalance
<1>5. invoice' = [invoice EXCEPT ![i] = row]
  BY DEF CommitVoid, Saved
<1> HIDE DEF row, i
<1> QED
  BY <1>1, <1>3, <1>4, <1>5, SafeInvoiceWrite DEF CommitVoid

\* A line is attached only while nothing is paid, so the larger total leaves
\* the invoice pending.
LEMMA SafeAttach ==
    ASSUME Safe, TypeOK', JobOK', NEW w \in Workers, CommitAttach(w)
    PROVE  Safe'
<1> DEFINE i == job[w].inv
           row == [job[w].snap EXCEPT !.total = job[w].snap.total + 1,
                                      !.version = job[w].snap.version + 1]
<1>1. i \in Invoices /\ job[w].snap = invoice[i]
  BY SnapIsRow DEF CommitAttach
<1>2. invoice[i] \in InvoiceRow
  BY <1>1 DEF Safe, TypeOK
<1>3. /\ row.version = invoice[i].version + 1
      /\ row.status = invoice[i].status
      /\ row.paid = invoice[i].paid /\ row.total = invoice[i].total + 1
      /\ row.payStatus = invoice[i].payStatus
  BY <1>1, <1>2 DEF InvoiceRow
<1>4. /\ invoice[i].payStatus = "pending"
      /\ invoice[i].payStatus =
           PaymentStatusFor(invoice[i].paid, invoice[i].total)
      /\ invoice[i].status # "cancelled" =>
           (invoice[i].status = "paid" <=> invoice[i].paid >= invoice[i].total)
  BY <1>1 DEF Safe, StatusMatchesBalance, JobOK, WellFormed, CommitAttach
<1>5. /\ invoice[i].paid \in Nat /\ invoice[i].total \in Nat
      /\ invoice[i].paid <= 0 /\ invoice[i].paid < invoice[i].total
  BY <1>2, <1>4 DEF PaymentStatusFor, InvoiceRow
<1>6. invoice' = [invoice EXCEPT ![i] = row]
  BY DEF CommitAttach, Saved
<1>7. /\ row.payStatus = PaymentStatusFor(row.paid, row.total)
      /\ row.status # "cancelled" =>
           (row.status = "paid" <=> row.paid >= row.total)
  <2> HIDE DEF row, i
  <2> QED
    BY <1>3, <1>4, <1>5 DEF PaymentStatusFor
<1> HIDE DEF row, i
<1> QED
  BY <1>1, <1>3, <1>6, <1>7, SafeInvoiceWrite DEF CommitAttach

\* What ApplyPayment returns, field by field.
LEMMA ApplyPaymentFields ==
    ASSUME NEW inv \in InvoiceRow, NEW amt \in Int,
           inv.status # "cancelled"
    PROVE  LET row == ApplyPayment(inv, amt) IN
           /\ row \in InvoiceRow
           /\ row.paid = (IF inv.paid + amt < 0 THEN 0 ELSE inv.paid + amt)
           /\ row.total = inv.total
           /\ row.payStatus = PaymentStatusFor(row.paid, row.total)
           /\ row.status # "cancelled"
           /\ row.status = "paid" <=> row.paid >= row.total
<1> DEFINE newPaid == IF inv.paid + amt < 0 THEN 0 ELSE inv.paid + amt
           newStatus == IF newPaid >= inv.total THEN "paid"
                        ELSE IF inv.status = "paid" THEN "outstanding"
                        ELSE inv.status
<1>1. ApplyPayment(inv, amt) =
        [inv EXCEPT !.paid = newPaid,
                    !.payStatus = PaymentStatusFor(newPaid, inv.total),
                    !.status = newStatus]
  BY DEF ApplyPayment
<1>2. newStatus # "cancelled" /\ (newStatus = "paid" <=> newPaid >= inv.total)
  BY DEF InvoiceRow, InvoiceStatuses
<1>3. ApplyPayment(inv, amt) \in InvoiceRow
  BY ApplyPaymentType
<1> HIDE DEF newStatus
<1>4. /\ ApplyPayment(inv, amt).paid = newPaid
      /\ ApplyPayment(inv, amt).total = inv.total
      /\ ApplyPayment(inv, amt).payStatus = PaymentStatusFor(newPaid, inv.total)
      /\ ApplyPayment(inv, amt).status = newStatus
  BY <1>1 DEF InvoiceRow
<1> QED
  BY <1>2, <1>3, <1>4

\* The effect of a committed payment on the tables.
LEMMA CommitTables ==
    ASSUME Safe, NEW w \in Workers, CommitPayment(w)
    PROVE  LET i == job[w].inv
               p == [id |-> nextId, inv |-> i, amt |-> job[w].amt,
                     key |-> job[w].key, rzp |-> job[w].rzp]
               row == ApplyPayment(invoice[i], job[w].amt)
           IN /\ i \in Invoices /\ job[w].snap = invoice[i]
              /\ invoice[i] \in InvoiceRow /\ job[w].amt \in Int
              /\ invoice[i].status # "cancelled"
              /\ payments' = payments \cup {p}
              /\ p \notin payments
              /\ nextId' = nextId + 1
              /\ invoice' = [invoice EXCEPT ![i] =
                              [row EXCEPT !.version = invoice[i].version + 1]]
<1>1. job[w].inv \in Invoices /\ job[w].snap = invoice[job[w].inv]
  BY SnapIsRow DEF CommitPayment
<1>2. invoice[job[w].inv] \in InvoiceRow /\ job[w].amt \in Int
  BY <1>1 DEF Safe, TypeOK, Job
<1>3. \A q \in payments : q.id # nextId
  BY DEF Safe, IdsBelow, TypeOK, PaymentRow
<1> QED
  BY <1>1, <1>2, <1>3 DEF CommitPayment, Saved

\* A committed payment or reversal keeps the invariant.
LEMMA SafeCommit ==
    ASSUME Safe, TypeOK', JobOK', NEW w \in Workers, CommitPayment(w)
    PROVE  Safe'
<1> DEFINE i == job[w].inv
           p == [id |-> nextId, inv |-> i, amt |-> job[w].amt,
                 key |-> job[w].key, rzp |-> job[w].rzp]
           paidRow == ApplyPayment(invoice[i], job[w].amt)
           row == [paidRow EXCEPT !.version = invoice[i].version + 1]
<1>1. /\ i \in Invoices /\ invoice[i] \in InvoiceRow /\ job[w].amt \in Int
      /\ invoice[i].status # "cancelled"
      /\ payments' = payments \cup {p}
      /\ nextId' = nextId + 1
      /\ invoice' = [invoice EXCEPT ![i] = row]
  BY CommitTables
<1>2. /\ row.version = invoice[i].version + 1
      /\ row.payStatus = PaymentStatusFor(row.paid, row.total)
      /\ row.status # "cancelled"
      /\ row.status = "paid" <=> row.paid >= row.total
  <2>1. /\ paidRow \in InvoiceRow
        /\ paidRow.payStatus = PaymentStatusFor(paidRow.paid, paidRow.total)
        /\ paidRow.status # "cancelled"
        /\ paidRow.status = "paid" <=> paidRow.paid >= paidRow.total
    BY <1>1, ApplyPaymentFields
  <2> HIDE DEF paidRow
  <2> QED
    BY <2>1 DEF InvoiceRow
<1>3. HoldsClaim(w, i, job[w].key) /\ ClaimFree(w) /\ ReversalJob(w)
  BY DEF CommitPayment, HoldsClaim, Claiming, Safe, JobSafe
<1>4. /\ RowsWithKey(i, job[w].key) = {}
      /\ \A v \in Workers \ {w} : ~HoldsClaim(v, i, job[w].key)
  BY <1>3 DEF ClaimFree, HoldsClaim
<1>5. p.inv = i /\ p.key = job[w].key /\ p.id = nextId /\ p.amt = job[w].amt
  OBVIOUS
<1> HIDE DEF row, paidRow, p, i
<1>6. JobSafe'
  <2> DEFINE j == IF job[w].ev = NoEvent THEN IdleJob
                  ELSE [IdleJob EXCEPT !.pc = "setevent", !.ev = job[w].ev,
                                       !.id = nextId]
  <2>1. job' = [job EXCEPT ![w] = j]
    BY DEF CommitPayment, Return
  <2>2. j.pc \notin {"claim", "read", "save"} /\ j.op = "none"
    BY DEF IdleJob
  <2> HIDE DEF j
  <2> QED
    BY <1>1, <1>2, <1>4, <1>5, <2>1, <2>2, CommitJobs
<1>7. KeysUnique'
  BY <1>1, <1>4, <1>5 DEF Safe, KeysUnique, RowsWithKey
<1>8. IdsBelow'
  BY <1>1, <1>5 DEF Safe, IdsBelow, TypeOK, PaymentRow
<1>9. ReversalsExact'
  <2>1. SUFFICES ASSUME NEW n \in Nat, p.key = RevKey(n)
                 PROVE  \E q \in payments : /\ q.id = n /\ q.inv = p.inv
                                            /\ p.amt = -q.amt
    BY <1>1 DEF Safe, ReversalsExact
  <2>2. job[w].op = "reverse" /\ job[w].pc = "save"
    BY <1>3, <1>5, <2>1 DEF ReversalJob, RevKey, CommitPayment
  <2>3. PICK q \in payments : /\ job[w].key = RevKey(q.id)
                              /\ job[w].inv = q.inv /\ job[w].amt = -q.amt
    BY <1>3, <2>2 DEF ReversalJob
  <2>4. n = q.id
    BY <1>5, <2>1, <2>3, RevKeyInjective
  <2> QED
    BY <1>5, <2>3, <2>4 DEF i
<1>10. StatusMatchesBalance'
  BY <1>1, <1>2 DEF Safe, TypeOK, StatusMatchesBalance
<1> QED
  BY <1>6, <1>7, <1>8, <1>9, <1>10 DEF Safe

\* Every step of a request in flight.
LEMMA SafeLocal ==
    ASSUME Safe, NEW w \in Workers, Step(w)
    PROVE  Safe'
<1> DEFINE j == job'[w]
<1>0. TypeOK' /\ JobOK'
  BY LocalStep DEF Safe
<1>1. /\ job[w] \in Job /\ WellFormed(job[w])
      /\ SnapFresh(w) /\ ClaimFree(w) /\ ReversalJob(w)
      /\ \A i \in Invoices : invoice[i] \in InvoiceRow
  BY DEF Safe, TypeOK, JobOK, JobSafe
<1>2. j \in Job
  BY <1>0 DEF TypeOK
<1>3. CASE LookupEvent(w)
  <2>1. UNCHANGED tables
    BY <1>3 DEF LookupEvent, db, tables
  <2>2. CASE Fail(w)
    BY <1>0, <2>1, <2>2, SafeFail
  <2>3. CASE Goto(w, Dispatch(job[w].ev))
    <3>1. /\ job' = [job EXCEPT ![w] = j]
          /\ j.pc = Dispatch(job[w].ev)
          /\ j.op = job[w].op /\ j.key = job[w].key
      BY <1>1, <2>3 DEF Goto, Safe, TypeOK, Job
    <3>2. j.pc \notin {"claim", "read", "save"}
      BY <3>1 DEF Dispatch
    <3> HIDE DEF j
    <3> QED
      BY <1>0, <1>1, <2>1, <3>1, <3>2, QuietStep DEF ReversalJob
  <2> QED
    BY <1>3, <2>2, <2>3 DEF LookupEvent, Fail
<1>4. CASE FindExisting(w)
  <2> DEFINE e == job[w].ev
             ref == IF e.type = "order.paid" THEN GwOrder[e.gw] ELSE e.gw
             j1(p) == [IdleJob EXCEPT !.pc = "begin", !.op = "reverse",
                                      !.ev = e, !.id = p.id]
             j2 == [IdleJob EXCEPT !.pc = "begin", !.op = "record", !.ev = e,
                                   !.inv = job[w].inv, !.amt = GwAmt[e.gw],
                                   !.key = RefKey(ref)]
  <2>1. UNCHANGED tables
    BY <1>4 DEF FindExisting, db, tables
  <2>2. \/ Fail(w)
        \/ \E p \in payments : job' = [job EXCEPT ![w] = j1(p)]
        \/ job' = [job EXCEPT ![w] = j2]
        \/ \E p \in payments : Return(w, p.id)
    BY <1>4 DEF FindExisting, RowsWithKey, RowsWithRazorpayId
  <2>3. ASSUME NEW p \in payments
        PROVE  j1(p).pc = "begin" /\ j1(p).op = "reverse"
    BY DEF IdleJob
  <2>4. j2.pc = "begin" /\ j2.key = RefKey(ref)
    BY DEF IdleJob
  <2>5. RefKey(ref)[1] # "reversal"
    BY DEF RefKey
  <2> HIDE DEF j1, j2, ref
  <2> QED
    BY <1>0, <2>1, <2>2, <2>3, <2>4, <2>5, SafeFail, SafeReturn, QuietStep
<1>5. CASE SetWebhookEventID(w)
  <2>1. job' = [job EXCEPT ![w] = j] /\ UNCHANGED tables
    BY <1>5 DEF SetWebhookEventID, Goto, Safe, TypeOK, tables
  <2>2. j.pc = "mark" /\ j.op = job[w].op /\ j.key = job[w].key
    BY <1>1, <1>5 DEF SetWebhookEventID, Goto, Safe, TypeOK, Job
  <2> QED
    BY <1>0, <1>1, <2>1, <2>2, QuietStep DEF ReversalJob
<1>6. CASE MarkProcessed(w)
  BY <1>0, <1>6, SafeFail DEF MarkProcessed, Fail, db, tables
<1>7. CASE FindRazorpayPayment(w)
  <2>1. UNCHANGED tables
    BY <1>7 DEF FindRazorpayPayment, db, tables
  <2>2. CASE Fail(w)
    BY <1>0, <2>1, <2>2, SafeFail
  <2>3. CASE Goto(w, "balance")
    <3>1. /\ job' = [job EXCEPT ![w] = j]
          /\ j.pc = "balance" /\ j.op = job[w].op /\ j.key = job[w].key
      BY <1>1, <2>3 DEF Goto, Safe, TypeOK, Job
    <3> QED
      BY <1>0, <1>1, <2>1, <3>1, QuietStep DEF ReversalJob
  <2> QED
    BY <1>7, <2>2, <2>3 DEF FindRazorpayPayment
<1>8. CASE ReadBalance(w)
  <2>1. UNCHANGED tables
    BY <1>8 DEF ReadBalance, db, tables
  <2>2. CASE Fail(w)
    BY <1>0, <2>1, <2>2, SafeFail
  <2>3. CASE ~Fail(w)
    <3>1. /\ job' = [job EXCEPT ![w] = j]
          /\ j.pc = "begin" /\ j.op = job[w].op /\ j.key = job[w].key
      BY <1>1, <1>8, <2>3 DEF ReadBalance, Safe, TypeOK, Job
    <3> QED
      BY <1>0, <1>1, <2>1, <3>1, QuietStep DEF ReversalJob
  <2> QED
    BY <2>2, <2>3
<1>9. CASE BeginRecord(w)
  <2>1. /\ UNCHANGED tables /\ job' = [job EXCEPT ![w] = j]
        /\ j.pc = "claim" /\ j.op = "record" /\ j.key = job[w].key
        /\ j.inv = job[w].inv /\ j.snap = invoice[j.inv]
    BY <1>1, <1>9 DEF BeginRecord, Safe, TypeOK, Job, db, tables
  <2>2. j.inv \in Invoices
    BY <1>1, <1>9, <2>1 DEF BeginRecord, WellFormed
  <2>3. j.snap.version <= invoice[j.inv].version
    BY <1>1, <2>1, <2>2 DEF InvoiceRow
  <2>4. j.key[1] # "reversal"
    BY <1>1, <1>9, <2>1 DEF ReversalJob, BeginRecord
  <2> HIDE DEF j
  <2> QED
    BY <1>0, <1>2, <2>1, <2>3, <2>4, JobStep DEF Claiming
<1>10. CASE BeginReverse(w)
  <2>1. UNCHANGED tables
    BY <1>10 DEF BeginReverse, db, tables
  <2>2. CASE Fail(w)
    BY <1>0, <2>1, <2>2, SafeFail
  <2>3. CASE \E id : Return(w, id)
    BY <1>0, <2>1, <2>3, SafeReturn
  <2>4. CASE \E p \in payments :
               job' = [job EXCEPT ![w].pc = "claim", ![w].inv = p.inv,
                                  ![w].amt = ReversalAmount(p),
                                  ![w].key = RevKey(p.id)]
    <3>1. PICK p \in payments :
               job' = [job EXCEPT ![w].pc = "claim", ![w].inv = p.inv,
                                  ![w].amt = ReversalAmount(p),
                                  ![w].key = RevKey(p.id)]
      BY <2>4
    <3>2. /\ job' = [job EXCEPT ![w] = j]
          /\ j.pc = "claim" /\ j.op = job[w].op /\ j.inv = p.inv
          /\ j.amt = ReversalAmount(p) /\ j.key = RevKey(p.id)
      BY <1>1, <3>1 DEF Safe, TypeOK, Job
    <3>3. j.op = "reverse" /\ j.amt = -p.amt
      BY <1>10, <3>2 DEF BeginReverse, ReversalAmount
    <3> HIDE DEF j
    <3> QED
      BY <1>0, <1>2, <2>1, <3>2, <3>3, JobStep DEF Claiming
  <2>5. \/ Fail(w)
        \/ \E p \in payments :
             \/ \E r \in RowsWithKey(p.inv, RevKey(p.id)) : Return(w, r.id)
             \/ job' = [job EXCEPT ![w].pc = "claim", ![w].inv = p.inv,
                                   ![w].amt = ReversalAmount(p),
                                   ![w].key = RevKey(p.id)]
    BY <1>10, Zenon DEF BeginReverse
  <2> QED
    BY <2>2, <2>3, <2>4, <2>5
<1>11. CASE BeginVoid(w) \/ BeginAttach(w)
  <2>1. UNCHANGED tables
    BY <1>11 DEF BeginVoid, BeginAttach, db, tables
  <2>2. CASE Fail(w)
    BY <1>0, <2>1, <2>2, SafeFail
  <2>3. CASE ~Fail(w)
    <3>1. /\ job' = [job EXCEPT ![w] = j]
          /\ j.pc = "save" /\ j.op = job[w].op /\ j.inv = job[w].inv
          /\ j.snap = invoice[j.inv]
      BY <1>1, <1>11, <2>3 DEF BeginVoid, BeginAttach, Safe, TypeOK, Job
    <3>2. job[w].op \in {"void", "attach"} /\ job[w].inv \in Invoices
      BY <1>1, <1>11 DEF BeginVoid, BeginAttach, WellFormed
    <3>3. j.snap.version <= invoice[j.inv].version
      BY <1>1, <3>1, <3>2 DEF InvoiceRow
    <3> HIDE DEF j
    <3> QED
      BY <1>0, <1>2, <2>1, <3>1, <3>2, <3>3, JobStep
  <2> QED
    BY <2>2, <2>3
<1>12. CASE SaveIfNew(w)
  <2>1. UNCHANGED tables
    BY <1>12 DEF SaveIfNew, db, tables
  <2>2. CASE \E id : Return(w, id)
    BY <1>0, <2>1, <2>2, SafeReturn
  <2>3. CASE ~\E id : Return(w, id)
    <3>1. /\ job' = [job EXCEPT ![w] = j]
          /\ j.pc = (IF job[w].op = "record" THEN "save" ELSE "read")
          /\ j.op = job[w].op /\ j.inv = job[w].inv /\ j.key = job[w].key
          /\ j.snap = job[w].snap /\ j.amt = job[w].amt
      BY <1>1, <1>12, <2>3 DEF SaveIfNew, Goto, Safe, TypeOK, Job
    <3>2. /\ RowsWithKey(j.inv, j.key) = {}
          /\ \A v \in Workers \ {w} : ~HoldsClaim(v, j.inv, j.key)
      BY <1>12, <2>3, <3>1 DEF SaveIfNew
    <3>3. job[w].pc = "claim"
      BY <1>12 DEF SaveIfNew
    <3> HIDE DEF j
    <3> QED
      BY <1>0, <1>1, <1>2, <2>1, <3>1, <3>2, <3>3, JobStep
      DEF SnapFresh, ReversalJob
  <2> QED
    BY <2>2, <2>3
<1>13. CASE ReadInvoice(w)
  <2>1. /\ UNCHANGED tables /\ job' = [job EXCEPT ![w] = j]
        /\ j.pc = "save" /\ j.op = job[w].op /\ j.inv = job[w].inv
        /\ j.key = job[w].key /\ j.amt = job[w].amt
        /\ j.snap = invoice[j.inv]
    BY <1>1, <1>13 DEF ReadInvoice, Safe, TypeOK, Job, db, tables
  <2>2. job[w].pc = "read" /\ job[w].inv \in Invoices
    BY <1>1, <1>13 DEF ReadInvoice, WellFormed
  <2>3. j.snap.version <= invoice[j.inv].version
    BY <1>1, <2>1, <2>2 DEF InvoiceRow
  <2> HIDE DEF j
  <2> QED
    BY <1>0, <1>1, <1>2, <2>1, <2>2, <2>3, JobStep
    DEF Claiming, ClaimFree, ReversalJob
<1>14. CASE RollBack(w)
  BY <1>0, <1>14, SafeFail DEF RollBack, db, tables
<1> QED
  BY <1>0, <1>3, <1>4, <1>5, <1>6, <1>7, <1>8, <1>9, <1>10, <1>11, <1>12,
     <1>13, <1>14, SafeCommit, SafeVoid, SafeAttach DEF Step

\* Safe is inductive.
LEMMA SafeStep ==
    ASSUME Safe, [Next]_vars
    PROVE  Safe'
<1>1. TypeOK' /\ JobOK'
  BY TypeStep DEF Safe
<1>2. ASSUME NEW w \in Workers, DatabaseError(w) PROVE Safe'
  BY <1>1, <1>2, SafeFail DEF DatabaseError, db, tables
<1>3. ASSUME UNCHANGED <<tables, job>> PROVE Safe'
  <2>1. UNCHANGED <<invoice, payments, nextId, job>>
    BY <1>3 DEF tables
  <2>2. JobSafe'
    BY <2>1 DEF Safe, JobSafe, SnapFresh, ClaimFree, ReversalJob, HoldsClaim,
                RowsWithKey
  <2> QED
    BY <1>1, <2>1, <2>2 DEF Safe, KeysUnique, IdsBelow, ReversalsExact,
                            StatusMatchesBalance
<1>4. ASSUME NEW e \in Events, ExpireProcessed(e) PROVE Safe'
  BY <1>3, <1>4 DEF ExpireProcessed, db, tables
<1>5. CASE Restart
  <2>1. UNCHANGED <<invoice, payments, nextId>>
    BY <1>5 DEF Restart, db
  <2>2. \A w \in Workers : job'[w].pc = "idle" /\ job'[w].op = "none"
    BY <1>5 DEF Restart, IdleJob
  <2>3. JobSafe'
    BY <2>2 DEF JobSafe, SnapFresh, ClaimFree, ReversalJob, Claiming
  <2> QED
    BY <1>1, <2>1, <2>3 DEF Safe, KeysUnique, IdsBelow, ReversalsExact,
                            StatusMatchesBalance
<1>6. CASE UNCHANGED vars
  BY <1>3, <1>6 DEF vars, tables
<1> QED
  BY <1>2, <1>4, <1>5, <1>6, SafeRequest, SafeLocal DEF Next

\* Safe holds in every reachable state, for any number of requests in flight.
LEMMA SafeAlways == Spec => []Safe
<1>1. Safe /\ [Next]_vars => Safe'
  BY SafeStep
<1> QED
  BY SafeInit, <1>1, PTL DEF Spec

\* SaveIfNew never admits a duplicate: no tenant ever has two payment rows
\* with one idempotency key, whatever requests and deliveries interleave.
THEOREM KeysAreUnique == Spec => []KeysUnique
<1>1. Safe => KeysUnique
  BY DEF Safe
<1> QED
  BY SafeAlways, <1>1, PTL

\* ApplyPayment, Void and attachLineItems keep both status columns in
\* agreement with the balance, although each writes a snapshot back.
THEOREM StatusIsRight == Spec => []StatusMatchesBalance
<1>1. Safe => StatusMatchesBalance
  BY DEF Safe
<1> QED
  BY SafeAlways, <1>1, PTL

\* ReversePayment books exactly the opposite of an existing row on the same
\* invoice.
THEOREM ReversalsAreExact == Spec => []ReversalExact
<1>1. Safe => ReversalExact
  BY DEF Safe, ReversalsExact, ReversalExact, TypeOK
<1> QED
  BY SafeAlways, <1>1, PTL

\* What one step may do to an invoice.
LEMMA InvoiceChange ==
    ASSUME Safe, [Next]_vars, NEW i \in Invoices
    PROVE  /\ invoice'[i].paid # invoice[i].paid =>
                \E p \in payments' \ payments :
                  /\ p.inv = i
                  /\ invoice'[i].paid = (IF invoice[i].paid + p.amt < 0 THEN 0
                                         ELSE invoice[i].paid + p.amt)
           /\ invoice[i].status = "cancelled" =>
                /\ invoice'[i].status = "cancelled"
                /\ invoice'[i].paid = invoice[i].paid
<1>0. invoice \in [Invoices -> InvoiceRow]
  BY DEF Safe, TypeOK
<1>1. ASSUME NEW w \in Workers, CommitPayment(w)
      PROVE  \/ invoice'[i] = invoice[i]
             \/ /\ invoice[i].status # "cancelled"
                /\ \E p \in payments' \ payments :
                     /\ p.inv = i
                     /\ invoice'[i].paid = (IF invoice[i].paid + p.amt < 0
                                            THEN 0 ELSE invoice[i].paid + p.amt)
  <2> DEFINE k == job[w].inv
             p == [id |-> nextId, inv |-> k, amt |-> job[w].amt,
                   key |-> job[w].key, rzp |-> job[w].rzp]
             row == ApplyPayment(invoice[k], job[w].amt)
  <2>1. /\ k \in Invoices
        /\ invoice[k] \in InvoiceRow /\ job[w].amt \in Int
        /\ invoice[k].status # "cancelled"
        /\ payments' = payments \cup {p} /\ p \notin payments
        /\ invoice' = [invoice EXCEPT ![k] =
                         [row EXCEPT !.version = invoice[k].version + 1]]
    BY <1>1, CommitTables
  <2>2. /\ row \in InvoiceRow
        /\ row.paid = (IF invoice[k].paid + job[w].amt < 0 THEN 0
                       ELSE invoice[k].paid + job[w].amt)
    BY <2>1, ApplyPaymentFields
  <2>3. p.inv = k /\ p.amt = job[w].amt /\ p \in payments' \ payments
    BY <2>1
  <2> HIDE DEF row, p, k
  <2>4. CASE i = k
    <3>1. invoice'[i].paid = row.paid
      BY <1>0, <2>1, <2>2, <2>4 DEF InvoiceRow
    <3> QED
      BY <2>1, <2>2, <2>3, <2>4, <3>1
  <2>5. CASE i # k
    BY <1>0, <2>1, <2>5
  <2> QED
    BY <2>4, <2>5
<1>2. ASSUME NEW w \in Workers, CommitVoid(w) \/ CommitAttach(w)
      PROVE  /\ invoice'[i].paid = invoice[i].paid
             /\ invoice[i].status = "cancelled" =>
                  invoice'[i].status = "cancelled"
  <2>1. job[w].inv \in Invoices /\ job[w].snap = invoice[job[w].inv]
    BY <1>2, SnapIsRow DEF CommitVoid, CommitAttach
  <2>2. invoice[job[w].inv] \in InvoiceRow
    BY <1>0, <2>1
  <2>3. CASE CommitVoid(w)
    BY <1>0, <2>1, <2>2, <2>3 DEF CommitVoid, Saved, InvoiceRow
  <2>4. CASE CommitAttach(w)
    BY <1>0, <2>1, <2>2, <2>4 DEF CommitAttach, Saved, InvoiceRow
  <2> QED
    BY <1>2, <2>3, <2>4
<1>3. \/ \E w \in Workers : \/ CommitPayment(w)
                            \/ CommitVoid(w) \/ CommitAttach(w)
      \/ UNCHANGED invoice
  BY DEF Next, Request, SubmitPayment, SubmitReversal, SubmitVerify,
         SubmitVoid, SubmitAttach, DeliverWebhook, Arrive, Step, LookupEvent,
         FindExisting, SetWebhookEventID, MarkProcessed, FindRazorpayPayment,
         ReadBalance, BeginRecord, BeginReverse, BeginVoid, BeginAttach,
         SaveIfNew, ReadInvoice, RollBack, DatabaseError, ExpireProcessed,
         Restart, db, vars
<1> QED
  BY <1>1, <1>2, <1>3

\* The version check loses no update: a balance moves only with a new payment
\* row of its invoice, by that row's amount.
THEOREM NothingIsLost == Spec => NoLostUpdate
<1>1. Safe /\ [Next]_vars =>
        [\A i \in Invoices :
           invoice'[i].paid # invoice[i].paid =>
             \E p \in payments' \ payments :
               /\ p.inv = i
               /\ invoice'[i].paid = (IF invoice[i].paid + p.amt < 0 THEN 0
                                      ELSE invoice[i].paid + p.amt)]_vars
  BY InvoiceChange
<1> QED
  BY SafeAlways, <1>1, PTL DEF Spec, NoLostUpdate

\* A void that committed is final: no payment or reversal that read the
\* invoice before it can still be written over it.
THEOREM VoidStays == Spec => VoidIsFinal
<1>1. Safe /\ [Next]_vars =>
        [\A i \in Invoices :
           invoice[i].status = "cancelled" =>
             /\ invoice'[i].status = "cancelled"
             /\ invoice'[i].paid = invoice[i].paid]_vars
  BY InvoiceChange
<1> QED
  BY SafeAlways, <1>1, PTL DEF Spec, VoidIsFinal

-----------------------------------------------------------------------------
(* An acknowledged event is in the ledger.                                 *)

\* The key under which an event books money.
EventRef(e) == RefKey(IF e.type = "order.paid" THEN GwOrder[e.gw] ELSE e.gw)

\* An event that books money on an invoice.
Books(e) ==
    /\ e.type \in {"payment.captured", "order.paid"}
    /\ GwInv[e.gw] # NoInvoice

\* What Recorded says, case by case.
LEMMA RecordedCases ==
    ASSUME NEW e \in Events
    PROVE  /\ Books(e) =>
                (Recorded(e) <=> \E p \in payments :
                                   /\ TenantOf[p.inv] = TenantOf[GwInv[e.gw]]
                                   /\ p.key = EventRef(e))
           /\ e.type = "refund.processed" =>
                (Recorded(e) <=> \E p, r \in payments :
                                   /\ p.key = RefKey(e.gw)
                                   /\ r.key = RevKey(p.id)
                                   /\ TenantOf[r.inv] = TenantOf[p.inv])
           /\ ~Books(e) /\ e.type # "refund.processed" => Recorded(e)
<1>1. e.type \in EventTypes
  BY LedgerAssumption
<1>2. CASE e.type = "payment.captured"
  BY <1>2 DEF Recorded, Books, EventRef
<1>3. CASE e.type = "order.paid"
  BY <1>3 DEF Recorded, Books, EventRef
<1>4. CASE e.type = "refund.processed"
  BY <1>4 DEF Recorded, Books
<1>5. CASE e.type = "payment.failed"
  BY <1>5 DEF Recorded, Books
<1> QED
  BY <1>1, <1>2, <1>3, <1>4, <1>5 DEF EventTypes

\* What a webhook delivery in flight has found out: it looks for its own
\* invoice, books under its own key, reverses the payment of its reference,
\* and reaches its bookkeeping only once the ledger has what it asked for.
EventJob(j) ==
    /\ j.rzp # NoRef => j.op = "record" /\ j.key = RefKey(j.rzp)
    /\ j.pc \in {"lookup", "find", "setevent", "mark"} => j.op = "none"
    /\ j.pc = "find" => /\ Books(j.ev) => j.inv = GwInv[j.ev.gw]
                        /\ Books(j.ev) \/ j.ev.type = "refund.processed"
    /\ j.pc \in {"setevent", "mark"} => Recorded(j.ev)
    /\ j.ev # NoEvent => j.op \in {"none", "record", "reverse"}
    /\ j.ev # NoEvent /\ j.op = "record" =>
         Books(j.ev) /\ j.inv = GwInv[j.ev.gw] /\ j.key = EventRef(j.ev)
    /\ j.ev # NoEvent /\ j.op = "reverse" =>
         /\ j.ev.type = "refund.processed"
         /\ \E p \in payments :
              /\ p.key = RefKey(j.ev.gw)
              /\ j.pc = "begin" => j.id = p.id
              /\ j.pc # "begin" => j.key = RevKey(p.id) /\ j.inv = p.inv

\* Only /verify stores a gateway payment id, next to the key made from it.
RazorpayRows == \A p \in payments : p.rzp # NoRef => p.key = RefKey(p.rzp)

IdsUnique == \A p, q \in payments : p.id = q.id => p = q

AckSafe ==
    /\ \A e \in acked \cup processed : Recorded(e)
    /\ \A x \in eventOf : Recorded(x[2])
    /\ RazorpayRows /\ IdsUnique
    /\ \A w \in Workers : EventJob(job[w])

LEMMA AckInit == Init => AckSafe
<1>1. EventJob(IdleJob)
  BY DEF EventJob, IdleJob
<1> QED
  BY <1>1 DEF Init, AckSafe, RazorpayRows, IdsUnique

LEMMA IdleEvent == EventJob(IdleJob) /\ IdleJob.pc = "idle"
  BY DEF EventJob, IdleJob

\* The ledger only grows, so nothing recorded is lost.
LEMMA RecordedStays ==
    ASSUME payments \subseteq payments', NEW e \in Events, Recorded(e)
    PROVE  Recorded(e)'
<1>1. CASE Books(e)
  <2>1. \E p \in payments' : /\ TenantOf[p.inv] = TenantOf[GwInv[e.gw]]
                             /\ p.key = EventRef(e)
    BY <1>1, RecordedCases
  <2> QED
    BY <1>1, <2>1 DEF Recorded, Books, EventRef
<1>2. CASE e.type = "refund.processed"
  <2>1. \E p, r \in payments' : /\ p.key = RefKey(e.gw) /\ r.key = RevKey(p.id)
                                /\ TenantOf[r.inv] = TenantOf[p.inv]
    BY <1>2, RecordedCases
  <2> QED
    BY <1>2, <2>1 DEF Recorded
<1>3. CASE ~Books(e) /\ e.type # "refund.processed"
  BY <1>3 DEF Recorded, Books
<1> QED
  BY <1>1, <1>2, <1>3

\* So does what a delivery knows.
LEMMA EventJobStays ==
    ASSUME payments \subseteq payments', NEW j \in Job, WellFormed(j), EventJob(j)
    PROVE  EventJob(j)'
<1>1. j.pc \in {"setevent", "mark"} => Recorded(j.ev)'
  BY RecordedStays DEF WellFormed, EventJob
<1> QED
  BY <1>1 DEF EventJob, Books, EventRef, RefKey, RevKey

\* A step that leaves the ledger alone and gives worker w the job j.
LEMMA AckQuiet ==
    ASSUME Safe, AckSafe, UNCHANGED payments, NEW w \in Workers,
           NEW j \in Job, WellFormed(j), EventJob(j),
           job' = [job EXCEPT ![w] = j],
           \A e \in acked' \cup processed' : e \in Events /\ Recorded(e),
           \A x \in eventOf' : x[2] \in Events /\ Recorded(x[2])
    PROVE  AckSafe'
<1>1. ASSUME NEW v \in Workers PROVE EventJob(job[v])'
  <2>1. PICK k \in Job : k = job'[v] /\ WellFormed(k) /\ EventJob(k)
    BY DEF Safe, TypeOK, JobOK, AckSafe
  <2>2. EventJob(k)'
    BY <2>1, EventJobStays
  <2> QED
    BY <2>1, <2>2
<1>2. \A e \in acked' \cup processed' : Recorded(e)'
  BY RecordedStays
<1>3. \A x \in eventOf' : Recorded(x[2])'
  BY RecordedStays
<1> QED
  BY <1>1, <1>2, <1>3 DEF AckSafe, RazorpayRows, IdsUnique

\* What is known before any step.
LEMMA AckFacts ==
    ASSUME Safe, AckSafe
    PROVE  /\ \A e \in acked \cup processed : e \in Events /\ Recorded(e)
           /\ \A x \in eventOf : x[2] \in Events /\ Recorded(x[2])
           /\ \A w \in Workers : /\ job[w] \in Job /\ WellFormed(job[w])
                                 /\ EventJob(job[w])
  BY DEF Safe, TypeOK, JobOK, AckSafe

\* A step of worker w that acknowledges nothing.
LEMMA AckMove ==
    ASSUME Safe, AckSafe, Safe', UNCHANGED <<payments, acked, processed, eventOf>>,
           NEW w \in Workers, NEW j, job' = [job EXCEPT ![w] = j], EventJob(j)
    PROVE  AckSafe'
<1>1. j = job'[w]
  BY DEF Safe, TypeOK
<1>2. j \in Job /\ WellFormed(j)
  BY <1>1 DEF Safe, TypeOK, JobOK, WellFormed
<1> QED
  BY <1>2, AckFacts, AckQuiet

LEMMA AckFail ==
    ASSUME Safe, AckSafe, Safe', UNCHANGED <<payments, acked, processed, eventOf>>,
           NEW w \in Workers, Fail(w)
    PROVE  AckSafe'
  BY IdleEvent, AckMove DEF Fail

\* A use case returns: what a delivery asked for is in the ledger.
LEMMA ReturnedJob ==
    ASSUME NEW e \in Events, NEW id, Recorded(e)
    PROVE  EventJob([IdleJob EXCEPT !.pc = "setevent", !.ev = e, !.id = id])
  BY DEF EventJob, IdleJob

LEMMA AckReturn ==
    ASSUME Safe, AckSafe, Safe', UNCHANGED <<payments, acked, processed, eventOf>>,
           NEW w \in Workers, NEW id, Return(w, id),
           job[w].ev # NoEvent => Recorded(job[w].ev)
    PROVE  AckSafe'
<1>1. CASE job[w].ev = NoEvent
  BY <1>1, AckFail DEF Return, Fail
<1>2. CASE job[w].ev # NoEvent
  <2>1. PICK e \in Events : e = job[w].ev
    BY <1>2, AckFacts DEF Job
  <2>2. job' = [job EXCEPT ![w] = [IdleJob EXCEPT !.pc = "setevent", !.ev = e, !.id = id]]
    BY <1>2, <2>1 DEF Return
  <2>3. EventJob([IdleJob EXCEPT !.pc = "setevent", !.ev = e, !.id = id])
    BY <1>2, <2>1, ReturnedJob
  <2> QED
    BY <2>2, <2>3, AckMove
<1> QED
  BY <1>1, <1>2

LEMMA AckRequest ==
    ASSUME Safe, AckSafe, Safe', NEW w \in Workers, Request(w)
    PROVE  AckSafe'
<1>0. UNCHANGED <<payments, acked, processed, eventOf>>
  BY DEF Request, SubmitPayment, SubmitReversal, SubmitVerify, SubmitVoid,
         SubmitAttach, DeliverWebhook, Arrive, db
<1>1. ASSUME NEW r \in Requests, SubmitPayment(w, r) PROVE AckSafe'
  <2> DEFINE j == [IdleJob EXCEPT !.pc = "begin", !.op = "record",
                     !.inv = r.inv, !.amt = r.amt, !.key = idempotencyKey(r)]
  <2>1. EventJob(j)
    BY DEF EventJob, IdleJob
  <2> QED
    BY <1>0, <1>1, <2>1, AckMove DEF SubmitPayment, Arrive
<1>2. ASSUME NEW p \in payments, SubmitReversal(w, p) PROVE AckSafe'
  <2> DEFINE j == [IdleJob EXCEPT !.pc = "begin", !.op = "reverse", !.id = p.id]
  <2>1. EventJob(j)
    BY DEF EventJob, IdleJob
  <2> QED
    BY <1>0, <1>2, <2>1, AckMove DEF SubmitReversal, Arrive
<1>3. ASSUME NEW g \in Verifiable, SubmitVerify(w, g) PROVE AckSafe'
  <2> DEFINE j == [IdleJob EXCEPT !.pc = "findrazorpay", !.op = "record",
                     !.inv = GwInv[g], !.key = RefKey(g), !.rzp = g]
  <2>1. EventJob(j)
    BY DEF EventJob, IdleJob
  <2> QED
    BY <1>0, <1>3, <2>1, AckMove DEF SubmitVerify, Arrive
<1>4. ASSUME NEW i, SubmitVoid(w, i) \/ SubmitAttach(w, i) PROVE AckSafe'
  <2> DEFINE j(o) == [IdleJob EXCEPT !.pc = "begin", !.op = o, !.inv = i]
  <2>1. EventJob(j("void")) /\ EventJob(j("attach"))
    BY DEF EventJob, IdleJob
  <2>2. \/ job' = [job EXCEPT ![w] = j("void")]
        \/ job' = [job EXCEPT ![w] = j("attach")]
    BY <1>4 DEF SubmitVoid, SubmitAttach, Arrive
  <2> HIDE DEF j
  <2> QED
    BY <1>0, <2>1, <2>2, AckMove
<1>5. ASSUME NEW e \in Events, DeliverWebhook(w, e) PROVE AckSafe'
  <2> DEFINE j == [IdleJob EXCEPT !.pc = "lookup", !.ev = e, !.inv = GwInv[e.gw]]
  <2>1. EventJob(j)
    BY DEF EventJob, IdleJob
  <2> QED
    BY <1>0, <1>5, <2>1, AckMove DEF DeliverWebhook, Arrive
<1> QED
  BY <1>1, <1>2, <1>3, <1>4, <1>5 DEF Request

\* The cache or the row's event id says the event was booked; or it is not an
\* event that books anything; or the delivery goes on to look for its row.
LEMMA AckLookup ==
    ASSUME Safe, AckSafe, Safe', NEW w \in Workers, LookupEvent(w)
    PROVE  AckSafe'
<1>0. UNCHANGED <<payments, eventOf>> /\ job[w].pc = "lookup"
  BY DEF LookupEvent, db
<1>1. PICK k \in Job : k = job[w] /\ WellFormed(k) /\ EventJob(k)
  BY AckFacts
<1>2. PICK e \in Events : e = k.ev
  BY <1>0, <1>1 DEF WellFormed
<1>3. CASE e \in processed \/ RowsWithEvent(e) # {}
  <2>1. Recorded(e)
    <3>1. CASE RowsWithEvent(e) # {}
      <4>1. PICK p \in payments : <<p.id, e>> \in eventOf
        BY <3>1 DEF RowsWithEvent
      <4>2. Recorded(<<p.id, e>>[2])
        BY <4>1, AckFacts
      <4> QED
        BY <4>2
    <3> QED
      BY <1>3, <3>1, AckFacts
  <2>2. /\ processed' = processed \cup {e} /\ acked' = acked \cup {e}
        /\ job' = [job EXCEPT ![w] = IdleJob]
    BY <1>1, <1>2, <1>3 DEF LookupEvent
  <2> QED
    BY <1>0, <2>1, <2>2, AckFacts, IdleEvent, IdleJobType, IdleWellFormed, AckQuiet
<1>4. CASE ~(e \in processed \/ RowsWithEvent(e) # {})
  <2> DEFINE j == [k EXCEPT !.pc = Dispatch(e)]
  <2>1. job' = [job EXCEPT ![w] = j] /\ UNCHANGED <<processed, acked>>
    BY <1>1, <1>2, <1>4 DEF LookupEvent, Goto
  <2>2. /\ j.pc = Dispatch(e) /\ j.ev = e /\ j.inv = k.inv /\ j.op = k.op
        /\ j.rzp = k.rzp /\ j.key = k.key
    BY <1>1, <1>2 DEF Job
  <2> HIDE DEF j
  <2>3. k.op = "none" /\ k.inv = GwInv[e.gw]
    BY <1>0, <1>1, <1>2 DEF EventJob, WellFormed
  <2>4. e.type \in EventTypes
    BY LedgerAssumption
  <2>5. /\ Dispatch(e) \in {"mark", "find"}
        /\ Dispatch(e) = "mark" => ~Books(e) /\ e.type # "refund.processed"
        /\ Dispatch(e) = "find" => Books(e) \/ e.type = "refund.processed"
    BY <2>4 DEF Dispatch, Books, EventTypes
  <2>6. Dispatch(e) = "mark" => Recorded(e)
    BY <2>5, RecordedCases
  <2>7. EventJob(j)
    BY <1>1, <2>2, <2>3, <2>5, <2>6 DEF EventJob
  <2> QED
    BY <1>0, <2>1, <2>7, AckMove
<1> QED
  BY <1>3, <1>4

\* The row found for an event is what the event asks for, also when it is found
\* by the gateway payment id.
LEMMA AckFind ==
    ASSUME Safe, AckSafe, Safe', NEW w \in Workers, FindExisting(w)
    PROVE  AckSafe'
<1>0. UNCHANGED <<payments, acked, processed, eventOf>> /\ job[w].pc = "find"
  BY DEF FindExisting, db
<1>1. PICK k \in Job : k = job[w] /\ WellFormed(k) /\ EventJob(k)
  BY AckFacts
<1>2. PICK e \in Events : e = k.ev
  BY <1>0, <1>1 DEF WellFormed
<1>3. e.gw \in GwPays /\ e.gw # NoRef /\ e # NoEvent
  BY LedgerAssumption
<1>4. CASE e.type = "refund.processed"
  <2> DEFINE j(p) == [IdleJob EXCEPT !.pc = "begin", !.op = "reverse",
                                     !.ev = e, !.id = p.id]
  <2>1. \/ Fail(w)
        \/ \E p \in payments : p.key = RefKey(e.gw) /\ job' = [job EXCEPT ![w] = j(p)]
    BY <1>1, <1>2, <1>4 DEF FindExisting
  <2>2. ASSUME NEW p \in payments, p.key = RefKey(e.gw) PROVE EventJob(j(p))
    BY <1>4, <2>2 DEF EventJob, IdleJob
  <2> HIDE DEF j
  <2> QED
    BY <1>0, <2>1, <2>2, AckFail, AckMove
<1>5. CASE e.type # "refund.processed"
  <2> DEFINE ref == IF e.type = "order.paid" THEN GwOrder[e.gw] ELSE e.gw
             found == RowsWithKey(k.inv, RefKey(ref)) \cup
                        (IF e.type = "payment.captured"
                         THEN RowsWithRazorpayId(k.inv, e.gw) ELSE {})
             j == [IdleJob EXCEPT !.pc = "begin", !.op = "record", !.ev = e,
                                  !.inv = k.inv, !.amt = GwAmt[e.gw],
                                  !.key = RefKey(ref)]
  <2>1. \/ job' = [job EXCEPT ![w] = j]
        \/ \E p \in found : Return(w, p.id)
    BY <1>1, <1>2, <1>5 DEF FindExisting
  <2>2. Books(e) /\ k.inv = GwInv[e.gw] /\ RefKey(ref) = EventRef(e)
    BY <1>0, <1>1, <1>2, <1>5 DEF EventJob, EventRef
  <2>3. ASSUME NEW p \in found PROVE Recorded(e)
    <3>1. CASE p \in RowsWithKey(k.inv, RefKey(ref))
      BY <2>2, <3>1, RecordedCases DEF RowsWithKey
    <3>2. CASE e.type = "payment.captured" /\ p \in RowsWithRazorpayId(k.inv, e.gw)
      <4>1. p \in payments /\ p.key = RefKey(e.gw) /\ TenantOf[p.inv] = TenantOf[k.inv]
        BY <1>3, <3>2 DEF RowsWithRazorpayId, AckSafe, RazorpayRows
      <4>2. EventRef(e) = RefKey(e.gw)
        BY <3>2 DEF EventRef
      <4> QED
        BY <2>2, <4>1, <4>2, RecordedCases
    <3> QED
      BY <3>1, <3>2
  <2>4. EventJob(j)
    BY <2>2 DEF EventJob, IdleJob
  <2> HIDE DEF j, found, ref
  <2>5. CASE job' = [job EXCEPT ![w] = j]
    BY <1>0, <2>4, <2>5, AckMove
  <2>6. ASSUME NEW p \in found, Return(w, p.id) PROVE AckSafe'
    BY <1>0, <1>1, <1>2, <2>3, <2>6, AckReturn
  <2> QED
    BY <2>1, <2>5, <2>6
<1> QED
  BY <1>4, <1>5

\* The event id is written, the event is marked and answered.
LEMMA AckMark ==
    ASSUME Safe, AckSafe, Safe', NEW w \in Workers,
           SetWebhookEventID(w) \/ MarkProcessed(w)
    PROVE  AckSafe'
<1>0. UNCHANGED payments /\ job[w].pc \in {"setevent", "mark"}
  BY DEF SetWebhookEventID, MarkProcessed, db
<1>1. PICK k \in Job : k = job[w] /\ WellFormed(k) /\ EventJob(k)
  BY AckFacts
<1>2. PICK e \in Events : e = k.ev
  BY <1>0, <1>1 DEF WellFormed
<1>3. Recorded(e)
  BY <1>0, <1>1, <1>2 DEF EventJob
<1>4. CASE SetWebhookEventID(w)
  <2> DEFINE j == [k EXCEPT !.pc = "mark"]
  <2>1. job' = [job EXCEPT ![w] = j] /\ UNCHANGED <<processed, acked>>
    BY <1>1, <1>4 DEF SetWebhookEventID, Goto
  <2>2. /\ j \in Job /\ j.pc = "mark" /\ j.ev = e /\ j.inv = k.inv /\ j.op = k.op
        /\ j.rzp = k.rzp /\ j.key = k.key
    BY <1>1, <1>2 DEF Job
  <2> HIDE DEF j
  <2>3. EventJob(j) /\ WellFormed(j)
    BY <1>0, <1>1, <1>2, <1>3, <2>2 DEF EventJob, WellFormed
  <2>4. eventOf' \subseteq eventOf \cup {<<job[w].id, e>>}
    BY <1>1, <1>2, <1>4 DEF SetWebhookEventID
  <2>5. \A x \in eventOf' : x[2] \in Events /\ Recorded(x[2])
    BY <1>3, <2>4, AckFacts
  <2> QED
    BY <1>0, <2>1, <2>2, <2>3, <2>5, AckFacts, AckQuiet
<1>5. CASE MarkProcessed(w)
  <2>1. /\ processed' = processed \cup {e} /\ acked' = acked \cup {e}
        /\ UNCHANGED eventOf /\ job' = [job EXCEPT ![w] = IdleJob]
    BY <1>1, <1>2, <1>5 DEF MarkProcessed, db
  <2> QED
    BY <1>0, <1>3, <2>1, AckFacts, IdleEvent, IdleJobType, IdleWellFormed, AckQuiet
<1> QED
  BY <1>4, <1>5

\* A step of a use case that keeps what the job is for.
LEMMA AckCarry ==
    ASSUME Safe, AckSafe, Safe', UNCHANGED <<payments, acked, processed, eventOf>>,
           NEW w \in Workers, NEW j, job' = [job EXCEPT ![w] = j],
           j.pc \in {"balance", "begin", "claim", "read", "save"},
           job[w].pc \in {"findrazorpay", "balance", "begin", "claim", "read", "save"},
           j.ev = job[w].ev, j.op = job[w].op, j.rzp = job[w].rzp,
           j.key = job[w].key, j.inv = job[w].inv, j.id = job[w].id,
           j.op = "reverse" => (j.pc = "begin" <=> job[w].pc = "begin")
    PROVE  AckSafe'
<1>1. EventJob(job[w])
  BY AckFacts
<1>2. EventJob(j)
  BY <1>1 DEF EventJob
<1> QED
  BY <1>2, AckMove

LEMMA AckRead ==
    ASSUME Safe, AckSafe, Safe', NEW w \in Workers,
           \/ FindRazorpayPayment(w) \/ ReadBalance(w) \/ BeginRecord(w)
           \/ BeginVoid(w) \/ BeginAttach(w) \/ ReadInvoice(w)
    PROVE  AckSafe'
<1> DEFINE j == job'[w]
<1>0. UNCHANGED <<payments, acked, processed, eventOf>>
  BY DEF FindRazorpayPayment, ReadBalance, BeginRecord, BeginVoid, BeginAttach,
         ReadInvoice, db
<1>1. job[w] \in Job /\ WellFormed(job[w]) /\ job \in [Workers -> Job]
  BY AckFacts DEF Safe, TypeOK
<1>2. CASE Fail(w)
  BY <1>0, <1>2, AckFail
<1>3. CASE ~Fail(w)
  <2>1. /\ job' = [job EXCEPT ![w] = j]
        /\ j.pc \in {"balance", "begin", "claim", "read", "save"}
        /\ job[w].pc \in {"findrazorpay", "balance", "begin", "claim", "read", "save"}
        /\ j.ev = job[w].ev /\ j.op = job[w].op /\ j.rzp = job[w].rzp
        /\ j.key = job[w].key /\ j.inv = job[w].inv /\ j.id = job[w].id
        /\ j.op = "reverse" => (j.pc = "begin" <=> job[w].pc = "begin")
    <3>1. CASE FindRazorpayPayment(w)
      BY <1>1, <1>3, <3>1 DEF FindRazorpayPayment, Goto, WellFormed, Job
    <3>2. CASE ReadBalance(w)
      BY <1>1, <1>3, <3>2 DEF ReadBalance, WellFormed, Job
    <3>3. CASE BeginRecord(w)
      BY <1>1, <3>3 DEF BeginRecord, Job
    <3>4. CASE BeginVoid(w)
      BY <1>1, <1>3, <3>4 DEF BeginVoid, Job
    <3>5. CASE BeginAttach(w)
      BY <1>1, <1>3, <3>5 DEF BeginAttach, Job
    <3>6. CASE ReadInvoice(w)
      BY <1>1, <3>6 DEF ReadInvoice, Job
    <3> QED
      BY <3>1, <3>2, <3>3, <3>4, <3>5, <3>6
  <2> HIDE DEF j
  <2> QED
    BY <1>0, <2>1, AckCarry
<1> QED
  BY <1>2, <1>3

\* A refund's reversal is the one of the payment it refers to: ids are unique.
LEMMA AckReverse ==
    ASSUME Safe, AckSafe, Safe', NEW w \in Workers, BeginReverse(w)
    PROVE  AckSafe'
<1>0. /\ UNCHANGED <<payments, acked, processed, eventOf>>
      /\ job[w].pc = "begin" /\ job[w].op = "reverse"
  BY DEF BeginReverse, db
<1>1. PICK k \in Job : k = job[w] /\ WellFormed(k) /\ EventJob(k)
  BY AckFacts
<1>2. CASE Fail(w)
  BY <1>0, <1>2, AckFail
<1>3. CASE ~Fail(w)
  <2>1. PICK p \in payments :
          /\ p.id = k.id
          /\ \/ \E r \in RowsWithKey(p.inv, RevKey(p.id)) : Return(w, r.id)
             \/ job' = [job EXCEPT ![w].pc = "claim", ![w].inv = p.inv,
                                   ![w].amt = ReversalAmount(p),
                                   ![w].key = RevKey(p.id)]
    BY <1>1, <1>3, Zenon DEF BeginReverse
  <2>2. k.ev # NoEvent => /\ k.ev.type = "refund.processed" /\ k.ev \in Events
                          /\ p.key = RefKey(k.ev.gw)
    BY <1>0, <1>1, <2>1 DEF EventJob, AckSafe, IdsUnique, Job
  <2>3. ASSUME NEW r \in RowsWithKey(p.inv, RevKey(p.id)), Return(w, r.id)
        PROVE  AckSafe'
    <3>1. r \in payments /\ r.key = RevKey(p.id) /\ TenantOf[r.inv] = TenantOf[p.inv]
      BY DEF RowsWithKey
    <3>2. k.ev # NoEvent => Recorded(k.ev)
      BY <2>2, <3>1, RecordedCases
    <3> QED
      BY <1>0, <1>1, <2>3, <3>2, AckReturn
  <2>4. CASE job' = [job EXCEPT ![w].pc = "claim", ![w].inv = p.inv,
                                ![w].amt = ReversalAmount(p),
                                ![w].key = RevKey(p.id)]
    <3> DEFINE j == [k EXCEPT !.pc = "claim", !.inv = p.inv,
                              !.amt = ReversalAmount(p), !.key = RevKey(p.id)]
    <3>1. job' = [job EXCEPT ![w] = j]
      BY <1>1, <2>4
    <3>2. /\ j.pc = "claim" /\ j.inv = p.inv /\ j.key = RevKey(p.id)
          /\ j.op = k.op /\ j.ev = k.ev /\ j.rzp = k.rzp
      BY <1>1 DEF Job
    <3> HIDE DEF j
    <3>3. k.op = "reverse" /\ k.rzp = NoRef
      BY <1>0, <1>1 DEF EventJob
    <3>4. EventJob(j)
      BY <2>2, <3>2, <3>3 DEF EventJob
    <3> QED
      BY <1>0, <3>1, <3>4, AckMove
  <2> QED
    BY <2>1, <2>3, <2>4
<1> QED
  BY <1>2, <1>3

\* A row of the tenant under the job's key is what its event asks for.
LEMMA KeyIsRecorded ==
    ASSUME Safe, AckSafe, NEW k \in Job, EventJob(k), k.ev # NoEvent,
           k.pc \in {"claim", "save"}, k.op \in {"record", "reverse"},
           NEW p \in payments, p.key = k.key, TenantOf[p.inv] = TenantOf[k.inv]
    PROVE  Recorded(k.ev)
<1>0. k.ev \in Events
  BY DEF Job
<1>1. CASE k.op = "record"
  BY <1>0, <1>1, RecordedCases DEF EventJob
<1>2. CASE k.op = "reverse"
  <2>1. PICK o \in payments : /\ o.key = RefKey(k.ev.gw) /\ k.key = RevKey(o.id)
                              /\ k.inv = o.inv
    BY <1>2 DEF EventJob
  <2>2. k.ev.type = "refund.processed"
    BY <1>2 DEF EventJob
  <2> QED
    BY <1>0, <2>1, <2>2, RecordedCases
<1> QED
  BY <1>1, <1>2

LEMMA AckClaim ==
    ASSUME Safe, AckSafe, Safe', NEW w \in Workers, SaveIfNew(w)
    PROVE  AckSafe'
<1>0. /\ UNCHANGED <<payments, acked, processed, eventOf>>
      /\ job[w].pc = "claim"
  BY DEF SaveIfNew, db
<1>1. PICK k \in Job : k = job[w] /\ WellFormed(k) /\ EventJob(k)
  BY AckFacts
<1>2. \/ \E p \in RowsWithKey(k.inv, k.key) : Return(w, p.id)
      \/ Goto(w, IF k.op = "record" THEN "save" ELSE "read")
  BY <1>1 DEF SaveIfNew
<1>3. ASSUME NEW p \in RowsWithKey(k.inv, k.key), Return(w, p.id) PROVE AckSafe'
  <2>1. p \in payments /\ p.key = k.key /\ TenantOf[p.inv] = TenantOf[k.inv]
    BY DEF RowsWithKey
  <2>2. k.ev # NoEvent => Recorded(k.ev)
    BY <1>0, <1>1, <2>1, KeyIsRecorded DEF WellFormed
  <2> QED
    BY <1>0, <1>1, <1>3, <2>2, AckReturn
<1>4. CASE Goto(w, IF k.op = "record" THEN "save" ELSE "read")
  <2> DEFINE j == job'[w]
  <2>1. /\ job' = [job EXCEPT ![w] = j] /\ j.pc \in {"save", "read"}
        /\ j.ev = job[w].ev /\ j.op = job[w].op /\ j.rzp = job[w].rzp
        /\ j.key = job[w].key /\ j.inv = job[w].inv /\ j.id = job[w].id
    BY <1>1, <1>4 DEF Goto, Safe, TypeOK, Job
  <2> HIDE DEF j
  <2> QED
    BY <1>0, <2>1, AckCarry
<1> QED
  BY <1>2, <1>3, <1>4

\* The commit puts the row the event asks for into the ledger.
LEMMA AckCommit ==
    ASSUME Safe, AckSafe, Safe', NEW w \in Workers, CommitPayment(w)
    PROVE  AckSafe'
<1>1. PICK k \in Job : k = job[w] /\ WellFormed(k) /\ EventJob(k)
  BY AckFacts
<1> DEFINE x == [id |-> nextId, inv |-> k.inv, amt |-> k.amt,
                 key |-> k.key, rzp |-> k.rzp]
<1>2. /\ payments' = payments \cup {x}
      /\ UNCHANGED <<eventOf, processed, acked>>
      /\ Return(w, nextId) /\ k.pc = "save" /\ k.op \in {"record", "reverse"}
  BY <1>1 DEF CommitPayment
<1>3. x.id = nextId /\ x.inv = k.inv /\ x.key = k.key /\ x.rzp = k.rzp
  OBVIOUS
<1> HIDE DEF x
<1>4. RazorpayRows'
  BY <1>1, <1>2, <1>3 DEF AckSafe, RazorpayRows, EventJob, RefKey
<1>5. \A q \in payments : q.id # nextId
  BY DEF Safe, IdsBelow, TypeOK, PaymentRow
<1>6. IdsUnique'
  BY <1>2, <1>3, <1>5 DEF AckSafe, IdsUnique
<1>7. payments \subseteq payments'
  BY <1>2
<1>8. k.ev # NoEvent => Recorded(k.ev)'
  <2> SUFFICES ASSUME k.ev # NoEvent PROVE Recorded(k.ev)'
    OBVIOUS
  <2>0. PICK e \in Events : e = k.ev
    BY <1>1 DEF Job
  <2>1. CASE k.op = "record"
    <3>1. Books(e) /\ \E p \in payments' : /\ TenantOf[p.inv] = TenantOf[GwInv[e.gw]]
                                           /\ p.key = EventRef(e)
      BY <1>1, <1>2, <1>3, <2>0, <2>1 DEF EventJob
    <3> QED
      BY <2>0, <3>1 DEF Recorded, Books, EventRef
  <2>2. CASE k.op = "reverse"
    <3>1. /\ e.type = "refund.processed"
          /\ \E p, r \in payments' : /\ p.key = RefKey(e.gw) /\ r.key = RevKey(p.id)
                                     /\ TenantOf[r.inv] = TenantOf[p.inv]
      BY <1>1, <1>2, <1>3, <1>7, <2>0, <2>2 DEF EventJob
    <3> QED
      BY <2>0, <3>1 DEF Recorded
  <2> QED
    BY <1>2, <2>1, <2>2
<1>9. \A e \in acked' \cup processed' : Recorded(e)'
  BY <1>2, <1>7, AckFacts, RecordedStays
<1>10. \A y \in eventOf' : Recorded(y[2])'
  BY <1>2, <1>7, AckFacts, RecordedStays
<1>11. ASSUME NEW v \in Workers PROVE EventJob(job[v])'
  <2>1. CASE v # w
    <3>1. PICK j \in Job : j = job[v] /\ WellFormed(j) /\ EventJob(j)
      BY AckFacts
    <3>2. EventJob(j)' /\ job'[v] = j
      BY <1>2, <1>7, <2>1, <3>1, EventJobStays DEF Return, Safe, TypeOK
    <3> QED
      BY <3>2
  <2>2. CASE v = w /\ k.ev = NoEvent
    <3>1. job'[v] = IdleJob
      BY <1>1, <1>2, <2>2 DEF Return, Safe, TypeOK
    <3>2. EventJob(IdleJob)'
      BY DEF EventJob, IdleJob
    <3> QED
      BY <3>1, <3>2 DEF EventJob, IdleJob
  <2>3. CASE v = w /\ k.ev # NoEvent
    <3>1. PICK j : j = job'[v]
      OBVIOUS
    <3>2. j = [IdleJob EXCEPT !.pc = "setevent", !.ev = k.ev, !.id = nextId]
      BY <1>1, <1>2, <2>3, <3>1 DEF Return, Safe, TypeOK
    <3>3. j.pc = "setevent" /\ j.op = "none" /\ j.ev = k.ev /\ j.rzp = NoRef
      BY <3>2 DEF IdleJob
    <3>4. EventJob(j)'
      BY <1>8, <2>3, <3>3 DEF EventJob
    <3> QED
      BY <3>1, <3>4
  <2> QED
    BY <2>1, <2>2, <2>3
<1> QED
  BY <1>4, <1>6, <1>9, <1>10, <1>11 DEF AckSafe

LEMMA AckStep ==
    ASSUME Safe, AckSafe, [Next]_vars
    PROVE  AckSafe'
<1>0. Safe'
  BY SafeStep
<1>1. ASSUME NEW w \in Workers, CommitVoid(w) \/ CommitAttach(w) \/ RollBack(w)
                                  \/ DatabaseError(w)
      PROVE  AckSafe'
  BY <1>0, <1>1, AckFail DEF CommitVoid, CommitAttach, RollBack, DatabaseError, db
<1>2. ASSUME NEW w \in Workers, Step(w) PROVE AckSafe'
  BY <1>0, <1>1, <1>2, AckLookup, AckFind, AckMark, AckRead, AckReverse, AckClaim,
     AckCommit DEF Step
<1>3. ASSUME UNCHANGED payments, UNCHANGED <<eventOf, acked>>,
             processed' \subseteq processed,
             \A w \in Workers : job'[w] \in {job[w], IdleJob}
      PROVE  AckSafe'
  <2>1. \A e \in acked' \cup processed' : Recorded(e)'
    BY <1>3, AckFacts, RecordedStays
  <2>2. \A x \in eventOf' : Recorded(x[2])'
    BY <1>3, AckFacts, RecordedStays
  <2>3. ASSUME NEW v \in Workers PROVE EventJob(job[v])'
    <3>1. PICK j \in Job : j = job'[v] /\ WellFormed(j) /\ EventJob(j)
      BY <1>3, AckFacts, IdleEvent, IdleJobType, IdleWellFormed
    <3>2. EventJob(j)'
      BY <1>3, <3>1, EventJobStays
    <3> QED
      BY <3>1, <3>2
  <2> QED
    BY <1>3, <2>1, <2>2, <2>3 DEF AckSafe, RazorpayRows, IdsUnique
<1>4. ASSUME NEW e \in Events, ExpireProcessed(e) PROVE AckSafe'
  BY <1>3, <1>4 DEF ExpireProcessed, db
<1>5. CASE Restart
  BY <1>3, <1>5 DEF Restart, db
<1>6. CASE UNCHANGED vars
  BY <1>3, <1>6 DEF vars
<1> QED
  BY <1>0, <1>1, <1>2, <1>4, <1>5, <1>6, AckRequest DEF Next

LEMMA AckAlways == Spec => []AckSafe
<1>1. Safe /\ AckSafe /\ [Next]_vars => AckSafe'
  BY AckStep
<1> QED
  BY AckInit, SafeAlways, <1>1, PTL DEF Spec

\* The 200 never runs ahead of the commit: an event Razorpay will not deliver
\* again has its row, or its reversal, in the ledger, through concurrent
\* deliveries, lost caches, event ids of other rows, errors and restarts.
THEOREM AckedIsInLedger == Spec => []AckedIsRecorded
<1>1. AckSafe => AckedIsRecorded
  BY DEF AckSafe, AckedIsRecorded
<1> QED
  BY AckAlways, <1>1, PTL

-----------------------------------------------------------------------------
(* The balance is the total of the rows, and the clamp never acts.         *)

\* What a request in flight may still do to a balance: a payment is positive,
\* and a void was decided on an unpaid invoice.
JobPays(j) ==
    /\ j.op = "record" /\ j.pc \in {"begin", "claim", "read", "save"} => j.amt > 0
    /\ j.op = "void" /\ j.pc = "save" => ~CannotVoid(j.snap)

RowsOf(i) == {p \in payments : p.inv = i}

\* The credits that no reversal has taken back: what is really paid.
Unreversed(p) == \A r \in payments : r.key # RevKey(p.id)

Live(i) == {p \in payments : p.inv = i /\ p.amt > 0 /\ Unreversed(p)}

PaySafe ==
    /\ \A w \in Workers : JobPays(job[w])
    /\ \A p \in payments : p.amt # 0
    /\ Countable(payments)
    /\ \A i \in Invoices : /\ invoice[i].paid = Total(RowsOf(i))
                           /\ invoice[i].paid = Total(Live(i))

LEMMA PayInit == Init => PaySafe
<1> SUFFICES ASSUME Init PROVE PaySafe
  OBVIOUS
<1>1. \A w \in Workers : JobPays(job[w])
  BY DEF Init, JobPays, IdleJob
<1>2. payments = {} /\ \A i : RowsOf(i) = {} /\ Live(i) = {}
  BY DEF Init, RowsOf, Live
<1>3. \A i \in Invoices : invoice[i].paid = 0
  BY DEF Init
<1> QED
  BY <1>1, <1>2, <1>3, TotalOfNone DEF PaySafe

\* A worker gets the job j, all others keep theirs.
LEMMA OnePays ==
    ASSUME Safe, PaySafe, NEW w \in Workers, NEW j, JobPays(j),
           job' = [job EXCEPT ![w] = j]
    PROVE  \A v \in Workers : JobPays(job'[v])
  BY DEF Safe, TypeOK, PaySafe

LEMMA FailPays ==
    ASSUME Safe, PaySafe, NEW w \in Workers, (\E id : Return(w, id)) \/ Fail(w)
    PROVE  \A v \in Workers : JobPays(job'[v])
<1>1. JobPays(IdleJob)
  BY DEF JobPays, IdleJob
<1>2. ASSUME NEW e, NEW id
      PROVE  JobPays([IdleJob EXCEPT !.pc = "setevent", !.ev = e, !.id = id])
  BY DEF JobPays, IdleJob
<1>3. ASSUME NEW id, Return(w, id) PROVE \A v \in Workers : JobPays(job'[v])
  <2>1. CASE job[w].ev = NoEvent
    BY <1>1, <1>3, <2>1, OnePays DEF Return
  <2>2. CASE job[w].ev # NoEvent
    <3> DEFINE j == [IdleJob EXCEPT !.pc = "setevent", !.ev = job[w].ev, !.id = id]
    <3>1. job' = [job EXCEPT ![w] = j] /\ JobPays(j)
      BY <1>2, <1>3, <2>2 DEF Return
    <3> HIDE DEF j
    <3> QED
      BY <3>1, OnePays
  <2> QED
    BY <2>1, <2>2
<1> QED
  BY <1>1, <1>3, OnePays DEF Fail

\* Requests arrive with a positive amount or none.
LEMMA RequestPays ==
    ASSUME Safe, PaySafe, NEW w \in Workers, Request(w)
    PROVE  \A v \in Workers : JobPays(job'[v])
<1>1. ASSUME NEW r \in Requests, SubmitPayment(w, r)
      PROVE  \A v \in Workers : JobPays(job'[v])
  <2> DEFINE j == [IdleJob EXCEPT !.pc = "begin", !.op = "record",
                     !.inv = r.inv, !.amt = r.amt, !.key = idempotencyKey(r)]
  <2>1. r.amt > 0
    BY LedgerAssumption
  <2>2. JobPays(j)
    BY <2>1 DEF JobPays, IdleJob
  <2> QED
    BY <1>1, <2>2, OnePays DEF SubmitPayment, Arrive
<1>2. ASSUME NEW p \in payments, SubmitReversal(w, p)
      PROVE  \A v \in Workers : JobPays(job'[v])
  <2> DEFINE j == [IdleJob EXCEPT !.pc = "begin", !.op = "reverse", !.id = p.id]
  <2>1. JobPays(j)
    BY DEF JobPays, IdleJob
  <2> QED
    BY <1>2, <2>1, OnePays DEF SubmitReversal, Arrive
<1>3. ASSUME NEW g \in Verifiable, SubmitVerify(w, g)
      PROVE  \A v \in Workers : JobPays(job'[v])
  <2> DEFINE j == [IdleJob EXCEPT !.pc = "findrazorpay", !.op = "record",
                     !.inv = GwInv[g], !.key = RefKey(g), !.rzp = g]
  <2>1. JobPays(j)
    BY DEF JobPays, IdleJob
  <2> QED
    BY <1>3, <2>1, OnePays DEF SubmitVerify, Arrive
<1>4. ASSUME NEW i, SubmitVoid(w, i) \/ SubmitAttach(w, i)
      PROVE  \A v \in Workers : JobPays(job'[v])
  <2> DEFINE j(o) == [IdleJob EXCEPT !.pc = "begin", !.op = o, !.inv = i]
  <2>1. JobPays(j("void")) /\ JobPays(j("attach"))
    BY DEF JobPays, IdleJob
  <2>2. \/ job' = [job EXCEPT ![w] = j("void")]
        \/ job' = [job EXCEPT ![w] = j("attach")]
    BY <1>4 DEF SubmitVoid, SubmitAttach, Arrive
  <2> HIDE DEF j
  <2> QED
    BY <2>1, <2>2, OnePays
<1>5. ASSUME NEW e \in Events, DeliverWebhook(w, e)
      PROVE  \A v \in Workers : JobPays(job'[v])
  <2> DEFINE j == [IdleJob EXCEPT !.pc = "lookup", !.ev = e, !.inv = GwInv[e.gw]]
  <2>1. JobPays(j)
    BY DEF JobPays, IdleJob
  <2> QED
    BY <1>5, <2>1, OnePays DEF DeliverWebhook, Arrive
<1> QED
  BY <1>1, <1>2, <1>3, <1>4, <1>5 DEF Request

\* A step of a use case that keeps what it is going to book.
LEMMA CarryPays ==
    ASSUME Safe, PaySafe, NEW w \in Workers, NEW j, job' = [job EXCEPT ![w] = j],
           j.op = job[w].op,
           \/ j.op \notin {"record", "void"}
           \/ /\ j.op = "record" /\ j.amt = job[w].amt
              /\ job[w].pc \in {"begin", "claim", "read", "save"}
           \/ j.pc \in {"find", "setevent", "mark", "balance"}
           \/ j.op = "record" /\ j.amt > 0
           \/ j.op = "void" /\ ~CannotVoid(j.snap)
    PROVE  \A v \in Workers : JobPays(job'[v])
<1>1. JobPays(job[w])
  BY DEF PaySafe
<1>2. JobPays(j)
  BY <1>1 DEF JobPays
<1> QED
  BY <1>2, OnePays

LEMMA StepPays ==
    ASSUME Safe, PaySafe, NEW w \in Workers, Step(w)
    PROVE  \A v \in Workers : JobPays(job'[v])
<1> DEFINE j == job'[w]
<1>0. job[w] \in Job /\ WellFormed(job[w]) /\ job \in [Workers -> Job]
  BY DEF Safe, TypeOK, JobOK
<1>1. CASE Fail(w) \/ \E id : Return(w, id)
  BY <1>1, FailPays
<1>2. CASE LookupEvent(w)
  <2>1. CASE Goto(w, Dispatch(job[w].ev))
    <3>1. /\ job' = [job EXCEPT ![w] = j] /\ j.op = job[w].op
          /\ j.pc \in {"find", "mark"}
      BY <1>0, <2>1 DEF Goto, Job, Dispatch
    <3> HIDE DEF j
    <3> QED
      BY <3>1, CarryPays
  <2> QED
    BY <1>1, <1>2, <2>1 DEF LookupEvent, Fail
<1>3. CASE FindExisting(w)
  <2> DEFINE e == job[w].ev
             ref == IF e.type = "order.paid" THEN GwOrder[e.gw] ELSE e.gw
             j1(p) == [IdleJob EXCEPT !.pc = "begin", !.op = "reverse",
                                      !.ev = e, !.id = p.id]
             j2 == [IdleJob EXCEPT !.pc = "begin", !.op = "record", !.ev = e,
                                   !.inv = job[w].inv, !.amt = GwAmt[e.gw],
                                   !.key = RefKey(ref)]
  <2>1. \/ Fail(w)
        \/ \E p \in payments : job' = [job EXCEPT ![w] = j1(p)]
        \/ job' = [job EXCEPT ![w] = j2]
        \/ \E p \in payments : Return(w, p.id)
    BY <1>3 DEF FindExisting, RowsWithKey, RowsWithRazorpayId
  <2>2. ASSUME NEW p \in payments PROVE JobPays(j1(p))
    BY DEF JobPays, IdleJob
  <2>3. e \in Events
    BY <1>0, <1>3 DEF FindExisting, WellFormed
  <2>4. GwAmt[e.gw] > 0
    BY <2>3, LedgerAssumption
  <2>5. JobPays(j2)
    BY <2>4 DEF JobPays, IdleJob
  <2> HIDE DEF j1, j2
  <2> QED
    BY <1>1, <2>1, <2>2, <2>5, OnePays
<1>4. CASE SetWebhookEventID(w)
  <2>1. job' = [job EXCEPT ![w] = j] /\ j.op = job[w].op /\ j.pc = "mark"
    BY <1>0, <1>4 DEF SetWebhookEventID, Goto, Job
  <2> HIDE DEF j
  <2> QED
    BY <2>1, CarryPays
<1>5. CASE MarkProcessed(w)
  BY <1>1, <1>5 DEF MarkProcessed, Fail
<1>6. CASE FindRazorpayPayment(w)
  <2>1. CASE Goto(w, "balance")
    <3>1. job' = [job EXCEPT ![w] = j] /\ j.op = job[w].op /\ j.pc = "balance"
      BY <1>0, <2>1 DEF Goto, Job
    <3> HIDE DEF j
    <3> QED
      BY <3>1, CarryPays
  <2> QED
    BY <1>1, <1>6, <2>1 DEF FindRazorpayPayment
<1>7. CASE ReadBalance(w) /\ ~Fail(w)
  <2>1. /\ job' = [job EXCEPT ![w] = j] /\ j.op = job[w].op
        /\ j.amt = OutstandingBalance(invoice[job[w].inv])
        /\ ~(OutstandingBalance(invoice[job[w].inv]) <= 0)
    BY <1>0, <1>7 DEF ReadBalance, Job
  <2>2. job[w].op = "record" /\ invoice[job[w].inv] \in InvoiceRow
    BY <1>0, <1>7 DEF ReadBalance, WellFormed, Safe, TypeOK
  <2>3. OutstandingBalance(invoice[job[w].inv]) \in Int
    BY <2>2 DEF OutstandingBalance, InvoiceRow
  <2>4. j.amt > 0
    BY <2>1, <2>3
  <2> HIDE DEF j
  <2> QED
    BY <2>1, <2>2, <2>4, CarryPays
<1>8. CASE BeginRecord(w)
  <2>1. /\ job' = [job EXCEPT ![w] = j] /\ j.op = job[w].op /\ j.op = "record"
        /\ j.amt = job[w].amt /\ job[w].pc = "begin"
    BY <1>0, <1>8 DEF BeginRecord, Job
  <2> HIDE DEF j
  <2> QED
    BY <2>1, CarryPays
<1>9. CASE BeginReverse(w)
  <2>1. \/ Fail(w) \/ \E id : Return(w, id)
        \/ \E p \in payments :
             job' = [job EXCEPT ![w].pc = "claim", ![w].inv = p.inv,
                                ![w].amt = ReversalAmount(p),
                                ![w].key = RevKey(p.id)]
    BY <1>9, Zenon DEF BeginReverse
  <2>2. ASSUME NEW p \in payments,
               job' = [job EXCEPT ![w].pc = "claim", ![w].inv = p.inv,
                                  ![w].amt = ReversalAmount(p),
                                  ![w].key = RevKey(p.id)]
        PROVE  \A v \in Workers : JobPays(job'[v])
    <3>1. job' = [job EXCEPT ![w] = j] /\ j.op = job[w].op
      BY <1>0, <2>2 DEF Job
    <3>2. job[w].op = "reverse"
      BY <1>9 DEF BeginReverse
    <3> HIDE DEF j
    <3> QED
      BY <3>1, <3>2, CarryPays
  <2> QED
    BY <1>1, <2>1, <2>2
<1>10. CASE BeginVoid(w) /\ ~Fail(w)
  <2>1. /\ job' = [job EXCEPT ![w] = j] /\ j.op = job[w].op /\ j.op = "void"
        /\ j.snap = invoice[job[w].inv] /\ ~CannotVoid(invoice[job[w].inv])
    BY <1>0, <1>10 DEF BeginVoid, Job
  <2> HIDE DEF j
  <2> QED
    BY <2>1, CarryPays
<1>11. CASE BeginAttach(w) /\ ~Fail(w)
  <2>1. job' = [job EXCEPT ![w] = j] /\ j.op = job[w].op /\ j.op = "attach"
    BY <1>0, <1>11 DEF BeginAttach, Job
  <2> HIDE DEF j
  <2> QED
    BY <2>1, CarryPays
<1>12. CASE SaveIfNew(w) /\ ~\E id : Return(w, id)
  <2>1. /\ job' = [job EXCEPT ![w] = j] /\ j.op = job[w].op
        /\ j.amt = job[w].amt /\ job[w].pc = "claim"
    BY <1>0, <1>12 DEF SaveIfNew, Goto, Job
  <2>2. job[w].op \in {"record", "reverse"}
    BY <1>0, <2>1 DEF WellFormed
  <2> HIDE DEF j
  <2> QED
    BY <2>1, <2>2, CarryPays
<1>13. CASE ReadInvoice(w)
  <2>1. /\ job' = [job EXCEPT ![w] = j] /\ j.op = job[w].op
        /\ j.amt = job[w].amt /\ job[w].pc = "read"
    BY <1>0, <1>13 DEF ReadInvoice, Job
  <2>2. job[w].op \in {"record", "reverse"}
    BY <1>0, <2>1 DEF WellFormed
  <2> HIDE DEF j
  <2> QED
    BY <2>1, <2>2, CarryPays
<1>14. CASE CommitPayment(w) \/ CommitVoid(w) \/ CommitAttach(w) \/ RollBack(w)
  BY <1>1, <1>14 DEF CommitPayment, CommitVoid, CommitAttach, RollBack
<1> QED
  BY <1>1, <1>2, <1>3, <1>4, <1>5, <1>6, <1>7, <1>8, <1>9, <1>10, <1>11, <1>12,
     <1>13, <1>14 DEF Step

\* What a commit adds: a fresh row that no reversal names, either a payment or
\* the one reversal of a row that had none.
LEMMA NewRow ==
    ASSUME Safe, AckSafe, PaySafe, NEW w \in Workers, CommitPayment(w),
           NEW x, x = [id |-> nextId, inv |-> job[w].inv, amt |-> job[w].amt,
                       key |-> job[w].key, rzp |-> job[w].rzp]
    PROVE  /\ payments' = payments \cup {x}
           /\ x.inv \in Invoices /\ x.amt \in Int
           /\ \A p \in payments : p.id # x.id /\ p.key # RevKey(x.id)
           /\ x.key # RevKey(x.id)
           /\ \/ x.amt > 0 /\ \A n : x.key # RevKey(n)
              \/ \E o \in payments : /\ x.key = RevKey(o.id) /\ x.inv = o.inv
                                     /\ x.amt = -o.amt /\ o.amt # 0
                                     /\ Unreversed(o)
<1>1. /\ x.id = nextId /\ x.inv = job[w].inv /\ x.amt = job[w].amt
      /\ x.key = job[w].key
  OBVIOUS
<1>2. payments' = payments \cup {x} /\ x.inv \in Invoices /\ x.amt \in Int
  BY <1>1, CommitTables
<1>3. nextId \in Nat /\ \A p \in payments : p.id \in Nat /\ p.id < nextId
  BY DEF Safe, TypeOK, PaymentRow, IdsBelow
<1>4. \A p \in payments : p.id # x.id /\ p.key # RevKey(x.id)
  BY <1>1, <1>3 DEF Safe, ReversalsExact
<1>5. CASE job[w].op = "record"
  <2>1. x.amt > 0
    BY <1>1, <1>5 DEF PaySafe, JobPays, CommitPayment
  <2>2. x.key[1] # "reversal"
    BY <1>1, <1>5 DEF Safe, JobSafe, ReversalJob
  <2>3. \A n : x.key # RevKey(n)
    BY <2>2 DEF RevKey
  <2> QED
    BY <1>2, <1>4, <2>1, <2>3
<1>6. CASE job[w].op = "reverse"
  <2>1. PICK o \in payments : x.key = RevKey(o.id) /\ x.inv = o.inv /\ x.amt = -o.amt
    BY <1>1, <1>6 DEF Safe, JobSafe, ReversalJob, CommitPayment
  <2>2. RowsWithKey(x.inv, x.key) = {}
    BY <1>1, <1>6 DEF Safe, JobSafe, ClaimFree, Claiming, CommitPayment
  <2>3. Unreversed(o)
    <3> SUFFICES ASSUME NEW r \in payments, r.key = RevKey(o.id) PROVE FALSE
      BY DEF Unreversed
    <3>1. PICK p \in payments : p.id = o.id /\ p.inv = r.inv
      BY <1>3 DEF Safe, ReversalsExact
    <3>2. p = o
      BY <3>1 DEF AckSafe, IdsUnique
    <3> QED
      BY <2>1, <2>2, <3>1, <3>2 DEF RowsWithKey
  <2>4. x.key # RevKey(x.id)
    BY <1>4, <2>1, RevKeyInjective
  <2>5. o.amt # 0
    BY DEF PaySafe
  <2> QED
    BY <1>2, <1>4, <2>1, <2>3, <2>4, <2>5
<1> QED
  BY <1>5, <1>6 DEF CommitPayment

\* What is live after a row was added.
LEMMA LiveAfter ==
    ASSUME Safe, AckSafe, PaySafe, NEW x, payments' = payments \cup {x},
           x.amt \in Int,
           \A p \in payments : p.id # x.id /\ p.key # RevKey(x.id),
           x.key # RevKey(x.id), NEW i
    PROVE  /\ (\A n : x.key # RevKey(n)) /\ x.amt > 0 =>
                Live(i)' = IF i = x.inv THEN Live(i) \cup {x} ELSE Live(i)
           /\ \A o \in payments :
                x.key = RevKey(o.id) /\ x.inv = o.inv /\ x.amt = -o.amt
                  /\ o.amt # 0 /\ Unreversed(o) =>
                Live(i)' = IF i # x.inv THEN Live(i)
                           ELSE IF o.amt > 0 THEN Live(i) \ {o} ELSE Live(i) \cup {x}
<1>0. \A p \in payments : p.amt \in Int
  BY DEF Safe, TypeOK, PaymentRow
<1>1. \A p \in payments : Unreversed(p)' <=> Unreversed(p) /\ x.key # RevKey(p.id)
  BY DEF Unreversed, RevKey
<1>2. \A r \in payments' : r.key # RevKey(x.id)
  OBVIOUS
<1>3. Unreversed(x)'
  BY <1>2 DEF Unreversed, RevKey
<1>4. \A p : p \in Live(i)' <=> p \in payments' /\ p.inv = i /\ p.amt > 0 /\ Unreversed(p)'
  BY DEF Live
<1>5. \A p : p \in Live(i) <=> p \in payments /\ p.inv = i /\ p.amt > 0 /\ Unreversed(p)
  BY DEF Live
<1>6. ASSUME \A n : x.key # RevKey(n), x.amt > 0
      PROVE  Live(i)' = IF i = x.inv THEN Live(i) \cup {x} ELSE Live(i)
  BY <1>1, <1>3, <1>4, <1>5, <1>6
<1>7. ASSUME NEW o \in payments, x.key = RevKey(o.id), x.inv = o.inv,
             x.amt = -o.amt, o.amt # 0, Unreversed(o)
      PROVE  Live(i)' = IF i # x.inv THEN Live(i)
                        ELSE IF o.amt > 0 THEN Live(i) \ {o} ELSE Live(i) \cup {x}
  <2>1. \A p \in payments : x.key = RevKey(p.id) <=> p = o
    BY <1>7, RevKeyInjective DEF AckSafe, IdsUnique
  <2>2. \A p \in payments : Unreversed(p)' <=> Unreversed(p) /\ p # o
    BY <1>1, <2>1
  <2>3. x.amt > 0 <=> ~(o.amt > 0)
    BY <1>0, <1>7
  <2>4. CASE i # x.inv
    BY <1>4, <1>5, <1>7, <2>2, <2>4
  <2>5. CASE i = x.inv /\ o.amt > 0
    BY <1>4, <1>5, <1>7, <2>2, <2>3, <2>5
  <2>6. CASE i = x.inv /\ ~(o.amt > 0)
    BY <1>3, <1>4, <1>5, <1>7, <2>2, <2>3, <2>6
  <2> QED
    BY <2>4, <2>5, <2>6
<1> QED
  BY <1>6, <1>7

\* The live rows of an invoice move by exactly the amount of the new row, which
\* takes back no more than was paid.
LEMMA LiveMoves ==
    ASSUME Safe, AckSafe, PaySafe, NEW w \in Workers, CommitPayment(w),
           NEW x, x = [id |-> nextId, inv |-> job[w].inv, amt |-> job[w].amt,
                       key |-> job[w].key, rzp |-> job[w].rzp],
           NEW i, i = x.inv, NEW L, L = Live(i)'
    PROVE  /\ Total(L) = Total(Live(i)) + x.amt
           /\ Total(Live(i)) + x.amt >= 0
<1>1. /\ payments' = payments \cup {x} /\ x.inv \in Invoices /\ x.amt \in Int
      /\ \A p \in payments : p.id # x.id /\ p.key # RevKey(x.id)
      /\ x.key # RevKey(x.id)
  BY NewRow
<1>2. Live(i) \subseteq payments /\ Countable(Live(i))
  BY CountablePart DEF Live, PaySafe
<1>3. \A p \in payments : p.amt \in Int
  BY DEF Safe, TypeOK, PaymentRow
<1>4. \A p \in Live(i) : p.amt \in Nat /\ p.id # x.id
  BY <1>1, <1>3 DEF Live
<1>5. Total(Live(i)) \in Nat
  BY <1>2, <1>4, TotalOfCredits
<1>6. Total(Live(i) \cup {x}) = Total(Live(i)) + x.amt
  BY <1>1, <1>2, <1>4, TotalAdd
<1>7. ASSUME x.amt > 0, \A n : x.key # RevKey(n)
      PROVE  Total(L) = Total(Live(i)) + x.amt /\ Total(Live(i)) + x.amt >= 0
  <2>1. L = Live(i) \cup {x}
    BY <1>1, <1>7, LiveAfter
  <2>2. Total(Live(i)) + x.amt >= 0
    BY <1>1, <1>5, <1>7
  <2> QED
    BY <1>6, <2>1, <2>2, Zenon
<1>8. ASSUME NEW o \in payments, x.key = RevKey(o.id), x.inv = o.inv,
             x.amt = -o.amt, o.amt # 0, Unreversed(o)
      PROVE  Total(L) = Total(Live(i)) + x.amt /\ Total(Live(i)) + x.amt >= 0
  <2>1. CASE o.amt > 0
    <3>1. L = Live(i) \ {o} /\ o \in Live(i)
      BY <1>1, <1>8, <2>1, LiveAfter DEF Live
    <3>2. \A r \in Live(i) : r.id = o.id => r = o
      BY <1>2 DEF AckSafe, IdsUnique
    <3>3. Countable(Live(i) \ {o}) /\ Total(Live(i) \ {o}) = Total(Live(i)) - o.amt
      BY <1>2, <1>3, <3>1, <3>2, TotalRemove
    <3>4. \A p \in Live(i) \ {o} : p.amt \in Nat
      BY <1>4
    <3>5. Total(Live(i) \ {o}) \in Nat
      BY <3>3, <3>4, TotalOfCredits
    <3>6. Total(Live(i)) - o.amt = Total(Live(i)) + x.amt
      BY <1>3, <1>5, <1>8
    <3>7. Total(Live(i)) + x.amt >= 0
      BY <3>3, <3>5, <3>6
    <3> QED
      BY <3>1, <3>3, <3>6, <3>7, Zenon
  <2>2. CASE ~(o.amt > 0)
    <3>1. L = Live(i) \cup {x}
      BY <1>1, <1>8, <2>2, LiveAfter
    <3>2. x.amt > 0
      BY <1>3, <1>8, <2>2
    <3>3. Total(Live(i)) + x.amt >= 0
      BY <1>1, <1>5, <3>2
    <3> QED
      BY <1>6, <3>1, <3>3, Zenon
  <2> QED
    BY <2>1, <2>2
<1> QED
  BY <1>7, <1>8, NewRow

\* The other invoices keep their rows.
LEMMA OthersStay ==
    ASSUME Safe, AckSafe, PaySafe, NEW w \in Workers, CommitPayment(w),
           NEW x, x = [id |-> nextId, inv |-> job[w].inv, amt |-> job[w].amt,
                       key |-> job[w].key, rzp |-> job[w].rzp],
           NEW i, i # x.inv
    PROVE  Live(i)' = Live(i) /\ RowsOf(i)' = RowsOf(i)
<1>1. /\ payments' = payments \cup {x} /\ x.amt \in Int
      /\ \A p \in payments : p.id # x.id /\ p.key # RevKey(x.id)
      /\ x.key # RevKey(x.id)
      /\ \/ x.amt > 0 /\ \A n : x.key # RevKey(n)
         \/ \E o \in payments : /\ x.key = RevKey(o.id) /\ x.inv = o.inv
                                /\ x.amt = -o.amt /\ o.amt # 0
                                /\ Unreversed(o)
  BY NewRow
<1>2. Live(i)' = Live(i)
  BY <1>1, LiveAfter
<1>3. RowsOf(i)' = RowsOf(i)
  BY <1>1 DEF RowsOf
<1> QED
  BY <1>2, <1>3

\* A payment or a reversal is booked in full: nothing is clamped.
LEMMA NoClamp ==
    ASSUME Safe, AckSafe, PaySafe, NEW w \in Workers, CommitPayment(w),
           NEW i, i = job[w].inv
    PROVE  /\ invoice[i].paid + job[w].amt >= 0
           /\ invoice'[i].paid = invoice[i].paid + job[w].amt
           /\ invoice'[i].total = invoice[i].total
           /\ invoice'[i].status # "cancelled" /\ invoice[i].status # "cancelled"
           /\ \A j \in Invoices \ {i} : invoice'[j] = invoice[j]
<1> DEFINE row == ApplyPayment(invoice[i], job[w].amt)
<1>1. PICK x : x = [id |-> nextId, inv |-> job[w].inv, amt |-> job[w].amt,
                    key |-> job[w].key, rzp |-> job[w].rzp]
  OBVIOUS
<1>2. x.inv = i /\ x.amt = job[w].amt
  BY <1>1
<1>3. /\ i \in Invoices /\ invoice[i] \in InvoiceRow /\ job[w].amt \in Int
      /\ invoice[i].status # "cancelled"
      /\ invoice' = [invoice EXCEPT ![i] = [row EXCEPT !.version = invoice[i].version + 1]]
      /\ invoice \in [Invoices -> InvoiceRow]
  BY CommitTables DEF Safe, TypeOK
<1>4. Total(Live(i)) + x.amt >= 0
  BY <1>1, <1>2, LiveMoves
<1>5. invoice[i].paid + job[w].amt >= 0
  BY <1>2, <1>3, <1>4 DEF PaySafe
<1>6. /\ row \in InvoiceRow
      /\ row.paid = invoice[i].paid + job[w].amt
      /\ row.total = invoice[i].total /\ row.status # "cancelled"
  <2>1. invoice[i].paid + job[w].amt \in Int
    BY <1>3 DEF InvoiceRow
  <2> QED
    BY <1>3, <1>5, <2>1, ApplyPaymentFields
<1> HIDE DEF row
<1> DEFINE new == [row EXCEPT !.version = invoice[i].version + 1]
<1>7. new.paid = row.paid /\ new.total = row.total /\ new.status = row.status
  BY <1>6 DEF InvoiceRow
<1>8. invoice'[i] = new /\ \A j \in Invoices \ {i} : invoice'[j] = invoice[j]
  BY <1>3
<1> HIDE DEF new
<1> QED
  BY <1>3, <1>5, <1>6, <1>7, <1>8

\* PaySafe of the next state, from the values of its parts.
LEMMA PayParts ==
    ASSUME \A w \in Workers : JobPays(job'[w]),
           \A p \in payments' : p.amt # 0,
           NEW P, P = payments', Countable(P),
           \A i \in Invoices : \E R, L :
              /\ R = RowsOf(i)' /\ L = Live(i)'
              /\ invoice'[i].paid = Total(R) /\ invoice'[i].paid = Total(L)
    PROVE  PaySafe'
<1>1. \A w \in Workers : JobPays(job[w])'
  BY DEF JobPays, CannotVoid
<1>2. Countable(payments)'
  BY DEF Countable, Credited, Debited
<1>3. ASSUME NEW i \in Invoices
      PROVE  (invoice[i].paid = Total(RowsOf(i)) /\ invoice[i].paid = Total(Live(i)))'
  <2>1. PICK R, L : /\ R = RowsOf(i)' /\ L = Live(i)'
                    /\ invoice'[i].paid = Total(R) /\ invoice'[i].paid = Total(L)
    OBVIOUS
  <2> QED
    BY <2>1, Zenon DEF Total, Credited, Debited
<1> QED
  BY <1>1, <1>2, <1>3 DEF PaySafe

\* A step that books no row keeps both totals.
LEMMA PayQuiet ==
    ASSUME PaySafe, \A w \in Workers : JobPays(job'[w]), payments' = payments,
           \A i \in Invoices : invoice'[i].paid = invoice[i].paid
    PROVE  PaySafe'
<1>1. ASSUME NEW i \in Invoices
      PROVE  \E R, L : /\ R = RowsOf(i)' /\ L = Live(i)'
                       /\ invoice'[i].paid = Total(R) /\ invoice'[i].paid = Total(L)
  <2>1. RowsOf(i)' = RowsOf(i) /\ Live(i)' = Live(i)
    BY DEF RowsOf, Live, Unreversed, RevKey
  <2>2. invoice'[i].paid = Total(RowsOf(i)) /\ invoice'[i].paid = Total(Live(i))
    BY DEF PaySafe
  <2> QED
    BY <2>1, <2>2, Zenon
<1>2. Countable(payments) /\ \A p \in payments' : p.amt # 0
  BY DEF PaySafe
<1> QED
  BY <1>1, <1>2, PayParts

\* A booked row moves the balance, the total of the rows and the total of what
\* is live by the same amount.
LEMMA PayCommit ==
    ASSUME Safe, AckSafe, PaySafe, NEW w \in Workers, CommitPayment(w)
    PROVE  PaySafe'
<1>1. PICK x : x = [id |-> nextId, inv |-> job[w].inv, amt |-> job[w].amt,
                    key |-> job[w].key, rzp |-> job[w].rzp]
  OBVIOUS
<1>2. PICK k \in Invoices, a \in Int :
        k = job[w].inv /\ a = job[w].amt /\ x.inv = k /\ x.amt = a
  BY <1>1, NewRow
<1>3. /\ payments' = payments \cup {x} /\ x.amt # 0
      /\ \A p \in payments : p.id # x.id
  <2>1. /\ payments' = payments \cup {x} /\ x.amt \in Int
        /\ \A p \in payments : p.id # x.id
        /\ \/ x.amt > 0
           \/ \E o \in payments : x.amt = -o.amt /\ o.amt # 0
    BY <1>1, NewRow
  <2>2. \A p \in payments : p.amt \in Int
    BY DEF Safe, TypeOK, PaymentRow
  <2> QED
    BY <2>1, <2>2
<1>4. Countable(payments) /\ \A p \in payments : p.amt # 0
  BY DEF PaySafe
<1>5. Countable(payments \cup {x})
  BY <1>2, <1>3, <1>4, TotalAdd
<1>6. \A v \in Workers : JobPays(job'[v])
  BY StepPays DEF Step
<1>7. /\ invoice'[k].paid = invoice[k].paid + a
      /\ \A i \in Invoices \ {k} : invoice'[i] = invoice[i]
  BY <1>2, NoClamp
<1>8. ASSUME NEW i \in Invoices
      PROVE  \E R, L : /\ R = RowsOf(i)' /\ L = Live(i)'
                       /\ invoice'[i].paid = Total(R) /\ invoice'[i].paid = Total(L)
  <2>1. invoice[i].paid = Total(RowsOf(i)) /\ invoice[i].paid = Total(Live(i))
    BY DEF PaySafe
  <2>2. CASE i # k
    <3>1. RowsOf(i)' = RowsOf(i) /\ Live(i)' = Live(i)
      BY <1>1, <1>2, <2>2, OthersStay
    <3>2. invoice'[i].paid = Total(RowsOf(i)) /\ invoice'[i].paid = Total(Live(i))
      BY <1>7, <2>1, <2>2
    <3> QED
      BY <3>1, <3>2, Zenon
  <2>3. CASE i = k
    <3>1. RowsOf(i)' = RowsOf(i) \cup {x}
      BY <1>2, <1>3, <2>3 DEF RowsOf
    <3>2. RowsOf(i) \subseteq payments
      BY DEF RowsOf
    <3>3. Countable(RowsOf(i)) /\ \A r \in RowsOf(i) : r.id # x.id
      BY <1>3, <1>4, <3>2, CountablePart
    <3>4. Total(RowsOf(i) \cup {x}) = Total(RowsOf(i)) + x.amt
      BY <1>2, <3>3, TotalAdd
    <3>5. PICK L : L = Live(i)'
      OBVIOUS
    <3>6. Total(L) = Total(Live(i)) + x.amt
      BY <1>1, <1>2, <2>3, <3>5, LiveMoves
    <3>7. invoice'[i].paid = invoice[i].paid + x.amt
      BY <1>2, <1>7, <2>3, Zenon
    <3>8. /\ invoice'[i].paid = Total(RowsOf(i) \cup {x})
          /\ invoice'[i].paid = Total(L)
      BY <2>1, <3>4, <3>6, <3>7, Zenon
    <3> QED
      BY <3>1, <3>5, <3>8, Zenon
  <2> QED
    BY <2>2, <2>3
<1>9. \A p \in payments' : p.amt # 0
  BY <1>3, <1>4
<1> QED
  BY <1>3, <1>5, <1>6, <1>8, <1>9, PayParts

\* A void or an attached line leaves what was paid alone.
LEMMA PaidStays ==
    ASSUME Safe, NEW w \in Workers, CommitVoid(w) \/ CommitAttach(w)
    PROVE  \A i \in Invoices : invoice'[i].paid = invoice[i].paid
<1>1. job[w].inv \in Invoices /\ job[w].snap = invoice[job[w].inv]
  BY SnapIsRow DEF CommitVoid, CommitAttach
<1>2. invoice \in [Invoices -> InvoiceRow]
  BY DEF Safe, TypeOK
<1>3. CASE CommitVoid(w)
  BY <1>1, <1>2, <1>3 DEF CommitVoid, Saved, InvoiceRow
<1>4. CASE CommitAttach(w)
  BY <1>1, <1>2, <1>4 DEF CommitAttach, Saved, InvoiceRow
<1> QED
  BY <1>3, <1>4

\* Every step but a commit leaves both tables alone.
LEMMA TablesStay ==
    ASSUME [Next]_vars
    PROVE  \/ \E w \in Workers : CommitPayment(w) \/ CommitVoid(w) \/ CommitAttach(w)
           \/ UNCHANGED <<invoice, payments>>
<1>1. ASSUME NEW w \in Workers, Request(w) PROVE UNCHANGED <<invoice, payments>>
  BY <1>1 DEF Request, SubmitPayment, SubmitReversal, SubmitVerify, SubmitVoid,
              SubmitAttach, DeliverWebhook, Arrive, db
<1>2. ASSUME NEW w \in Workers, Step(w)
      PROVE  \/ CommitPayment(w) \/ CommitVoid(w) \/ CommitAttach(w)
             \/ UNCHANGED <<invoice, payments>>
  <2>1. CASE LookupEvent(w) \/ FindExisting(w) \/ SetWebhookEventID(w)
               \/ MarkProcessed(w) \/ FindRazorpayPayment(w) \/ ReadBalance(w)
    BY <2>1 DEF LookupEvent, FindExisting, SetWebhookEventID, MarkProcessed,
                FindRazorpayPayment, ReadBalance, db
  <2>2. CASE BeginRecord(w) \/ BeginReverse(w) \/ BeginVoid(w) \/ BeginAttach(w)
               \/ SaveIfNew(w) \/ ReadInvoice(w) \/ RollBack(w)
    BY <2>2 DEF BeginRecord, BeginReverse, BeginVoid, BeginAttach, SaveIfNew,
                ReadInvoice, RollBack, db
  <2> QED
    BY <1>2, <2>1, <2>2 DEF Step
<1>3. ASSUME NEW w \in Workers, DatabaseError(w)
      PROVE  UNCHANGED <<invoice, payments>>
  BY <1>3 DEF DatabaseError, db
<1>4. CASE (\E e \in Events : ExpireProcessed(e)) \/ Restart \/ UNCHANGED vars
  BY <1>4 DEF ExpireProcessed, Restart, db, vars
<1> QED
  BY <1>1, <1>2, <1>3, <1>4 DEF Next

LEMMA PayStep ==
    ASSUME Safe, AckSafe, PaySafe, [Next]_vars
    PROVE  PaySafe'
<1>1. \A w \in Workers : JobPays(job'[w])
  <2>1. ASSUME NEW w \in Workers, DatabaseError(w) PROVE Fail(w)
    BY <2>1 DEF DatabaseError
  <2>2. CASE UNCHANGED job
    BY <2>2 DEF PaySafe
  <2>3. CASE Restart
    BY <2>3 DEF Restart, JobPays, IdleJob
  <2> QED
    BY <2>1, <2>2, <2>3, RequestPays, StepPays, FailPays
    DEF Next, vars, ExpireProcessed
<1>2. ASSUME NEW w \in Workers, CommitVoid(w) \/ CommitAttach(w) PROVE PaySafe'
  <2>1. payments' = payments
    BY <1>2 DEF CommitVoid, CommitAttach
  <2> QED
    BY <1>1, <1>2, <2>1, PaidStays, PayQuiet
<1>3. CASE UNCHANGED <<invoice, payments>>
  BY <1>1, <1>3, PayQuiet
<1> QED
  BY <1>2, <1>3, PayCommit, TablesStay

LEMMA PayAlways == Spec => []PaySafe
<1>1. Safe /\ AckSafe /\ PaySafe /\ [Next]_vars => PaySafe'
  BY PayStep
<1> QED
  BY PayInit, SafeAlways, AckAlways, <1>1, PTL DEF Spec

\* What an invoice shows as paid is the total of its payment rows, through
\* concurrent payments, reversals of payments and of reversals, voids and
\* attached lines: the clamp at zero in ApplyPayment never has to act.
THEOREM PaidIsTotal == Spec => []PaidMatchesLedger
<1>1. PaySafe => PaidMatchesLedger
  BY DEF PaySafe, PaidMatchesLedger, RowsOf
<1> QED
  BY PayAlways, <1>1, PTL

\* What an invoice shows as paid is what its customer has paid and not got back:
\* the credits, from payments or from reversals of reversals, that no reversal
\* row names.
PaidIsUnreversed ==
    \A i \in Invoices : invoice[i].paid = Total(Live(i))

\* A chain of reversals (ReversePayment of a reversal) leaves the balance where
\* its last link says: no amount is taken back twice and none is forgotten.
THEOREM PaidIsLive == Spec => []PaidIsUnreversed
<1>1. PaySafe => PaidIsUnreversed
  BY DEF PaySafe, PaidIsUnreversed
<1> QED
  BY PayAlways, <1>1, PTL

-----------------------------------------------------------------------------
(* The payment code implements the atomic ledger.                          *)

\* What the atomic ledger sees of one invoice and of one payment row.
Seen(inv) == [paid |-> inv.paid, total |-> inv.total,
              cancelled |-> inv.status = "cancelled"]

RowSeen(p) == [id |-> p.id, inv |-> p.inv, amt |-> p.amt, key |-> p.key]

LEMMA ViewNow ==
    /\ Account = [i \in Invoices |-> Seen(invoice[i])]
    /\ Rows = {RowSeen(p) : p \in payments}
  BY DEF Account, Rows, Seen, RowSeen

LEMMA ViewNext ==
    /\ Account' = [i \in Invoices |-> Seen(invoice'[i])]
    /\ Rows' = {RowSeen(p) : p \in payments'}
  BY DEF Account, Rows, Seen, RowSeen

LEMMA RefInit == ASSUME Init PROVE Atomic!Init
<1>1. Account = [i \in Invoices |->
                   [paid |-> 0, total |-> InitTotal[i], cancelled |-> FALSE]]
  <2>1. ASSUME NEW i \in Invoices
        PROVE  Seen(invoice[i]) = [paid |-> 0, total |-> InitTotal[i], cancelled |-> FALSE]
    BY DEF Init, Seen
  <2> HIDE DEF Seen
  <2> QED
    BY <2>1, ViewNow
<1>2. Rows = {}
  BY DEF Init, Rows
<1> QED
  BY <1>1, <1>2 DEF Atomic!Init

\* A committed payment or reversal is one posting: its key and its id are new,
\* its invoice is not cancelled, and it takes no more than was paid.
LEMMA RefPost ==
    ASSUME Safe, AckSafe, PaySafe, NEW w \in Workers, CommitPayment(w)
    PROVE  \E p \in Rows' \ Rows : Atomic!Post(p)
<1>1. PICK x : x = [id |-> nextId, inv |-> job[w].inv, amt |-> job[w].amt,
                    key |-> job[w].key, rzp |-> job[w].rzp]
  OBVIOUS
<1>2. PICK k \in Invoices, a \in Int :
        k = job[w].inv /\ a = job[w].amt /\ x.inv = k /\ x.amt = a
  BY <1>1, NewRow
<1> DEFINE y == RowSeen(x)
<1>3. y.id = x.id /\ y.inv = k /\ y.amt = a /\ y.key = x.key
  BY <1>2 DEF RowSeen
<1> HIDE DEF y
<1>4. payments' = payments \cup {x} /\ \A p \in payments : p.id # x.id
  BY <1>1, NewRow
<1>5. \A p \in payments : TenantOf[p.inv] = TenantOf[k] => p.key # x.key
  <2>1. RowsWithKey(job[w].inv, job[w].key) = {}
    BY DEF Safe, JobSafe, ClaimFree, Claiming, CommitPayment
  <2>2. x.key = job[w].key
    BY <1>1
  <2> QED
    BY <1>2, <2>1, <2>2 DEF RowsWithKey
<1>6. \A q \in Rows : \E p \in payments : /\ q.id = p.id /\ q.inv = p.inv
                                         /\ q.key = p.key
  BY DEF Rows
<1>7. \A q \in Rows : /\ q.id # y.id
                      /\ TenantOf[q.inv] = TenantOf[y.inv] => q.key # y.key
  BY <1>3, <1>4, <1>5, <1>6
<1>8. Rows' = Rows \cup {y}
  BY <1>4, ViewNow, ViewNext DEF y
<1>9. /\ invoice[k].paid + a >= 0
      /\ invoice'[k].paid = invoice[k].paid + a
      /\ invoice'[k].total = invoice[k].total
      /\ invoice'[k].status # "cancelled" /\ invoice[k].status # "cancelled"
      /\ \A j \in Invoices \ {k} : invoice'[j] = invoice[j]
  BY <1>2, NoClamp
<1>10. /\ Account[k].paid = invoice[k].paid
       /\ Account[k].cancelled = FALSE
  BY <1>9 DEF Account
<1>11. Seen(invoice'[k]) = [Seen(invoice[k]) EXCEPT !.paid = invoice[k].paid + a]
  BY <1>9 DEF Seen
<1>12. Account' = [Account EXCEPT ![k] = [Seen(invoice[k]) EXCEPT !.paid = invoice[k].paid + a]]
  BY <1>9, <1>11, ViewNow, ViewNext
<1>13. Account' = [Account EXCEPT ![k].paid = Account[k].paid + a]
  BY <1>10, <1>12, ViewNow
<1>14. Atomic!Post(y)
  BY <1>3, <1>7, <1>8, <1>9, <1>10, <1>13 DEF Atomic!Post
<1> QED
  BY <1>7, <1>8, <1>14

\* A committed void is one void of an invoice that was not settled.
LEMMA RefVoid ==
    ASSUME Safe, PaySafe, NEW w \in Workers, CommitVoid(w)
    PROVE  \E i \in Invoices : Atomic!Void(i)
<1>1. PICK i \in Invoices : i = job[w].inv /\ job[w].snap = invoice[i]
  BY SnapIsRow DEF CommitVoid
<1>2. invoice \in [Invoices -> InvoiceRow] /\ invoice[i] \in InvoiceRow
  BY DEF Safe, TypeOK
<1>3. invoice[i].status \notin {"paid", "cancelled"}
  BY <1>1 DEF PaySafe, JobPays, CannotVoid, CommitVoid
<1>4. invoice[i].paid < invoice[i].total
  <2>1. invoice[i].status # "cancelled" =>
          (invoice[i].status = "paid" <=> invoice[i].paid >= invoice[i].total)
    BY DEF Safe, StatusMatchesBalance
  <2> QED
    BY <1>2, <1>3, <2>1 DEF InvoiceRow
<1> DEFINE new == [invoice[i] EXCEPT !.status = "cancelled",
                                     !.version = invoice[i].version + 1]
<1>5. invoice' = [invoice EXCEPT ![i] = new] /\ payments' = payments
  BY <1>1, <1>2 DEF CommitVoid, Saved, InvoiceRow
<1>6. /\ new.paid = invoice[i].paid /\ new.total = invoice[i].total
      /\ new.status = "cancelled"
  BY <1>2 DEF InvoiceRow
<1> HIDE DEF new
<1>7. Seen(new) = [Seen(invoice[i]) EXCEPT !.cancelled = TRUE]
  <2>1. PICK d, old : d = TRUE /\ old = (invoice[i].status = "cancelled")
    OBVIOUS
  <2>2. (new.status = "cancelled") = d
    BY <1>6, <2>1
  <2> DEFINE rec(c) == [paid |-> invoice[i].paid, total |-> invoice[i].total,
                        cancelled |-> c]
  <2>3. Seen(new) = rec(d) /\ Seen(invoice[i]) = rec(old)
    BY <1>6, <2>1, <2>2, Zenon DEF Seen
  <2>4. [rec(old) EXCEPT !.cancelled = d] = rec(d)
    OBVIOUS
  <2> HIDE DEF rec
  <2> QED
    BY <2>1, <2>3, <2>4, Zenon
<1>8. Account' = [Account EXCEPT ![i] = [Seen(invoice[i]) EXCEPT !.cancelled = TRUE]]
  BY <1>2, <1>5, <1>7, ViewNow, ViewNext
<1>9. Account' = [Account EXCEPT ![i].cancelled = TRUE] /\ Rows' = Rows
  BY <1>5, <1>8, ViewNow, ViewNext
<1>10. /\ Account[i].paid = invoice[i].paid /\ Account[i].total = invoice[i].total
       /\ ~Account[i].cancelled
  BY <1>3 DEF Account
<1>11. Atomic!Void(i)
  BY <1>4, <1>9, <1>10 DEF Atomic!Void
<1> QED
  BY <1>11

\* A committed line reprices an invoice no money is on.
LEMMA RefReprice ==
    ASSUME Safe, NEW w \in Workers, CommitAttach(w)
    PROVE  \E i \in Invoices : Atomic!Reprice(i)
<1>1. PICK i \in Invoices : i = job[w].inv /\ job[w].snap = invoice[i]
  BY SnapIsRow DEF CommitAttach
<1>2. invoice \in [Invoices -> InvoiceRow] /\ invoice[i] \in InvoiceRow
  BY DEF Safe, TypeOK
<1>3. /\ invoice[i].payStatus = "pending"
      /\ invoice[i].payStatus = PaymentStatusFor(invoice[i].paid, invoice[i].total)
  BY <1>1 DEF Safe, StatusMatchesBalance, JobOK, WellFormed, CommitAttach
<1>4. invoice[i].paid = 0
  BY <1>2, <1>3 DEF PaymentStatusFor, InvoiceRow
<1> DEFINE new == [invoice[i] EXCEPT !.total = invoice[i].total + 1,
                                     !.version = invoice[i].version + 1]
<1>5. invoice' = [invoice EXCEPT ![i] = new] /\ payments' = payments
  BY <1>1, <1>2 DEF CommitAttach, Saved, InvoiceRow
<1>6. /\ new.paid = invoice[i].paid /\ new.total = invoice[i].total + 1
      /\ new.status = invoice[i].status
  BY <1>2 DEF InvoiceRow
<1> HIDE DEF new
<1>7. invoice[i].total + 1 > 0
  BY <1>2 DEF InvoiceRow
<1>8. Seen(new) = [Seen(invoice[i]) EXCEPT !.total = invoice[i].total + 1]
  BY <1>6 DEF Seen
<1>9. Account' = [Account EXCEPT ![i] =
                    [Seen(invoice[i]) EXCEPT !.total = invoice[i].total + 1]]
  BY <1>2, <1>5, <1>8, ViewNow, ViewNext
<1>10. Account'[i].total = invoice[i].total + 1 /\ Account[i].paid = 0
  BY <1>4, <1>9, ViewNow DEF Seen
<1>11. Account' = [Account EXCEPT ![i].total = Account'[i].total] /\ Rows' = Rows
  BY <1>5, <1>9, <1>10, ViewNow, ViewNext
<1>12. Atomic!Reprice(i)
  BY <1>7, <1>10, <1>11 DEF Atomic!Reprice
<1> QED
  BY <1>12

\* Every step of the payment code is a step of the atomic ledger or invisible.
LEMMA RefStep ==
    ASSUME Safe, AckSafe, PaySafe, [Next]_vars
    PROVE  [Atomic!Next]_(Atomic!vars)
<1>1. CASE UNCHANGED <<invoice, payments>>
  BY <1>1, ViewNow, ViewNext DEF Atomic!vars
<1> QED
  BY <1>1, RefPost, RefVoid, RefReprice, TablesStay DEF Atomic!Next

\* The requests, transactions, conflicts, webhooks and restarts of the payment
\* code implement the atomic ledger, for any number of requests in flight.
THEOREM ImplementsAtomic == Spec => ImplementsAtomicLedger
<1>1. Init => Atomic!Init
  BY RefInit
<1>2. Safe /\ AckSafe /\ PaySafe /\ [Next]_vars => [Atomic!Next]_(Atomic!vars)
  BY RefStep
<1> QED
  BY <1>1, <1>2, SafeAlways, AckAlways, PayAlways, PTL
  DEF Spec, ImplementsAtomicLedger, Atomic!Spec

=============================================================================
