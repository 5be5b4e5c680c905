--------------------------- MODULE PaymentLedger ---------------------------
(***************************************************************************)
(* Customer payments against invoices (internal/payment, internal/invoice).*)
(*                                                                         *)
(* The database holds the invoices and the payment rows.  A worker is one  *)
(* HTTP request in flight: a recorded payment, a reversal, a Razorpay      *)
(* checkout verification, a Razorpay webhook delivery, a void, or the      *)
(* attachment of detention lines.  Every use case runs in a unit of work   *)
(* (one SQL transaction at READ COMMITTED): its reads are steps of their   *)
(* own, its INSERT claims the idempotency key until the transaction ends,  *)
(* and its versioned UPDATE and the COMMIT are one step, because the row   *)
(* lock the UPDATE takes hides the time between them.                      *)
(*                                                                         *)
(* Amounts are minor units: shared.FloatToMoney makes every comparison of  *)
(* the code an integer one.                                                *)
(***************************************************************************)
EXTENDS Integers, FiniteSets, Amounts

CONSTANTS
    Invoices,       \* invoice ids
    TenantOf,       \* the tenant that owns each invoice
    DefaultTenant,  \* shared.DefaultTenant, used for webhook bookkeeping
    InitTotal,      \* the total each invoice is generated with
    Workers,        \* requests that may be in flight at once
    Refs,           \* payment references
    GwPays,         \* Razorpay payment ids (references too)
    GwOrder,        \* the Razorpay order each gateway payment settles
    GwInv,          \* notes.invoice_id of each gateway payment, if it names one
    GwAmt,          \* the amount the gateway captured
    Events,         \* webhook events Razorpay may deliver
    Requests,       \* manual payments clients may post
    Verifiable,     \* gateway payments whose checkout page calls /verify
    Voidable,       \* invoices an operator may try to void
    MaxPayments,    \* bound: no manual reversal once this many rows exist
    MaxTotal,       \* bound on an invoice total (lines attached)
    MaxFaults,      \* bound on restarts and database errors
    NoRef, NoEvent, NoInvoice

EventTypes ==
    {"payment.captured", "order.paid", "refund.processed", "payment.failed"}

ASSUME LedgerAssumption ==
    /\ InitTotal \in [Invoices -> Nat \ {0}]
    /\ GwPays \subseteq Refs
    /\ GwOrder \in [GwPays -> Refs]
    /\ GwInv \in [GwPays -> Invoices \cup {NoInvoice}]
    /\ GwAmt \in [GwPays -> Nat \ {0}]
    /\ Events \subseteq [type : EventTypes, gw : GwPays]
    /\ \A r \in Requests : /\ r.inv \in Invoices
                           /\ r.amt \in Nat \ {0}
                           /\ r.ref \in Refs \cup {NoRef}
    /\ Verifiable \subseteq {g \in GwPays : GwInv[g] \in Invoices}
    /\ Voidable \subseteq Invoices
    /\ NoRef \notin Refs
    /\ NoEvent \notin Events
    /\ NoInvoice \notin Invoices
    /\ MaxPayments \in Nat /\ MaxTotal \in Nat /\ MaxFaults \in Nat

VARIABLES
    invoice,    \* the invoices table
    payments,   \* the payments table: committed rows
    nextId,     \* source of payment ids (uc.idGen)
    eventOf,    \* payments.webhook_event_id: the event recorded on each row
    processed,  \* RazorpayWebhookUseCase.processedIDs (process memory)
    job,        \* the request each worker is executing
    acked,      \* webhook events Razorpay got a 200 for
    faults      \* restarts and database errors so far

vars == <<invoice, payments, nextId, eventOf, processed, job, acked, faults>>

db == <<invoice, payments, nextId, eventOf>>

-----------------------------------------------------------------------------
(* Data.                                                                   *)

\* payments.idempotency_key.  A reference is tenant-wide; without one the key
\* is the invoice, the amount and the payment day.
RefKey(ref) == <<"ref", ref>>

\* The key of a reversal, and a mutant that forgets the prefix.
RevKey_Bare(id) == <<"ref", id>>

RevKey(id) == <<"reversal", id>>

idempotencyKey(r) ==
    IF r.ref # NoRef THEN RefKey(r.ref) ELSE <<"inv", r.inv, r.amt, r.day>>

InvoiceStatuses == {"outstanding", "paid", "cancelled"}
PaymentStatuses == {"pending", "partially_paid", "paid"}

PaymentStatusFor(paid, total) ==
    IF paid >= total THEN "paid"
    ELSE IF paid > 0 THEN "partially_paid" ELSE "pending"

\* Mutant of ApplyPayment: a reversal leaves the invoice marked paid.
ApplyPayment_StaysPaid(inv, amt) ==
    LET newPaid == IF inv.paid + amt < 0 THEN 0 ELSE inv.paid + amt
    IN [inv EXCEPT !.paid = newPaid,
                   !.payStatus = PaymentStatusFor(newPaid, inv.total),
                   !.status = IF newPaid >= inv.total THEN "paid"
                              ELSE inv.status]

\* InvoiceAggregate.ApplyPayment on an invoice that is not cancelled.
ApplyPayment(inv, amt) ==
    LET newPaid == IF inv.paid + amt < 0 THEN 0 ELSE inv.paid + amt
    IN [inv EXCEPT
          !.paid = newPaid,
          !.payStatus = PaymentStatusFor(newPaid, inv.total),
          !.status = IF newPaid >= inv.total THEN "paid"
                     ELSE IF inv.status = "paid" THEN "outstanding"
                     ELSE inv.status]

OutstandingBalance(inv) ==
    IF inv.total - inv.paid <= 0 THEN 0 ELSE inv.total - inv.paid

\* Rows of the tenant that owns invoice i with idempotency key k.
RowsWithKey(i, k) ==
    {p \in payments : p.key = k /\ TenantOf[p.inv] = TenantOf[i]}

\* ExistsRazorpayPayment: rows whose razorpay_payment_id is g.
RowsWithRazorpayId(i, g) ==
    {p \in payments : p.rzp = g /\ TenantOf[p.inv] = TenantOf[i]}

\* ExistsWebhookEvent, asked under the fallback tenant.
RowsWithEvent(e) ==
    {p \in payments : /\ TenantOf[p.inv] = DefaultTenant
                      /\ <<p.id, e>> \in eventOf}

NoSnap == [paid |-> 0, total |-> 1, payStatus |-> "pending",
           status |-> "outstanding", version |-> 0]

IdleJob == [pc |-> "idle", op |-> "none", ev |-> NoEvent, inv |-> NoInvoice,
            amt |-> 0, key |-> RefKey(NoRef), rzp |-> NoRef, id |-> 0,
            snap |-> NoSnap]

\* The steps at which a job's transaction holds an uncommitted payment row.
Claiming == {"read", "save"}

\* Mutant: the key is looked up, then inserted, without a unique index.
HoldsClaim_Ignored(w, i, k) == FALSE

HoldsClaim(w, i, k) ==
    /\ job[w].pc \in Claiming
    /\ job[w].op \in {"record", "reverse"}
    /\ job[w].key = k
    /\ TenantOf[job[w].inv] = TenantOf[i]

Goto(w, pc) == job' = [job EXCEPT ![w].pc = pc]

\* A request that ends with an error: its transaction rolls back.
Fail(w) == job' = [job EXCEPT ![w] = IdleJob]

\* A use case that returns payment `id`: a webhook delivery goes on to its
\* bookkeeping, any other request is answered.
Return(w, id) ==
    job' = [job EXCEPT ![w] =
              IF job[w].ev = NoEvent THEN IdleJob
              ELSE [IdleJob EXCEPT !.pc = "setevent", !.ev = job[w].ev,
                                   !.id = id]]

-----------------------------------------------------------------------------
Init ==
    /\ invoice = [i \in Invoices |->
                    [paid |-> 0, total |-> InitTotal[i],
                     payStatus |-> "pending", status |-> "outstanding",
                     version |-> 1]]
    /\ payments = {}
    /\ nextId = 1
    /\ eventOf = {}
    /\ processed = {}
    /\ job = [w \in Workers |-> IdleJob]
    /\ acked = {}
    /\ faults = 0

-----------------------------------------------------------------------------
(* Requests arrive.                                                        *)

Arrive(w, j) ==
    /\ job[w].pc = "idle"
    /\ job' = [job EXCEPT ![w] = j]
    /\ UNCHANGED <<db, processed, acked, faults>>

\* POST /payments: RecordPaymentUseCase.Execute.
SubmitPayment(w, r) ==
    Arrive(w, [IdleJob EXCEPT !.pc = "begin", !.op = "record", !.inv = r.inv,
                              !.amt = r.amt, !.key = idempotencyKey(r)])

\* POST /payments/{id}/reverse.
SubmitReversal(w, p) ==
    /\ Cardinality(payments) < MaxPayments
    /\ Arrive(w, [IdleJob EXCEPT !.pc = "begin", !.op = "reverse",
                                 !.id = p.id])

\* POST /payments/razorpay/verify with a valid signature.
SubmitVerify(w, g) ==
    Arrive(w, [IdleJob EXCEPT !.pc = "findrazorpay", !.op = "record",
                              !.inv = GwInv[g], !.key = RefKey(g),
                              !.rzp = g])

\* The void handler.
SubmitVoid(w, i) ==
    Arrive(w, [IdleJob EXCEPT !.pc = "begin", !.op = "void", !.inv = i])

\* GenerateInTx with line items for a booking that already has an invoice.
SubmitAttach(w, i) ==
    /\ invoice[i].total < MaxTotal
    /\ Arrive(w, [IdleJob EXCEPT !.pc = "begin", !.op = "attach", !.inv = i])

\* Razorpay delivers a signed event, for the first time or again.
DeliverWebhook(w, e) ==
    Arrive(w, [IdleJob EXCEPT !.pc = "lookup", !.ev = e,
                              !.inv = GwInv[e.gw]])

-----------------------------------------------------------------------------
(* The webhook use case around the ledger.                                 *)

\* The switch of ExecuteEvent, and mutants that miss a case.  A payment whose
\* notes name no known invoice is acknowledged without recording.
Dispatch_NoCaptured(e) ==
    IF e.type \in {"payment.failed", "payment.captured"} THEN "mark" ELSE "find"

Dispatch_NoRefund(e) ==
    IF e.type \in {"payment.failed", "refund.processed"} \/ GwInv[e.gw] = NoInvoice
    THEN "mark" ELSE "find"

Dispatch(e) ==
    IF \/ e.type = "payment.failed"
       \/ e.type # "refund.processed" /\ GwInv[e.gw] = NoInvoice
    THEN "mark" ELSE "find"

\* The in-memory cache, then the event id persisted on a payment row.
LookupEvent(w) ==
    LET e == job[w].ev IN
    /\ job[w].pc = "lookup"
    /\ IF e \in processed \/ RowsWithEvent(e) # {}
       THEN /\ processed' = processed \cup {e}
            /\ acked' = acked \cup {e}
            /\ job' = [job EXCEPT ![w] = IdleJob]
       ELSE /\ Goto(w, Dispatch(e))
            /\ UNCHANGED <<processed, acked>>
    /\ UNCHANGED <<db, faults>>

\* recordPaymentEntity / recordOrderEntity / processRefundEntity up to the
\* call of the record or reverse use case.  A refund finds the original by its
\* reference whichever tenant it belongs to.
FindExisting(w) ==
    LET e     == job[w].ev
        g     == e.gw
        i     == job[w].inv
        ref   == IF e.type = "order.paid" THEN GwOrder[g] ELSE g
        found == RowsWithKey(i, RefKey(ref)) \cup
                 (IF e.type = "payment.captured"
                  THEN RowsWithRazorpayId(i, g) ELSE {})
        originals == {p \in payments : p.key = RefKey(g)}
    IN
    /\ job[w].pc = "find"
    /\ IF e.type = "refund.processed"
       THEN IF originals = {}
            THEN Fail(w)
            ELSE \E p \in originals :
                   job' = [job EXCEPT ![w] =
                             [IdleJob EXCEPT !.pc = "begin", !.op = "reverse",
                                             !.ev = e, !.id = p.id]]
       ELSE IF found = {}
            THEN job' = [job EXCEPT ![w] =
                           [IdleJob EXCEPT !.pc = "begin", !.op = "record",
                                           !.ev = e, !.inv = i,
                                           !.amt = GwAmt[g],
                                           !.key = RefKey(ref)]]
            ELSE \E p \in found : Return(w, p.id)
    /\ UNCHANGED <<db, processed, acked, faults>>

\* Restart-safe dedup: UPDATE payments SET webhook_event_id ... under the
\* fallback tenant, so it matches no row of another tenant.
SetWebhookEventID(w) ==
    /\ job[w].pc = "setevent"
    /\ eventOf' = IF \E p \in payments : /\ p.id = job[w].id
                                         /\ TenantOf[p.inv] = DefaultTenant
                  THEN {x \in eventOf : x[1] # job[w].id}
                         \cup {<<job[w].id, job[w].ev>>}
                  ELSE eventOf
    /\ Goto(w, "mark")
    /\ UNCHANGED <<invoice, payments, nextId, processed, acked, faults>>

\* markProcessed and the 200 answer.
MarkProcessed(w) ==
    /\ job[w].pc = "mark"
    /\ processed' = processed \cup {job[w].ev}
    /\ acked' = acked \cup {job[w].ev}
    /\ job' = [job EXCEPT ![w] = IdleJob]
    /\ UNCHANGED <<db, faults>>

\* cleanProcessedLocked drops entries older than webhookEventTTL.
ExpireProcessed(e) ==
    /\ e \in processed
    /\ processed' = processed \ {e}
    /\ UNCHANGED <<db, job, acked, faults>>

-----------------------------------------------------------------------------
(* Checkout verification: two reads in transactions of their own.          *)

FindRazorpayPayment(w) ==
    /\ job[w].pc = "findrazorpay"
    /\ IF RowsWithRazorpayId(job[w].inv, job[w].rzp) # {}
       THEN Fail(w)     \* answered with the existing payment
       ELSE Goto(w, "balance")
    /\ UNCHANGED <<db, processed, acked, faults>>

ReadBalance(w) ==
    LET balance == OutstandingBalance(invoice[job[w].inv]) IN
    /\ job[w].pc = "balance"
    /\ IF balance <= 0
       THEN Fail(w)     \* ErrInvoiceAlreadySettled
       ELSE job' = [job EXCEPT ![w].pc = "begin", ![w].amt = balance]
    /\ UNCHANGED <<db, processed, acked, faults>>

-----------------------------------------------------------------------------
(* Units of work.                                                          *)

\* RecordPayment finds the invoice before it claims the key.
BeginRecord(w) ==
    /\ job[w].pc = "begin" /\ job[w].op = "record"
    /\ job' = [job EXCEPT ![w].pc = "claim", ![w].snap = invoice[job[w].inv]]
    /\ UNCHANGED <<db, processed, acked, faults>>

\* What a reversal books, and a mutant that books the payment again.
ReversalAmount_Same(p) == p.amt

ReversalAmount(p) == -p.amt

\* ReversePayment finds the original row and looks for its reversal.
BeginReverse(w) ==
    /\ job[w].pc = "begin" /\ job[w].op = "reverse"
    /\ \/ /\ \A p \in payments : p.id # job[w].id
          /\ Fail(w)    \* ErrPaymentNotFound
       \/ \E p \in payments :
            /\ p.id = job[w].id
            /\ LET done == RowsWithKey(p.inv, RevKey(p.id)) IN
               IF done # {}
               THEN \E r \in done : Return(w, r.id)
               ELSE job' = [job EXCEPT ![w].pc = "claim", ![w].inv = p.inv,
                                       ![w].amt = ReversalAmount(p),
                                       ![w].key = RevKey(p.id)]
    /\ UNCHANGED <<db, processed, acked, faults>>

\* SaveIfNew: INSERT ... ON CONFLICT DO NOTHING.  It waits while another
\* transaction holds the key and yields to a committed row.
SaveIfNew(w) ==
    LET i == job[w].inv
        existing == RowsWithKey(i, job[w].key)
    IN
    /\ job[w].pc = "claim"
    /\ \A v \in Workers \ {w} : ~HoldsClaim(v, i, job[w].key)
    /\ IF existing # {}
       THEN \E p \in existing : Return(w, p.id)
       ELSE Goto(w, IF job[w].op = "record" THEN "save" ELSE "read")
    /\ UNCHANGED <<db, processed, acked, faults>>

\* ReversePayment finds the invoice after it claimed the key.
ReadInvoice(w) ==
    /\ job[w].pc = "read"
    /\ job' = [job EXCEPT ![w].pc = "save", ![w].snap = invoice[job[w].inv]]
    /\ UNCHANGED <<db, processed, acked, faults>>

\* InvoiceAggregate.Void, and a mutant without the check for paid invoices.
CannotVoid_OnlyCancelled(inv) == inv.status = "cancelled"

CannotVoid(inv) == inv.status \in {"paid", "cancelled"}

\* Void reads the invoice and checks its status.
BeginVoid(w) ==
    LET inv == invoice[job[w].inv] IN
    /\ job[w].pc = "begin" /\ job[w].op = "void"
    /\ IF CannotVoid(inv)
       THEN Fail(w)
       ELSE job' = [job EXCEPT ![w].pc = "save", ![w].snap = inv]
    /\ UNCHANGED <<db, processed, acked, faults>>

\* GenerateInTx returns an invoice money has moved on untouched.
BeginAttach(w) ==
    LET inv == invoice[job[w].inv] IN
    /\ job[w].pc = "begin" /\ job[w].op = "attach"
    /\ IF inv.payStatus \in {"paid", "partially_paid"}
       THEN Fail(w)
       ELSE job' = [job EXCEPT ![w].pc = "save", ![w].snap = inv]
    /\ UNCHANGED <<db, processed, acked, faults>>

\* Mutant: the UPDATE has no version guard.
Conflict_Never(w) == FALSE

\* updateInvoiceFullSQL matches no row when the version moved on.
Conflict(w) == invoice[job[w].inv].version # job[w].snap.version

\* The invoice as invoiceRepository.Save writes it.
Saved(w, inv) == [invoice EXCEPT ![job[w].inv] =
                    [inv EXCEPT !.version = job[w].snap.version + 1]]

\* ApplyPayment, the versioned save, SetRazorpayFields and COMMIT.
CommitPayment(w) ==
    LET j == job[w] IN
    /\ j.pc = "save" /\ j.op \in {"record", "reverse"}
    /\ j.snap.status # "cancelled"
    /\ ~Conflict(w)
    /\ payments' = payments \cup
                     {[id |-> nextId, inv |-> j.inv, amt |-> j.amt,
                       key |-> j.key, rzp |-> j.rzp]}
    /\ invoice' = Saved(w, ApplyPayment(j.snap, j.amt))
    /\ nextId' = nextId + 1
    /\ Return(w, nextId)
    /\ UNCHANGED <<eventOf, processed, acked, faults>>

CommitVoid(w) ==
    /\ job[w].pc = "save" /\ job[w].op = "void"
    /\ ~Conflict(w)
    /\ invoice' = Saved(w, [job[w].snap EXCEPT !.status = "cancelled"])
    /\ Fail(w)
    /\ UNCHANGED <<payments, nextId, eventOf, processed, acked, faults>>

\* attachLineItems recomputes the total; one unit per attached line.
CommitAttach(w) ==
    /\ job[w].pc = "save" /\ job[w].op = "attach"
    /\ ~Conflict(w)
    /\ invoice' = Saved(w, [job[w].snap EXCEPT !.total = @ + 1])
    /\ Fail(w)
    /\ UNCHANGED <<payments, nextId, eventOf, processed, acked, faults>>

\* A cancelled invoice or a lost version race: ROLLBACK.
RollBack(w) ==
    /\ job[w].pc = "save"
    /\ \/ Conflict(w)
       \/ /\ job[w].op \in {"record", "reverse"}
          /\ job[w].snap.status = "cancelled"
    /\ Fail(w)
    /\ UNCHANGED <<db, processed, acked, faults>>

-----------------------------------------------------------------------------
(* Failures.                                                               *)

\* A statement fails, a connection drops or the client goes away.
DatabaseError(w) ==
    /\ faults < MaxFaults
    /\ job[w].pc # "idle"
    /\ Fail(w)
    /\ faults' = faults + 1
    /\ UNCHANGED <<db, processed, acked>>

\* The process dies: open transactions roll back, the event cache is lost.
Restart ==
    /\ faults < MaxFaults
    /\ job' = [w \in Workers |-> IdleJob]
    /\ processed' = {}
    /\ faults' = faults + 1
    /\ UNCHANGED <<db, acked>>

-----------------------------------------------------------------------------
Step(w) ==
    \/ LookupEvent(w) \/ FindExisting(w) \/ SetWebhookEventID(w)
    \/ MarkProcessed(w)
    \/ FindRazorpayPayment(w) \/ ReadBalance(w)
    \/ BeginRecord(w) \/ BeginReverse(w) \/ BeginVoid(w) \/ BeginAttach(w)
    \/ SaveIfNew(w) \/ ReadInvoice(w)
    \/ CommitPayment(w) \/ CommitVoid(w) \/ CommitAttach(w) \/ RollBack(w)

Request(w) ==
    \/ \E r \in Requests : SubmitPayment(w, r)
    \/ \E p \in payments : SubmitReversal(w, p)
    \/ \E g \in Verifiable : SubmitVerify(w, g)
    \/ \E i \in Voidable : SubmitVoid(w, i)
    \/ \E i \in Invoices : SubmitAttach(w, i)
    \/ \E e \in Events : DeliverWebhook(w, e)

Next ==
    \/ \E w \in Workers : Request(w) \/ Step(w) \/ DatabaseError(w)
    \/ \E e \in Events : ExpireProcessed(e)
    \/ Restart

Spec == Init /\ [][Next]_vars

\* A request in flight runs to its end, and Razorpay redelivers an event until
\* it is answered with 200.
Fairness ==
    /\ \A w \in Workers : WF_vars(Step(w))
    /\ \A e \in Events :
         SF_vars(e \notin acked /\ \E w \in Workers : DeliverWebhook(w, e))

FairSpec == Spec /\ Fairness

-----------------------------------------------------------------------------
(* Properties.                                                             *)

Keys == ({"ref"} \X (Refs \cup {NoRef}))
          \cup ({"reversal"} \X Nat)
          \cup ({"inv"} \X Invoices \X Nat \X {r.day : r \in Requests})

InvoiceRow == [paid : Nat, total : Nat \ {0}, payStatus : PaymentStatuses,
               status : InvoiceStatuses, version : Nat]

PaymentRow == [id : Nat \ {0}, inv : Invoices, amt : Int, key : Keys,
               rzp : GwPays \cup {NoRef}]

Job == [pc : {"idle", "lookup", "find", "setevent", "mark", "findrazorpay",
              "balance", "begin", "claim", "read", "save"},
        op : {"none", "record", "reverse", "void", "attach"},
        ev : Events \cup {NoEvent},
        inv : Invoices \cup {NoInvoice},
        amt : Int,
        key : Keys,
        rzp : GwPays \cup {NoRef},
        id : Nat,
        snap : InvoiceRow]

\* Every table, the event cache and every request in flight stays within its
\* declared shape: in particular paid_amount never goes negative.
TypeOK ==
    /\ invoice \in [Invoices -> InvoiceRow]
    /\ payments \subseteq PaymentRow
    /\ nextId \in Nat \ {0}
    /\ eventOf \subseteq Nat \X Events
    /\ processed \subseteq Events
    /\ job \in [Workers -> Job]
    /\ acked \subseteq Events
    /\ faults \in Nat

\* No tenant has two payment rows with the same idempotency key, however the
\* replays, webhook duplicates, verifications and reversals interleave.
KeysUnique ==
    \A p, q \in payments :
        p.key = q.key /\ TenantOf[p.inv] = TenantOf[q.inv] => p = q

\* A reversal row undoes exactly one recorded payment: same invoice, opposite
\* amount (ReversePaymentUseCase); with KeysUnique, at most once.
ReversalExact ==
    \A r \in payments, n \in 1..nextId :
        r.key = RevKey(n) =>
            \E p \in payments : p.id = n /\ p.inv = r.inv /\ r.amt = -p.amt

\* The statuses shown for an invoice agree with its balance in every state
\* (ApplyPayment's switch), also after reversals, voids and attached lines.
StatusMatchesBalance ==
    \A i \in Invoices :
        LET inv == invoice[i] IN
        /\ inv.payStatus = PaymentStatusFor(inv.paid, inv.total)
        /\ inv.status # "cancelled" =>
              (inv.status = "paid" <=> inv.paid >= inv.total)

\* The paid amount of every invoice is the total of its payment rows: the clamp
\* at zero in ApplyPayment never hides a discrepancy.
PaidMatchesLedger ==
    \A i \in Invoices : invoice[i].paid = Total({p \in payments : p.inv = i})

\* What the atomic ledger sees of the tables: no versions, no statuses that
\* follow from the balance, no gateway ids.
Account == [i \in Invoices |->
              [paid |-> invoice[i].paid, total |-> invoice[i].total,
               cancelled |-> invoice[i].status = "cancelled"]]

Rows == {[id |-> p.id, inv |-> p.inv, amt |-> p.amt, key |-> p.key] :
           p \in payments}

Atomic == INSTANCE AtomicLedger WITH account <- Account, rows <- Rows

\* The requests, transactions, retries and webhooks of the payment code
\* implement the atomic ledger: every step of theirs is one posting, one void,
\* one repricing of an unpaid invoice, or invisible.
ImplementsAtomicLedger == Atomic!Spec

\* What event e asks of the ledger is in it.
Recorded(e) ==
    LET rows == {p \in payments : TenantOf[p.inv] = TenantOf[GwInv[e.gw]]}
    IN CASE e.type = "payment.captured" /\ GwInv[e.gw] # NoInvoice ->
              \E p \in rows : p.key = RefKey(e.gw)
         [] e.type = "order.paid" /\ GwInv[e.gw] # NoInvoice ->
              \E p \in rows : p.key = RefKey(GwOrder[e.gw])
         [] e.type = "refund.processed" ->
              \E p, r \in payments : /\ p.key = RefKey(e.gw)
                                    /\ r.key = RevKey(p.id)
                                    /\ TenantOf[r.inv] = TenantOf[p.inv]
         [] OTHER -> TRUE

\* An event answered with 200 that names an invoice has its row in the ledger:
\* the answer never runs ahead of the commit, whatever crashes in between.
AckedIsRecorded == \A e \in acked : Recorded(e)

\* "Never double count" (recordPaymentEntity): the money of one gateway payment
\* is booked once, whichever of /verify and the webhook events reports it.
NeverDoubleCount ==
    \A g \in GwPays :
        Cardinality({p \in payments : /\ p.inv = GwInv[g]
                                      /\ p.key \in {RefKey(g), RefKey(GwOrder[g])}})
          <= 1

\* Optimistic concurrency loses nothing: paid_amount moves only together with
\* a new payment row of that invoice, by that row's amount.
NoLostUpdate ==
    [][\A i \in Invoices :
         invoice'[i].paid # invoice[i].paid =>
           \E p \in payments' \ payments :
             /\ p.inv = i
             /\ invoice'[i].paid = (IF invoice[i].paid + p.amt < 0 THEN 0
                                    ELSE invoice[i].paid + p.amt)]_vars

\* Voiding is final: a payment that raced with the void cannot reopen the
\* invoice or move its balance.
VoidIsFinal ==
    [][\A i \in Invoices :
         invoice[i].status = "cancelled" =>
           /\ invoice'[i].status = "cancelled"
           /\ invoice'[i].paid = invoice[i].paid]_vars

\* Money the gateway captured ends up in the ledger, through retries, version
\* conflicts, lost caches and restarts, unless its invoice is cancelled.
CapturedIsCredited ==
    \A e \in Events : e.type = "payment.captured" /\ GwInv[e.gw] # NoInvoice =>
        <>(\/ \E p \in payments : p.key = RefKey(e.gw)
           \/ invoice[GwInv[e.gw]].status = "cancelled")

\* A refund that overtakes its capture is not lost: the original is reversed
\* in the end, unless the invoice is cancelled.
RefundIsReversed ==
    \A e \in Events : e.type = "refund.processed" /\ GwInv[e.gw] # NoInvoice =>
        <>(\/ \E p, r \in payments : p.key = RefKey(e.gw) /\ r.key = RevKey(p.id)
           \/ invoice[GwInv[e.gw]].status = "cancelled")

=============================================================================
