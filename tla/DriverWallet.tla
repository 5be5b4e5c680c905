---------------------------- MODULE DriverWallet ----------------------------
(***************************************************************************)
(* The wallet of one driver (internal/settlement): trip settlements credit *)
(* it, payouts debit it, and the provider's webhook settles a payout or    *)
(* gives the money back.                                                   *)
(*                                                                         *)
(* Transactions are SERIALIZABLE, so each is one step, or none when the    *)
(* database refuses it.  What the code reads before it opens the           *)
(* transaction is a step of its own, and may be stale inside it.           *)
(***************************************************************************)
EXTENDS Integers, Amounts

CONSTANTS
    Trips,
    Fare,           \* the amounts of each trip's settlement, by entry type
    Keys,           \* idempotency keys of payout requests
    Amount,         \* the amount requested under each key
    MinPayout,      \* minPayoutLimit
    Events,         \* provider events: the payout and its reported status
    Workers,        \* requests that may be in flight at once
    MaxFaults,      \* bound on database errors and crashes
    None

EntryTypes ==
    {"TRIP_EARNING", "COMMISSION", "TOLL_ADJUSTMENT", "ADVANCE_DEDUCTION",
     "PENALTY"}

ProviderStatuses == {"processed", "failed", "reversed", "pending"}

PayoutStatuses == {"initiated", "processing", "paid", "failed", "reversed"}

ASSUME WalletAssumption ==
    /\ Fare \in [Trips -> [EntryTypes -> Nat]]
    /\ Amount \in [Keys -> Nat \ {0}]
    /\ MinPayout \in Nat /\ MaxFaults \in Nat
    /\ Events \subseteq [key : Keys, status : ProviderStatuses]
    /\ None \notin PayoutStatuses

VARIABLES
    settled,    \* driver_settlements: trips with a header
    entries,    \* driver_ledger_entries
    lastId,     \* entry ids up to this one are used
    balance,    \* balance_after of the newest entry
    payout,     \* payout_instructions: the status under each key, or None
    seen,       \* provider_events
    acked,      \* provider events answered with 200
    job,        \* the request each worker is executing
    faults

ledger == <<entries, lastId, balance>>

vars == <<settled, ledger, payout, seen, acked, job, faults>>

IdleJob == [pc |-> "idle", arg |-> None]

Init ==
    /\ settled = {}
    /\ entries = {} /\ lastId = 0 /\ balance = 0
    /\ payout = [k \in Keys |-> None]
    /\ seen = {} /\ acked = {}
    /\ job = [w \in Workers |-> IdleJob]
    /\ faults = 0

-----------------------------------------------------------------------------
(* Ledger entries: reference_type, reference_id and entry_type identify    *)
(* what an entry is for; nothing in the schema makes them unique.          *)

Line(t, type) == <<"settlement", t, type>>
Debit(k)      == <<"payout", k, "PAYOUT">>
Credit(k)     == <<"payout_reversal", k, "PAYOUT_REVERSAL">>

Posted(ref) == \E e \in entries : e.ref = ref

expectedEntryTypes(t) == {type \in EntryTypes : Fare[t][type] > 0}

\* The order in which appendSettlementLedger writes them.
Place == [type \in EntryTypes |->
            CASE type = "TRIP_EARNING"      -> 1
              [] type = "COMMISSION"        -> 2
              [] type = "TOLL_ADJUSTMENT"   -> 3
              [] type = "ADVANCE_DEDUCTION" -> 4
              [] type = "PENALTY"           -> 5]

Signed(t, type) ==
    IF type \in {"TRIP_EARNING", "TOLL_ADJUSTMENT"} THEN Fare[t][type]
    ELSE -Fare[t][type]

\* The entries of a settlement, after the entry with this id; the mutant
\* forgets the tax withheld.
SettlementEntries_NoTax(t, after) ==
    {[ref |-> Line(t, x), amt |-> Signed(t, x), id |-> after + Place[x]] :
        x \in expectedEntryTypes(t) \ {"PENALTY"}}

SettlementEntries(t, after) ==
    {[ref |-> Line(t, x), amt |-> Signed(t, x), id |-> after + Place[x]] :
        x \in expectedEntryTypes(t)}

\* What they add to the balance.
Net(t) ==
    Fare[t]["TRIP_EARNING"] - Fare[t]["COMMISSION"]
      + Fare[t]["TOLL_ADJUSTMENT"] - Fare[t]["ADVANCE_DEDUCTION"]
      - Fare[t]["PENALTY"]

\* appendLedgerEntryTx: one entry on top of the newest balance, which the
\* mutant forgets to read.
AppendLedgerEntry_NoCarry(ref, amt) ==
    /\ entries' = entries \cup {[ref |-> ref, amt |-> amt, id |-> lastId + 1]}
    /\ lastId' = lastId + 1
    /\ balance' = amt

AppendLedgerEntry(ref, amt) ==
    /\ entries' = entries \cup {[ref |-> ref, amt |-> amt, id |-> lastId + 1]}
    /\ lastId' = lastId + 1
    /\ balance' = balance + amt

Goto(w, pc) == job' = [job EXCEPT ![w].pc = pc]

\* The request is answered.
Done(w) == job' = [job EXCEPT ![w] = IdleJob]

Arrive(w, pc, arg) ==
    /\ job[w] = IdleJob
    /\ job' = [job EXCEPT ![w] = [pc |-> pc, arg |-> arg]]
    /\ UNCHANGED <<settled, ledger, payout, seen, acked, faults>>

Fault == faults < MaxFaults /\ faults' = faults + 1

\* A look-up whose error the code ignores finds nothing if there is nothing to
\* find, or if it fails.
FindsNothing(present) == IF present THEN Fault ELSE UNCHANGED faults

-----------------------------------------------------------------------------
(* Settlements.                                                            *)

SubmitSettlement(w, t) == Arrive(w, "settle", t)

\* GetSettlementByTripID, before the transaction.
FindSettlement(w) ==
    /\ job[w].pc = "settle"
    /\ \/ /\ job[w].arg \in settled
          /\ Goto(w, "backfill")
          /\ UNCHANGED faults
       \/ /\ FindsNothing(job[w].arg \in settled)
          /\ Goto(w, "create")
    /\ UNCHANGED <<settled, ledger, payout, seen, acked>>

\* The count inside the transaction, and a mutant that trusts the first read.
AlreadySettled_Unchecked(t) == FALSE

AlreadySettled(t) == t \in settled

\* The transaction: header and ledger entries, or the settlement another
\* request created meanwhile.
CreateSettlement(w) ==
    LET t == job[w].arg IN
    /\ job[w].pc = "create"
    /\ IF AlreadySettled(t)
       THEN UNCHANGED <<settled, ledger>>
       ELSE /\ settled' = settled \cup {t}
            /\ entries' = entries \cup SettlementEntries(t, lastId)
            /\ lastId' = lastId + 5
            /\ balance' = balance + Net(t)
    /\ Done(w)
    /\ UNCHANGED <<payout, seen, acked, faults>>

\* backfillOwnLedger finds every expected entry and writes nothing.  Its other
\* branch, for a header without its entries, needs a state HeaderComplete
\* excludes: a request in it would be stuck here.
BackfillOwnLedger(w) ==
    /\ job[w].pc = "backfill"
    /\ \A x \in expectedEntryTypes(job[w].arg) : Posted(Line(job[w].arg, x))
    /\ Done(w)
    /\ UNCHANGED <<settled, ledger, payout, seen, acked, faults>>

-----------------------------------------------------------------------------
(* Payouts.                                                                *)

SubmitPayout(w, k) == Arrive(w, "payout", k)

\* GetPayoutByIdempotencyKey, before the transaction.
FindPayout(w) ==
    /\ job[w].pc = "payout"
    /\ \/ /\ payout[job[w].arg] # None
          /\ Done(w)
          /\ UNCHANGED faults
       \/ /\ FindsNothing(payout[job[w].arg] # None)
          /\ Goto(w, "debit")
    /\ UNCHANGED <<settled, ledger, payout, seen, acked>>

\* ValidatePayoutEligibility for a verified account, and a mutant that does
\* not look at the balance.
Eligible_NoBalance(k) == Amount[k] >= MinPayout

Eligible(k) == Amount[k] >= MinPayout /\ Amount[k] <= balance

\* The transaction under the driver's lock: the key again, the balance, the
\* instruction and its debit.
InitiatePayout(w) ==
    LET k == job[w].arg IN
    /\ job[w].pc = "debit"
    /\ IF payout[k] = None /\ Eligible(k)
       THEN /\ payout' = [payout EXCEPT ![k] = "initiated"]
            /\ AppendLedgerEntry(Debit(k), -Amount[k])
       ELSE UNCHANGED <<ledger, payout>>
    /\ Done(w)
    /\ UNCHANGED <<settled, seen, acked, faults>>

-----------------------------------------------------------------------------
(* The provider's webhook.                                                 *)

\* The outcome an event reports; the mutant stores an unknown status as it is.
NewStatus_Raw(e) ==
    CASE e.status = "processed" -> "paid"
      [] e.status \in {"failed", "reversed"} -> e.status
      [] OTHER -> e.status

NewStatus(e) ==
    CASE e.status = "processed" -> "paid"
      [] e.status \in {"failed", "reversed"} -> e.status
      [] OTHER -> "processing"

\* PayoutInstruction.CanTransitionTo; the mutant has paid as a final status.
CanTransitionTo_PaidFinal(from, to) ==
    \/ from = to
    \/ from = "initiated"
    \/ from = "processing" /\ to \in {"paid", "failed", "reversed"}

CanTransitionTo(from, to) ==
    \/ from = to
    \/ from = "initiated"
    \/ from = "processing" /\ to \in {"paid", "failed", "reversed"}
    \/ from = "paid" /\ to = "reversed"

\* The provider reports on an instruction it has, for the first time or again,
\* each report under its own X-Razorpay-Event-Id (the id that is made up without
\* the header, said to be for local tests, is left out).
DeliverEvent(w, e) ==
    /\ payout[e.key] # None
    /\ Arrive(w, "lookup", e)

\* IsProviderEventProcessed.
LookupProviderEvent(w) ==
    LET e == job[w].arg IN
    /\ job[w].pc = "lookup"
    /\ \/ /\ e \in seen
          /\ acked' = acked \cup {e}
          /\ Done(w)
          /\ UNCHANGED faults
       \/ /\ FindsNothing(e \in seen)
          /\ Goto(w, "validate")
          /\ UNCHANGED acked
    /\ UNCHANGED <<settled, ledger, payout, seen>>

\* The payout is read and the transition checked, before the transaction; an
\* illegal transition is answered with an error.
ValidateTransition(w) ==
    LET e == job[w].arg IN
    /\ job[w].pc = "validate"
    /\ IF CanTransitionTo(payout[e.key], NewStatus(e))
       THEN Goto(w, "apply") ELSE Done(w)
    /\ UNCHANGED <<settled, ledger, payout, seen, acked, faults>>

\* Which outcomes give the money back; the mutant forgets failed payouts.
Compensates_Reversed(status) == status = "reversed"

Compensates(status) == status \in {"failed", "reversed"}

\* HasCompensatingLedgerEntry, and a mutant without it.
Compensated_Never(k) == FALSE

Compensated(k) == Posted(Credit(k))

\* The transaction: status, compensating credit and processed marker.  When a
\* concurrent delivery recorded the marker first, SQLite commits the rest and
\* Postgres, whose transaction the failed INSERT aborted, does not.
ApplyOutcome(w) ==
    LET e == job[w].arg
        k == e.key
    IN
    /\ job[w].pc = "apply"
    /\ Done(w)
    /\ \/ /\ payout' = [payout EXCEPT ![k] = NewStatus(e)]
          /\ IF Compensates(NewStatus(e)) /\ ~Compensated(k)
             THEN AppendLedgerEntry(Credit(k), Amount[k])
             ELSE UNCHANGED ledger
          /\ seen' = seen \cup {e}
          /\ acked' = acked \cup {e}
       \/ /\ e \in seen
          /\ UNCHANGED <<ledger, payout, seen, acked>>
    /\ UNCHANGED <<settled, faults>>

-----------------------------------------------------------------------------
\* A statement fails, the database refuses to serialize the transaction, or
\* the process dies.
DatabaseError(w) ==
    /\ Fault
    /\ job[w] # IdleJob
    /\ Done(w)
    /\ UNCHANGED <<settled, ledger, payout, seen, acked>>

Request(w) ==
    \/ \E t \in Trips : SubmitSettlement(w, t)
    \/ \E k \in Keys : SubmitPayout(w, k)
    \/ \E e \in Events : DeliverEvent(w, e)

Step(w) ==
    \/ FindSettlement(w) \/ CreateSettlement(w) \/ BackfillOwnLedger(w)
    \/ FindPayout(w) \/ InitiatePayout(w)
    \/ LookupProviderEvent(w) \/ ValidateTransition(w) \/ ApplyOutcome(w)

Next == \E w \in Workers : Request(w) \/ Step(w) \/ DatabaseError(w)

Spec == Init /\ [][Next]_vars

\* Requests in flight run to their end, and the provider redelivers an event
\* until it is answered with 200.
Fairness ==
    /\ \A w \in Workers : WF_vars(Step(w))
    /\ \A e \in Events :
         SF_vars(e \notin acked /\ \E w \in Workers : DeliverEvent(w, e))

FairSpec == Spec /\ Fairness

-----------------------------------------------------------------------------
(* Properties.                                                             *)

Refs == ({"settlement"} \X Trips \X EntryTypes)
          \cup ({"payout"} \X Keys \X {"PAYOUT"})
          \cup ({"payout_reversal"} \X Keys \X {"PAYOUT_REVERSAL"})

Jobs == [pc : {"idle"}, arg : {None}]
          \cup [pc : {"settle", "create", "backfill"}, arg : Trips]
          \cup [pc : {"payout", "debit"}, arg : Keys]
          \cup [pc : {"lookup", "validate", "apply"}, arg : Events]

\* Tables and requests keep their shape; a payout has a known status.
WalletTypeOK ==
    /\ settled \subseteq Trips
    /\ entries \subseteq [ref : Refs, amt : Int, id : Nat]
    /\ lastId \in Nat /\ balance \in Int
    /\ payout \in [Keys -> PayoutStatuses \cup {None}]
    /\ seen \subseteq Events /\ acked \subseteq Events
    /\ job \in [Workers -> Jobs]
    /\ faults \in Nat

\* The ledger holds nothing twice: no line of a settlement, no debit and no
\* credit of a payout, although only the code's checks prevent it.
BookedOnce == \A e, f \in entries : e.ref = f.ref => e = f

\* A settlement header stands for all of its ledger entries, so a retry finds
\* nothing to back-fill (CalculateAndCreateSettlement).
HeaderComplete ==
    \A t \in Trips, x \in EntryTypes :
        Posted(Line(t, x)) <=> t \in settled /\ x \in expectedEntryTypes(t)

\* Every payout instruction has its debit, and a credit only follows a debit;
\* a payout shown as failed or reversed has been credited back.
PayoutBooked ==
    \A k \in Keys :
        /\ payout[k] # None <=> Posted(Debit(k))
        /\ Posted(Credit(k)) => Posted(Debit(k))
        /\ payout[k] \in {"failed", "reversed"} => Posted(Credit(k))

\* The driver is never paid more than was earned, when no settlement deducts
\* more than it earns: payouts that race see each other's debit.
NeverOverdrawn == balance >= 0

\* The balance carried along from entry to entry is the total of the entries.
BalanceMatchesEntries == balance = Total(entries)

\* A provider event answered with 200 took effect, through redeliveries, lost
\* lookups and crashes: the payout has an outcome, and money that did not
\* arrive is back in the wallet.
AckedIsApplied ==
    \A e \in acked :
        /\ payout[e.key] \notin {None, "initiated"}
        /\ e.status \in {"failed", "reversed"} => Posted(Credit(e.key))

\* Money the provider returned is credited to the driver in the end, in
\* whatever order its events arrive.
ReversalIsCredited ==
    \A e \in Events : e.status = "reversed" =>
        (payout[e.key] # None ~> Posted(Credit(e.key)))

=============================================================================
