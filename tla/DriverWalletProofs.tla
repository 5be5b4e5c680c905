------------------------- MODULE DriverWalletProofs -------------------------
(***************************************************************************)
(* Theorems about DriverWallet, for any trips, payout keys, provider       *)
(* events and number of requests in flight.                                *)
(***************************************************************************)
EXTENDS DriverWallet, AmountsProofs, TLAPS

\* A webhook request is about an instruction that exists.
EventKnown ==
    \A w \in Workers : job[w].pc \in {"lookup", "validate", "apply"} =>
        payout[job[w].arg.key] # None

\* An event with a processed marker took effect, so it may be answered with
\* 200 whenever the marker is found.
SeenIsApplied ==
    \A e \in seen :
        /\ payout[e.key] \notin {None, "initiated"}
        /\ e.status \in {"failed", "reversed"} => Posted(Credit(e.key))

Books == BookedOnce /\ HeaderComplete /\ PayoutBooked

\* The inductive invariant.
WalletInv ==
    WalletTypeOK /\ Books /\ SeenIsApplied /\ AckedIsApplied /\ EventKnown

-----------------------------------------------------------------------------
(* Facts about references and requests.                                    *)

\* Entries for different purposes have different references.
LEMMA RefsDistinct ==
    /\ \A t, u, x, y : Line(t, x) = Line(u, y) <=> t = u /\ x = y
    /\ \A k, l : Debit(k) = Debit(l) <=> k = l
    /\ \A k, l : Credit(k) = Credit(l) <=> k = l
    /\ \A t, x, k : Line(t, x) # Debit(k) /\ Line(t, x) # Credit(k)
    /\ \A k, l : Debit(k) # Credit(l)
BY DEF Line, Debit, Credit

\* The references used are references of the ledger.
LEMMA RefsTyped ==
    /\ \A t \in Trips, x \in EntryTypes : Line(t, x) \in Refs
    /\ \A k \in Keys : Debit(k) \in Refs /\ Credit(k) \in Refs
BY DEF Line, Debit, Credit, Refs

\* What a request works on.
LEMMA JobArg ==
    ASSUME NEW j \in Jobs
    PROVE  /\ j = [pc |-> j.pc, arg |-> j.arg]
           /\ j.pc \in {"settle", "create", "backfill"} => j.arg \in Trips
           /\ j.pc \in {"payout", "debit"} => j.arg \in Keys
           /\ j.pc \in {"lookup", "validate", "apply"} => j.arg \in Events
BY DEF Jobs

LEMMA EventKey ==
    ASSUME NEW e \in Events
    PROVE  e.key \in Keys /\ e.status \in ProviderStatuses
BY WalletAssumption

\* A request that ends leaves the other requests as they are.
LEMMA DoneStep ==
    ASSUME job \in [Workers -> Jobs], EventKnown, NEW w \in Workers, Done(w),
           \A k \in Keys : payout[k] # None => payout'[k] # None
    PROVE  job' \in [Workers -> Jobs] /\ EventKnown'
<1>1. IdleJob \in Jobs
  BY DEF IdleJob, Jobs
<1>2. job' \in [Workers -> Jobs]
  BY <1>1 DEF Done
<1>3. ASSUME NEW q \in Workers, job'[q].pc \in {"lookup", "validate", "apply"}
      PROVE  payout'[job'[q].arg.key] # None
  <2>1. q # w /\ job'[q] = job[q]
    BY <1>3 DEF Done, IdleJob
  <2>2. job[q].arg.key \in Keys
    BY <1>3, <2>1, JobArg, EventKey
  <2> QED
    BY <1>3, <2>1, <2>2 DEF EventKnown
<1> QED
  BY <1>2, <1>3 DEF EventKnown

\* A request that moves on keeps its argument.
LEMMA GotoStep ==
    ASSUME job \in [Workers -> Jobs], EventKnown, NEW w \in Workers, NEW pc,
           Goto(w, pc), [job[w] EXCEPT !.pc = pc] \in Jobs,
           pc \in {"validate", "apply"} =>
               job[w].pc \in {"lookup", "validate", "apply"},
           pc # "lookup", payout' = payout
    PROVE  job' \in [Workers -> Jobs] /\ EventKnown'
<1>1. job' \in [Workers -> Jobs]
  BY DEF Goto
<1>2. ASSUME NEW q \in Workers, job'[q].pc \in {"lookup", "validate", "apply"}
      PROVE  payout'[job'[q].arg.key] # None
  <2>1. CASE q # w
    BY <1>2, <2>1 DEF Goto, EventKnown
  <2>2. CASE q = w
    <3>1. job'[q] = [pc |-> pc, arg |-> job[w].arg]
      BY <2>2, JobArg DEF Goto
    <3> QED
      BY <1>2, <2>2, <3>1 DEF EventKnown
  <2> QED
    BY <2>1, <2>2
<1> QED
  BY <1>1, <1>2 DEF EventKnown

\* New entries under references not used before keep the ledger free of
\* repetitions, and nothing that was posted goes away.
LEMMA AppendStep ==
    ASSUME BookedOnce, NEW N, entries' = entries \cup N,
           \A e, f \in N : e.ref = f.ref => e = f,
           \A e \in N : ~Posted(e.ref)
    PROVE  /\ BookedOnce'
           /\ \A ref : Posted(ref)' <=> Posted(ref) \/ \E e \in N : e.ref = ref
BY DEF BookedOnce, Posted

-----------------------------------------------------------------------------
(* The initial state.                                                      *)

LEMMA InitInv == Init => WalletInv
<1> SUFFICES ASSUME Init PROVE WalletInv
  OBVIOUS
<1>1. IdleJob \in Jobs /\ IdleJob.pc = "idle"
  BY DEF IdleJob, Jobs
<1>2. WalletTypeOK
  BY <1>1, WalletAssumption DEF Init, WalletTypeOK
<1>3. Books
  BY WalletAssumption DEF Init, Books, BookedOnce, HeaderComplete, PayoutBooked,
                          Posted, PayoutStatuses
<1>4. EventKnown
  BY <1>1 DEF Init, EventKnown
<1> QED
  BY <1>2, <1>3, <1>4 DEF Init, WalletInv, SeenIsApplied, AckedIsApplied

-----------------------------------------------------------------------------
(* One lemma per step that writes, and one for the rest.                   *)

\* Steps that write no table.
LEMMA QuietStep ==
    ASSUME WalletInv, UNCHANGED <<settled, ledger, payout, seen, acked>>,
           job' \in [Workers -> Jobs], EventKnown', faults' \in Nat
    PROVE  WalletInv'
BY DEF WalletInv, WalletTypeOK, Books, BookedOnce, HeaderComplete, PayoutBooked,
       Posted, SeenIsApplied, AckedIsApplied, ledger

\* A request arrives.
LEMMA RequestStep ==
    ASSUME WalletInv, NEW w \in Workers, Request(w)
    PROVE  WalletInv'
<1>1. PICK pc, arg : /\ Arrive(w, pc, arg)
                     /\ [pc |-> pc, arg |-> arg] \in Jobs
                     /\ pc \in {"lookup", "validate", "apply"} =>
                            payout[arg.key] # None
  BY DEF Request, SubmitSettlement, SubmitPayout, DeliverEvent, Jobs
<1>2. job' \in [Workers -> Jobs]
  BY <1>1 DEF Arrive, WalletInv, WalletTypeOK
<1>3. EventKnown'
  BY <1>1 DEF Arrive, EventKnown, WalletInv, WalletTypeOK
<1> QED
  BY <1>1, <1>2, <1>3, QuietStep DEF Arrive, WalletInv, WalletTypeOK

\* A database error or a crash.
LEMMA ErrorStep ==
    ASSUME WalletInv, NEW w \in Workers, DatabaseError(w)
    PROVE  WalletInv'
<1>1. job' \in [Workers -> Jobs] /\ EventKnown'
  BY DoneStep DEF DatabaseError, WalletInv, WalletTypeOK
<1> QED
  BY <1>1, QuietStep DEF DatabaseError, Fault, WalletInv, WalletTypeOK

\* The reads before a transaction, and the back-fill that finds nothing to do.
LEMMA ReadStep ==
    ASSUME WalletInv, NEW w \in Workers,
           \/ FindSettlement(w) \/ BackfillOwnLedger(w) \/ FindPayout(w)
           \/ ValidateTransition(w)
    PROVE  WalletInv'
<1>0. UNCHANGED <<settled, ledger, payout, seen, acked>>
  BY DEF FindSettlement, BackfillOwnLedger, FindPayout, ValidateTransition
<1>1. faults' \in Nat
  BY DEF FindSettlement, BackfillOwnLedger, FindPayout, ValidateTransition,
         FindsNothing, Fault, WalletInv, WalletTypeOK
<1>2. job[w] \in Jobs
  BY DEF WalletInv, WalletTypeOK
<1>3. CASE Done(w)
  BY <1>0, <1>1, <1>3, DoneStep, QuietStep DEF WalletInv, WalletTypeOK
<1>4. CASE /\ FindSettlement(w)
           /\ Goto(w, "backfill") \/ Goto(w, "create")
  <2>1. /\ [job[w] EXCEPT !.pc = "backfill"] \in Jobs
        /\ [job[w] EXCEPT !.pc = "create"] \in Jobs
    BY <1>2, <1>4, JobArg DEF FindSettlement, Jobs
  <2> QED
    BY <1>0, <1>1, <1>4, <2>1, GotoStep, QuietStep DEF WalletInv, WalletTypeOK
<1>5. CASE FindPayout(w) /\ Goto(w, "debit")
  <2>1. [job[w] EXCEPT !.pc = "debit"] \in Jobs
    BY <1>2, <1>5, JobArg DEF FindPayout, Jobs
  <2> QED
    BY <1>0, <1>1, <1>5, <2>1, GotoStep, QuietStep DEF WalletInv, WalletTypeOK
<1>6. CASE ValidateTransition(w) /\ Goto(w, "apply")
  <2>1. job[w].pc = "validate" /\ [job[w] EXCEPT !.pc = "apply"] \in Jobs
    BY <1>2, <1>6, JobArg DEF ValidateTransition, Jobs
  <2> QED
    BY <1>0, <1>1, <1>6, <2>1, GotoStep, QuietStep DEF WalletInv, WalletTypeOK
<1> QED
  BY <1>3, <1>4, <1>5, <1>6
     DEF FindSettlement, BackfillOwnLedger, FindPayout, ValidateTransition

\* The look-up of an event: what is found processed is answered with 200.
LEMMA LookupStep ==
    ASSUME WalletInv, NEW w \in Workers, LookupProviderEvent(w)
    PROVE  WalletInv'
<1>1. job[w] \in Jobs /\ job[w].pc = "lookup" /\ job[w].arg \in Events
  BY JobArg DEF LookupProviderEvent, WalletInv, WalletTypeOK
<1>2. CASE acked' = acked
  <2>1. [job[w] EXCEPT !.pc = "validate"] \in Jobs
    BY <1>1, JobArg DEF Jobs
  <2>2. job' \in [Workers -> Jobs] /\ EventKnown'
    BY <1>1, <2>1, DoneStep, GotoStep
       DEF LookupProviderEvent, ledger, WalletInv, WalletTypeOK
  <2> QED
    BY <1>2, <2>2, QuietStep
       DEF LookupProviderEvent, FindsNothing, Fault, WalletInv, WalletTypeOK
<1>3. CASE /\ job[w].arg \in seen
           /\ acked' = acked \cup {job[w].arg}
           /\ Done(w) /\ faults' = faults
  <2>1. UNCHANGED <<settled, ledger, payout, seen>>
    BY DEF LookupProviderEvent
  <2>2. job' \in [Workers -> Jobs] /\ EventKnown'
    BY <1>3, <2>1, DoneStep DEF WalletInv, WalletTypeOK
  <2>3. AckedIsApplied' /\ SeenIsApplied'
    BY <1>3, <2>1
       DEF WalletInv, AckedIsApplied, SeenIsApplied, Posted, ledger
  <2>4. Books'
    BY <2>1 DEF WalletInv, Books, BookedOnce, HeaderComplete, PayoutBooked,
                Posted, ledger
  <2>5. WalletTypeOK'
    BY <1>1, <1>3, <2>1, <2>2 DEF WalletInv, WalletTypeOK, ledger
  <2> QED
    BY <2>2, <2>3, <2>4, <2>5 DEF WalletInv
<1> QED
  BY <1>2, <1>3 DEF LookupProviderEvent

\* The settlement transaction.
LEMMA CreateStep ==
    ASSUME WalletInv, NEW w \in Workers, CreateSettlement(w)
    PROVE  WalletInv'
<1> DEFINE t == job[w].arg
           N == SettlementEntries(t, lastId)
<1>0. UNCHANGED <<payout, seen, acked, faults>> /\ Done(w)
  BY DEF CreateSettlement
<1>1. t \in Trips
  BY JobArg DEF CreateSettlement, WalletInv, WalletTypeOK
<1>2. job' \in [Workers -> Jobs] /\ EventKnown'
  BY <1>0, DoneStep DEF WalletInv, WalletTypeOK
<1>3. CASE AlreadySettled(t)
  BY <1>0, <1>2, <1>3, QuietStep
     DEF CreateSettlement, WalletInv, WalletTypeOK
<1>4. CASE ~AlreadySettled(t)
  <2>0. /\ t \notin settled
        /\ settled' = settled \cup {t}
        /\ entries' = entries \cup N
        /\ lastId' = lastId + 5
        /\ balance' = balance + Net(t)
    BY <1>4 DEF CreateSettlement, AlreadySettled
  <2>1. \A e \in N : \E x \in expectedEntryTypes(t) : e.ref = Line(t, x)
    BY DEF SettlementEntries
  <2>2. ASSUME NEW x \in expectedEntryTypes(t)
        PROVE  \E e \in N : e.ref = Line(t, x)
    <3> DEFINE f == [ref |-> Line(t, x), amt |-> Signed(t, x),
                     id |-> lastId + Place[x]]
    <3>1. f \in N
      BY DEF SettlementEntries
    <3>2. f.ref = Line(t, x)
      OBVIOUS
    <3> QED
      BY <3>1, <3>2
  <2>3. \A e, f \in N : e.ref = f.ref => e = f
    BY RefsDistinct DEF SettlementEntries
  <2>4. \A e \in N : ~Posted(e.ref)
    BY <1>1, <2>0, <2>1 DEF WalletInv, Books, HeaderComplete, expectedEntryTypes
  <2>5. /\ BookedOnce'
        /\ \A ref : Posted(ref)' <=> Posted(ref) \/ \E e \in N : e.ref = ref
    BY <2>0, <2>3, <2>4, AppendStep DEF WalletInv, Books
  <2>6. /\ \A u, x : Posted(Line(u, x))' <=>
               Posted(Line(u, x)) \/ (u = t /\ x \in expectedEntryTypes(t))
        /\ \A k : Posted(Debit(k))' <=> Posted(Debit(k))
        /\ \A k : Posted(Credit(k))' <=> Posted(Credit(k))
    BY <2>1, <2>2, <2>5, RefsDistinct
  <2>7. HeaderComplete'
    BY <1>1, <2>0, <2>6
       DEF WalletInv, Books, HeaderComplete, expectedEntryTypes
  <2>8. PayoutBooked' /\ SeenIsApplied' /\ AckedIsApplied'
    BY <1>0, <2>6
       DEF WalletInv, Books, PayoutBooked, SeenIsApplied, AckedIsApplied
  <2>9. N \subseteq [ref : Refs, amt : Int, id : Nat] /\ Net(t) \in Int
    <3>1. \A x \in EntryTypes : Fare[t][x] \in Nat /\ Place[x] \in Nat
      BY <1>1, WalletAssumption DEF Place, EntryTypes
    <3>2. Net(t) \in Int
      BY <3>1 DEF Net, EntryTypes
    <3>3. \A x \in EntryTypes :
            Signed(t, x) \in Int /\ lastId + Place[x] \in Nat
      BY <3>1 DEF Signed, WalletInv, WalletTypeOK
    <3> QED
      BY <1>1, <3>2, <3>3, RefsTyped DEF SettlementEntries, expectedEntryTypes
  <2>10. WalletTypeOK'
    BY <1>0, <1>1, <1>2, <2>0, <2>9 DEF WalletInv, WalletTypeOK
  <2> QED
    BY <1>2, <2>5, <2>7, <2>8, <2>10 DEF WalletInv, Books
<1> QED
  BY <1>3, <1>4

\* One entry more.
LEMMA OneEntry ==
    ASSUME WalletInv, NEW ref \in Refs, NEW amt \in Int, ~Posted(ref),
           AppendLedgerEntry(ref, amt)
    PROVE  /\ BookedOnce'
           /\ \A x : Posted(x)' <=> Posted(x) \/ x = ref
           /\ entries' \subseteq [ref : Refs, amt : Int, id : Nat]
           /\ lastId' \in Nat /\ balance' \in Int
<1> DEFINE new == [ref |-> ref, amt |-> amt, id |-> lastId + 1]
           N == {new}
<1>1. entries' = entries \cup N /\ new.ref = ref
  BY DEF AppendLedgerEntry
<1>2. /\ BookedOnce'
      /\ \A x : Posted(x)' <=> Posted(x) \/ \E e \in N : e.ref = x
  <2>1. /\ \A e, f \in N : e.ref = f.ref => e = f
        /\ \A e \in N : ~Posted(e.ref)
    BY <1>1
  <2> HIDE DEF N
  <2> QED
    BY <1>1, <2>1, AppendStep DEF WalletInv, Books
<1>3. \A x : Posted(x)' <=> Posted(x) \/ x = ref
  BY <1>1, <1>2
<1> QED
  BY <1>1, <1>2, <1>3 DEF AppendLedgerEntry, WalletInv, WalletTypeOK

\* The payout transaction.
LEMMA InitiateStep ==
    ASSUME WalletInv, NEW w \in Workers, InitiatePayout(w)
    PROVE  WalletInv'
<1> DEFINE k == job[w].arg
<1>0. UNCHANGED <<settled, seen, acked, faults>> /\ Done(w)
  BY DEF InitiatePayout
<1>1. k \in Keys
  BY JobArg DEF InitiatePayout, WalletInv, WalletTypeOK
<1>2. CASE UNCHANGED <<ledger, payout>>
  <2>1. job' \in [Workers -> Jobs] /\ EventKnown'
    BY <1>0, <1>2, DoneStep DEF WalletInv, WalletTypeOK
  <2> QED
    BY <1>0, <1>2, <2>1, QuietStep DEF WalletInv, WalletTypeOK
<1>3. CASE /\ payout[k] = None
           /\ payout' = [payout EXCEPT ![k] = "initiated"]
           /\ AppendLedgerEntry(Debit(k), -Amount[k])
  <2>1. ~Posted(Debit(k)) /\ ~Posted(Credit(k))
    BY <1>1, <1>3 DEF WalletInv, Books, PayoutBooked
  <2>2. -Amount[k] \in Int /\ Debit(k) \in Refs
    BY <1>1, WalletAssumption, RefsTyped
  <2>3. /\ BookedOnce'
        /\ \A x : Posted(x)' <=> Posted(x) \/ x = Debit(k)
        /\ entries' \subseteq [ref : Refs, amt : Int, id : Nat]
        /\ lastId' \in Nat /\ balance' \in Int
    BY <1>3, <2>1, <2>2, OneEntry
  <2>4. /\ \A t, x : Posted(Line(t, x))' <=> Posted(Line(t, x))
        /\ \A l : Posted(Debit(l))' <=> Posted(Debit(l)) \/ l = k
        /\ \A l : Posted(Credit(l))' <=> Posted(Credit(l))
    BY <2>3, RefsDistinct
  <2>5. /\ \A l \in Keys : l # k => payout'[l] = payout[l]
        /\ payout'[k] = "initiated" /\ "initiated" # None
    BY <1>1, <1>3, WalletAssumption DEF WalletInv, WalletTypeOK, PayoutStatuses
  <2>6. job' \in [Workers -> Jobs] /\ EventKnown'
    BY <1>0, <2>5, DoneStep DEF WalletInv, WalletTypeOK
  <2>7. HeaderComplete'
    BY <1>0, <2>4 DEF WalletInv, Books, HeaderComplete
  <2>8. PayoutBooked'
    BY <2>1, <2>4, <2>5 DEF WalletInv, Books, PayoutBooked
  <2>9. SeenIsApplied' /\ AckedIsApplied'
    <3>1. \A e \in seen \cup acked : e.key \in Keys /\ payout[e.key] # None
      BY EventKey DEF WalletInv, WalletTypeOK, SeenIsApplied, AckedIsApplied
    <3>2. \A e \in seen \cup acked : payout'[e.key] = payout[e.key]
      BY <1>3, <2>5, <3>1
    <3> QED
      BY <1>0, <2>4, <3>2 DEF WalletInv, SeenIsApplied, AckedIsApplied
  <2>10. WalletTypeOK'
    BY <1>0, <1>1, <1>3, <2>3, <2>6 DEF WalletInv, WalletTypeOK, PayoutStatuses
  <2> QED
    BY <2>3, <2>6, <2>7, <2>8, <2>9, <2>10 DEF WalletInv, Books
<1> QED
  BY <1>2, <1>3 DEF InitiatePayout

\* What an event does to its payout.
LEMMA Outcome ==
    ASSUME NEW e \in Events
    PROVE  /\ NewStatus(e) \in PayoutStatuses \ {"initiated", None}
           /\ NewStatus(e) \in {"failed", "reversed"} <=>
                  e.status \in {"failed", "reversed"}
<1>1. CASE e.status = "processed"
  BY <1>1, WalletAssumption DEF NewStatus, PayoutStatuses
<1>2. CASE e.status = "failed" \/ e.status = "reversed"
  BY <1>2, WalletAssumption DEF NewStatus, PayoutStatuses
<1>3. CASE e.status = "pending"
  BY <1>3, WalletAssumption DEF NewStatus, PayoutStatuses
<1> QED
  BY <1>1, <1>2, <1>3, EventKey DEF ProviderStatuses

\* The webhook's transaction.
LEMMA ApplyStep ==
    ASSUME WalletInv, NEW w \in Workers, ApplyOutcome(w)
    PROVE  WalletInv'
<1> DEFINE e == job[w].arg
           k == e.key
<1>0. UNCHANGED <<settled, faults>> /\ Done(w)
  BY DEF ApplyOutcome
<1>1. e \in Events /\ k \in Keys /\ payout[k] # None
  BY JobArg, EventKey
     DEF ApplyOutcome, WalletInv, WalletTypeOK, EventKnown
<1>2. CASE UNCHANGED <<ledger, payout, seen, acked>>
  <2>1. job' \in [Workers -> Jobs] /\ EventKnown'
    BY <1>0, <1>2, DoneStep DEF WalletInv, WalletTypeOK
  <2> QED
    BY <1>0, <1>2, <2>1, QuietStep DEF WalletInv, WalletTypeOK
<1>3. CASE /\ payout' = [payout EXCEPT ![k] = NewStatus(e)]
           /\ IF Compensates(NewStatus(e)) /\ ~Compensated(k)
              THEN AppendLedgerEntry(Credit(k), Amount[k])
              ELSE UNCHANGED ledger
           /\ seen' = seen \cup {e}
           /\ acked' = acked \cup {e}
  <2>1. /\ BookedOnce'
        /\ \A x : Posted(x)' <=>
             Posted(x) \/ (Compensates(NewStatus(e)) /\ x = Credit(k))
        /\ entries' \subseteq [ref : Refs, amt : Int, id : Nat]
        /\ lastId' \in Nat /\ balance' \in Int
    <3>1. CASE Compensates(NewStatus(e)) /\ ~Compensated(k)
      <4>1. /\ AppendLedgerEntry(Credit(k), Amount[k])
            /\ ~Posted(Credit(k))
            /\ Amount[k] \in Int /\ Credit(k) \in Refs
        BY <1>1, <1>3, <3>1, WalletAssumption, RefsTyped DEF Compensated
      <4> QED
        BY <3>1, <4>1, OneEntry
    <3>2. CASE ~(Compensates(NewStatus(e)) /\ ~Compensated(k))
      <4>1. UNCHANGED <<entries, lastId, balance>>
        BY <1>3, <3>2 DEF ledger
      <4>2. Compensates(NewStatus(e)) => Posted(Credit(k))
        BY <3>2 DEF Compensated
      <4>3. \A x : Posted(x)' <=> Posted(x)
        BY <4>1 DEF Posted
      <4>4. BookedOnce'
        BY <4>1 DEF WalletInv, Books, BookedOnce
      <4> QED
        BY <4>1, <4>2, <4>3, <4>4 DEF WalletInv, WalletTypeOK
    <3> QED
      BY <3>1, <3>2
  <2>2. /\ \A t, x : Posted(Line(t, x))' <=> Posted(Line(t, x))
        /\ \A l : Posted(Debit(l))' <=> Posted(Debit(l))
        /\ \A l : Posted(Credit(l))' <=>
             Posted(Credit(l)) \/ (Compensates(NewStatus(e)) /\ l = k)
    BY <2>1, RefsDistinct
  <2>3. /\ \A l \in Keys : l # k => payout'[l] = payout[l]
        /\ payout'[k] = NewStatus(e)
        /\ payout'[k] \in PayoutStatuses \ {"initiated", None}
    BY <1>1, <1>3, Outcome DEF WalletInv, WalletTypeOK
  <2>4. job' \in [Workers -> Jobs] /\ EventKnown'
    BY <1>0, <2>3, DoneStep DEF WalletInv, WalletTypeOK
  <2>5. HeaderComplete'
    BY <1>0, <2>2 DEF WalletInv, Books, HeaderComplete
  <2>6. PayoutBooked'
    BY <1>1, <2>2, <2>3 DEF WalletInv, Books, PayoutBooked, Compensates
  <2>7. ASSUME NEW f \in seen \cup acked \cup {e}
        PROVE  /\ payout'[f.key] \notin {None, "initiated"}
               /\ f.status \in {"failed", "reversed"} => Posted(Credit(f.key))'
    <3>1. CASE f = e
      BY <1>1, <2>2, <2>3, <3>1, Outcome DEF Compensates
    <3>2. CASE f \in seen \cup acked
      <4>1. f.key \in Keys
        BY <3>2, EventKey DEF WalletInv, WalletTypeOK
      <4>2. /\ payout[f.key] \notin {None, "initiated"}
            /\ f.status \in {"failed", "reversed"} => Posted(Credit(f.key))
        BY <3>2 DEF WalletInv, SeenIsApplied, AckedIsApplied
      <4> QED
        BY <2>2, <2>3, <4>1, <4>2
    <3> QED
      BY <2>7, <3>1, <3>2
  <2>8. SeenIsApplied' /\ AckedIsApplied'
    BY <1>3, <2>7 DEF SeenIsApplied, AckedIsApplied
  <2>9. WalletTypeOK'
    BY <1>0, <1>1, <1>3, <2>1, <2>3, <2>4 DEF WalletInv, WalletTypeOK
  <2> QED
    BY <2>1, <2>4, <2>5, <2>6, <2>8, <2>9 DEF WalletInv, Books
<1> QED
  BY <1>2, <1>3 DEF ApplyOutcome

-----------------------------------------------------------------------------
(* The theorems.                                                           *)

LEMMA StepInv == WalletInv /\ [Next]_vars => WalletInv'
<1> SUFFICES ASSUME WalletInv, [Next]_vars PROVE WalletInv'
  OBVIOUS
<1>1. CASE UNCHANGED vars
  <2>1. /\ UNCHANGED <<settled, ledger, payout, seen, acked>>
        /\ job' = job /\ faults' = faults
    BY <1>1 DEF vars
  <2>2. EventKnown'
    BY <2>1 DEF WalletInv, EventKnown
  <2> QED
    BY <2>1, <2>2, QuietStep DEF WalletInv, WalletTypeOK
<1>2. ASSUME NEW w \in Workers, Request(w) \/ Step(w) \/ DatabaseError(w)
      PROVE  WalletInv'
  BY <1>2, RequestStep, ErrorStep, ReadStep, LookupStep, CreateStep,
     InitiateStep, ApplyStep DEF Step
<1> QED
  BY <1>1, <1>2 DEF Next

LEMMA Invariance == Spec => []WalletInv
BY InitInv, StepInv, PTL DEF Spec

\* Tables and requests keep their shape, and a payout has a known status.
THEOREM WalletTypeCorrect == Spec => []WalletTypeOK
<1>1. WalletInv => WalletTypeOK
  BY DEF WalletInv
<1> QED
  BY <1>1, Invariance, PTL

\* Nothing is booked twice: concurrent settlements of a trip, repeated payout
\* requests and redelivered or racing provider events leave one entry each.
THEOREM NothingBookedTwice == Spec => []BookedOnce
<1>1. WalletInv => BookedOnce
  BY DEF WalletInv, Books
<1> QED
  BY <1>1, Invariance, PTL

\* A settlement header and its ledger entries exist together.
THEOREM HeadersAreComplete == Spec => []HeaderComplete
<1>1. WalletInv => HeaderComplete
  BY DEF WalletInv, Books
<1> QED
  BY <1>1, Invariance, PTL

\* A payout has its debit, and one that failed or came back has its credit.
THEOREM PayoutsAreBooked == Spec => []PayoutBooked
<1>1. WalletInv => PayoutBooked
  BY DEF WalletInv, Books
<1> QED
  BY <1>1, Invariance, PTL

\* A provider event answered with 200 took effect.
THEOREM AnsweredWasApplied == Spec => []AckedIsApplied
<1>1. WalletInv => AckedIsApplied
  BY DEF WalletInv
<1> QED
  BY <1>1, Invariance, PTL

\* Payouts never take the wallet below zero, whatever races, if no settlement
\* deducts more than it earns.
THEOREM WalletStaysCovered ==
    ASSUME \A t \in Trips : Net(t) >= 0
    PROVE  Spec => []NeverOverdrawn
<1>1. Init => NeverOverdrawn
  BY DEF Init, NeverOverdrawn
<1>2. WalletInv /\ NeverOverdrawn /\ [Next]_vars => NeverOverdrawn'
  <2> SUFFICES ASSUME WalletInv, NeverOverdrawn, [Next]_vars
               PROVE  NeverOverdrawn'
    OBVIOUS
  <2>0. balance \in Int /\ balance >= 0
    BY DEF WalletInv, WalletTypeOK, NeverOverdrawn
  <2>1. CASE balance' = balance
    BY <2>0, <2>1 DEF NeverOverdrawn
  <2>2. ASSUME NEW w \in Workers, CreateSettlement(w) PROVE balance' >= 0
    <3>1. job[w].arg \in Trips
      BY <2>2, JobArg DEF CreateSettlement, WalletInv, WalletTypeOK
    <3>2. Net(job[w].arg) \in Int
      BY <3>1, WalletAssumption DEF Net, EntryTypes
    <3> QED
      BY <2>0, <2>2, <3>1, <3>2 DEF CreateSettlement, ledger
  <2>3. ASSUME NEW w \in Workers, InitiatePayout(w) PROVE balance' >= 0
    <3>1. job[w].arg \in Keys /\ Amount[job[w].arg] \in Nat
      BY <2>3, JobArg, WalletAssumption
         DEF InitiatePayout, WalletInv, WalletTypeOK
    <3> QED
      BY <2>0, <2>3, <3>1 DEF InitiatePayout, Eligible, AppendLedgerEntry, ledger
  <2>4. ASSUME NEW w \in Workers, ApplyOutcome(w) PROVE balance' >= 0
    <3>1. job[w].arg.key \in Keys /\ Amount[job[w].arg.key] \in Nat
      BY <2>4, JobArg, EventKey, WalletAssumption
         DEF ApplyOutcome, WalletInv, WalletTypeOK
    <3> QED
      BY <2>0, <2>4, <3>1 DEF ApplyOutcome, AppendLedgerEntry, ledger
  <2>5. CASE UNCHANGED vars
    BY <2>1, <2>5 DEF vars, ledger
  <2>6. ASSUME NEW w \in Workers,
               \/ Request(w) \/ DatabaseError(w)
               \/ FindSettlement(w) \/ BackfillOwnLedger(w) \/ FindPayout(w)
               \/ LookupProviderEvent(w) \/ ValidateTransition(w)
        PROVE  balance' = balance
    BY <2>6 DEF Request, SubmitSettlement, SubmitPayout, DeliverEvent, Arrive,
                DatabaseError, FindSettlement, BackfillOwnLedger, FindPayout,
                LookupProviderEvent, ValidateTransition, ledger
  <2> QED
    BY <2>1, <2>2, <2>3, <2>4, <2>5, <2>6 DEF Next, Step, NeverOverdrawn
<1> QED
  BY <1>1, <1>2, Invariance, PTL DEF Spec

-----------------------------------------------------------------------------
(* The balance.                                                            *)

\* The ids up to lastId are used, so a new entry counts in full.
SumInv ==
    /\ Countable(entries)
    /\ balance = Total(entries)
    /\ \A e \in entries : e.id <= lastId

\* The entry of one line of a settlement, if the line has an amount.
LineEntry(t, x, after) ==
    {[ref |-> Line(t, y), amt |-> Signed(t, y), id |-> after + Place[y]] :
        y \in expectedEntryTypes(t) \cap {x}}

\* One line adds its amount; a line without an entry has the amount zero.
LEMMA AddLine ==
    ASSUME NEW t \in Trips, NEW x \in EntryTypes, NEW after \in Nat,
           NEW rows, Countable(rows), Total(rows) \in Int,
           \A e \in rows : e.id \in Nat /\ e.id < after + Place[x]
    PROVE  LET more == rows \cup LineEntry(t, x, after) IN
           /\ Countable(more)
           /\ Total(more) = Total(rows) + Signed(t, x)
           /\ Total(more) \in Int
           /\ \A e \in more : e.id \in Nat /\ e.id <= after + Place[x]
<1> DEFINE new == [ref |-> Line(t, x), amt |-> Signed(t, x), id |-> after + Place[x]]
<1>1. Fare[t][x] \in Nat /\ Signed(t, x) \in Int /\ Place[x] \in Nat
  BY WalletAssumption DEF Signed, Place, EntryTypes
<1>2. CASE x \in expectedEntryTypes(t)
  <2>1. LineEntry(t, x, after) = {new}
    BY <1>2 DEF LineEntry
  <2>2. new.amt = Signed(t, x) /\ new.id = after + Place[x]
    OBVIOUS
  <2> HIDE DEF new
  <2>3. new.amt \in Int /\ \A e \in rows : e.id # new.id
    BY <1>1, <2>2
  <2>4. /\ Countable(rows \cup {new})
        /\ Total(rows \cup {new}) = Total(rows) + new.amt
    BY <2>3, TotalAdd
  <2>5. \A e \in rows \cup {new} : e.id \in Nat /\ e.id <= after + Place[x]
    BY <1>1, <2>2
  <2>6. Total(rows) + Signed(t, x) \in Int
    BY <1>1
  <2> QED
    BY <2>1, <2>2, <2>4, <2>5, <2>6, Zenon
<1>3. CASE x \notin expectedEntryTypes(t)
  <2>1. LineEntry(t, x, after) = {}
    BY <1>3 DEF LineEntry
  <2>2. rows \cup LineEntry(t, x, after) = rows
    BY <2>1
  <2>3. Signed(t, x) = 0
    BY <1>1, <1>3 DEF expectedEntryTypes, Signed
  <2>4. Total(rows) + 0 = Total(rows)
    OBVIOUS
  <2>5. \A e \in rows : e.id \in Nat /\ e.id <= after + Place[x]
    BY <1>1
  <2> QED
    BY <2>2, <2>3, <2>4, <2>5, Zenon
<1> QED
  BY <1>2, <1>3

\* A settlement adds its net amount.
LEMMA AddSettlement ==
    ASSUME NEW t \in Trips, NEW after \in Nat, NEW rows, Countable(rows),
           Total(rows) \in Int, \A e \in rows : e.id \in Nat /\ e.id <= after
    PROVE  LET more == rows \cup SettlementEntries(t, after) IN
           /\ Countable(more)
           /\ Total(more) = Total(rows) + Net(t)
           /\ \A e \in more : e.id <= after + 5
<1> DEFINE r1 == rows \cup LineEntry(t, "TRIP_EARNING", after)
           r2 == r1 \cup LineEntry(t, "COMMISSION", after)
           r3 == r2 \cup LineEntry(t, "TOLL_ADJUSTMENT", after)
           r4 == r3 \cup LineEntry(t, "ADVANCE_DEDUCTION", after)
           r5 == r4 \cup LineEntry(t, "PENALTY", after)
<1>0. /\ {"TRIP_EARNING", "COMMISSION", "TOLL_ADJUSTMENT", "ADVANCE_DEDUCTION",
          "PENALTY"} = EntryTypes
      /\ Place["TRIP_EARNING"] = 1 /\ Place["COMMISSION"] = 2
      /\ Place["TOLL_ADJUSTMENT"] = 3 /\ Place["ADVANCE_DEDUCTION"] = 4
      /\ Place["PENALTY"] = 5
  BY DEF EntryTypes, Place
<1>1. r5 = rows \cup SettlementEntries(t, after)
  BY <1>0 DEF LineEntry, SettlementEntries, expectedEntryTypes
<1> HIDE DEF r1, r2, r3, r4, r5
<1>2. /\ Countable(r1) /\ Total(r1) = Total(rows) + Signed(t, "TRIP_EARNING")
      /\ Total(r1) \in Int /\ \A e \in r1 : e.id \in Nat /\ e.id <= after + 1
  <2>1. \A e \in rows : e.id \in Nat /\ e.id < after + 1
    OBVIOUS
  <2> QED
    BY <1>0, <2>1, AddLine, Zenon DEF r1
<1>3. /\ Countable(r2) /\ Total(r2) = Total(r1) + Signed(t, "COMMISSION")
      /\ Total(r2) \in Int /\ \A e \in r2 : e.id \in Nat /\ e.id <= after + 2
  <2>1. \A e \in r1 : e.id \in Nat /\ e.id < after + 2
    BY <1>2
  <2> QED
    BY <1>0, <1>2, <2>1, AddLine, Zenon DEF r2
<1>4. /\ Countable(r3) /\ Total(r3) = Total(r2) + Signed(t, "TOLL_ADJUSTMENT")
      /\ Total(r3) \in Int /\ \A e \in r3 : e.id \in Nat /\ e.id <= after + 3
  <2>1. \A e \in r2 : e.id \in Nat /\ e.id < after + 3
    BY <1>3
  <2> QED
    BY <1>0, <1>3, <2>1, AddLine, Zenon DEF r3
<1>5. /\ Countable(r4) /\ Total(r4) = Total(r3) + Signed(t, "ADVANCE_DEDUCTION")
      /\ Total(r4) \in Int /\ \A e \in r4 : e.id \in Nat /\ e.id <= after + 4
  <2>1. \A e \in r3 : e.id \in Nat /\ e.id < after + 4
    BY <1>4
  <2> QED
    BY <1>0, <1>4, <2>1, AddLine, Zenon DEF r4
<1>6. /\ Countable(r5) /\ Total(r5) = Total(r4) + Signed(t, "PENALTY")
      /\ Total(r5) \in Int /\ \A e \in r5 : e.id \in Nat /\ e.id <= after + 5
  <2>1. \A e \in r4 : e.id \in Nat /\ e.id < after + 5
    BY <1>5
  <2> QED
    BY <1>0, <1>5, <2>1, AddLine, Zenon DEF r5
<1>7. /\ \A x \in EntryTypes : Fare[t][x] \in Nat
      /\ Signed(t, "TRIP_EARNING") = Fare[t]["TRIP_EARNING"]
      /\ Signed(t, "COMMISSION") = -Fare[t]["COMMISSION"]
      /\ Signed(t, "TOLL_ADJUSTMENT") = Fare[t]["TOLL_ADJUSTMENT"]
      /\ Signed(t, "ADVANCE_DEDUCTION") = -Fare[t]["ADVANCE_DEDUCTION"]
      /\ Signed(t, "PENALTY") = -Fare[t]["PENALTY"]
  BY WalletAssumption DEF Signed
<1>8. Total(r5) = Total(rows) + Net(t)
  BY <1>0, <1>2, <1>3, <1>4, <1>5, <1>6, <1>7 DEF Net
<1> QED
  BY <1>1, <1>6, <1>8

\* One entry adds its amount.
LEMMA AddEntry ==
    ASSUME WalletInv, SumInv, NEW ref, NEW amt \in Int, AppendLedgerEntry(ref, amt)
    PROVE  SumInv'
<1> DEFINE new == [ref |-> ref, amt |-> amt, id |-> lastId + 1]
<1>1. /\ entries' = entries \cup {new} /\ lastId' = lastId + 1
      /\ balance' = balance + amt
  BY DEF AppendLedgerEntry
<1>2. new.amt = amt /\ new.id = lastId + 1
  OBVIOUS
<1> HIDE DEF new
<1>3. lastId \in Nat /\ \A e \in entries : e.id \in Nat /\ e.id <= lastId
  BY DEF WalletInv, WalletTypeOK, SumInv
<1>4. \A e \in entries : e.id # new.id
  BY <1>2, <1>3
<1>5. /\ Countable(entries \cup {new})
      /\ Total(entries \cup {new}) = Total(entries) + amt
  BY <1>2, <1>4, TotalAdd DEF SumInv
<1>6. Countable(entries') /\ balance' = Total(entries')
  BY <1>1, <1>5, Zenon DEF SumInv
<1>7. \A e \in entries' : e.id <= lastId'
  BY <1>1, <1>2, <1>3
<1> QED
  BY <1>6, <1>7 DEF SumInv, Countable, Total, Credited, Debited

\* The balance carried from entry to entry is the total of the ledger, however
\* settlements, payouts and returned money interleave.
THEOREM BalanceIsTotal == Spec => []BalanceMatchesEntries
<1>1. Init => SumInv
  BY TotalOfNone DEF Init, SumInv
<1>2. WalletInv /\ SumInv /\ [Next]_vars => SumInv'
  <2> SUFFICES ASSUME WalletInv, SumInv, [Next]_vars PROVE SumInv'
    OBVIOUS
  <2>1. CASE UNCHANGED ledger
    BY <2>1 DEF SumInv, ledger, Countable, Total, Credited, Debited
  <2>2. ASSUME NEW w \in Workers, CreateSettlement(w) PROVE SumInv'
    <3>1. job[w].arg \in Trips
      BY <2>2, JobArg DEF CreateSettlement, WalletInv, WalletTypeOK
    <3>2. PICK t \in Trips : t = job[w].arg
      BY <3>1
    <3>3. CASE ~UNCHANGED ledger
      <4>1. /\ entries' = entries \cup SettlementEntries(t, lastId)
            /\ lastId' = lastId + 5
            /\ balance' = balance + Net(t)
        BY <2>2, <3>2, <3>3 DEF CreateSettlement
      <4>2. /\ lastId \in Nat /\ Countable(entries) /\ Total(entries) \in Int
            /\ \A e \in entries : e.id \in Nat /\ e.id <= lastId
        BY DEF WalletInv, WalletTypeOK, SumInv
      <4>3. /\ Countable(entries') /\ Total(entries') = Total(entries) + Net(t)
            /\ \A e \in entries' : e.id <= lastId + 5
        BY <4>1, <4>2, AddSettlement, Zenon
      <4> QED
        BY <4>1, <4>3 DEF SumInv, Countable, Total, Credited, Debited
    <3> QED
      BY <2>1, <3>3
  <2>3. ASSUME NEW w \in Workers, InitiatePayout(w) PROVE SumInv'
    <3>1. job[w].arg \in Keys /\ -Amount[job[w].arg] \in Int
      BY <2>3, JobArg, WalletAssumption
         DEF InitiatePayout, WalletInv, WalletTypeOK
    <3> QED
      BY <2>1, <2>3, <3>1, AddEntry DEF InitiatePayout
  <2>4. ASSUME NEW w \in Workers, ApplyOutcome(w) PROVE SumInv'
    <3>1. job[w].arg.key \in Keys /\ Amount[job[w].arg.key] \in Int
      BY <2>4, JobArg, EventKey, WalletAssumption
         DEF ApplyOutcome, WalletInv, WalletTypeOK
    <3> QED
      BY <2>1, <2>4, <3>1, AddEntry DEF ApplyOutcome
  <2>5. CASE UNCHANGED vars
    BY <2>1, <2>5 DEF vars
  <2>6. ASSUME NEW w \in Workers,
               \/ Request(w) \/ DatabaseError(w)
               \/ FindSettlement(w) \/ BackfillOwnLedger(w) \/ FindPayout(w)
               \/ LookupProviderEvent(w) \/ ValidateTransition(w)
        PROVE  UNCHANGED ledger
    BY <2>6 DEF Request, SubmitSettlement, SubmitPayout, DeliverEvent, Arrive,
                DatabaseError, FindSettlement, BackfillOwnLedger, FindPayout,
                LookupProviderEvent, ValidateTransition
  <2> QED
    BY <2>1, <2>2, <2>3, <2>4, <2>5, <2>6 DEF Next, Step
<1>3. SumInv => BalanceMatchesEntries
  BY DEF SumInv, BalanceMatchesEntries
<1> QED
  BY <1>1, <1>2, <1>3, Invariance, PTL DEF Spec

=============================================================================
