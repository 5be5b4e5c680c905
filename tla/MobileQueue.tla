---------------------------- MODULE MobileQueue ----------------------------
(***************************************************************************)
(* The offline queue of the driver app (mobile/src/services/offlineQueue.ts *)
(* and syncEngine.ts), the screens that fill it, and the server handlers    *)
(* that its requests reach.                                                 *)
(*                                                                          *)
(* A claim (an expense) or a POD (proof of delivery) is sent at once by its *)
(* screen; when that fails it is stored on the phone and flush() sends it   *)
(* later.  Several flushes may run at the same time: the reconnect handler  *)
(* starts up to three, the 15 s timer two more, and only the GPS half of a  *)
(* sync is guarded by isSyncing.  JavaScript runs one step at a time, so a  *)
(* step of this model is the code between two awaits.  The session can      *)
(* change at every await.                                                   *)
(*                                                                          *)
(* The table queued_gps is left out: enqueueGPS has no caller in the app.   *)
(***************************************************************************)
EXTENDS Integers, Sequences, FiniteSets

CONSTANTS Accounts,     \* the accounts that sign in on this phone
          NoOne,        \* no session; also the owner_id NULL
          Claims,       \* expense claims; a claim stands for its idempotency key
          Pods,         \* proofs of delivery
          PodTrip,      \* the trip of a POD
          PodStop,      \* the stop of a POD, or NoStop for the whole trip
          NoStop,
          TripDriver,   \* the account whose driver a trip is assigned to
          Refused,      \* items the server refuses (no amount, wrong OTP, trip not started)
          MaxFlushes,   \* flush() calls that may run at the same time
          MaxHandlers,  \* requests the server may work on at the same time
          BatchSize,    \* OFFLINE_FLUSH_BATCH
          MaxFaults,    \* bound on broken connections, failed inserts and restarts
          MaxSignOuts   \* bound on sign-outs

Items == Claims \cup Pods
Flushes == 1 .. MaxFlushes
Handlers == 1 .. MaxHandlers
Owners == Accounts \cup {NoOne}
Tables == {"pods", "expenses"}

ASSUME MobileAssumption ==
  /\ NoOne \notin Accounts \cup Flushes \cup Items
  /\ Flushes \cap Items = {} /\ Claims \cap Pods = {}
  /\ Refused \subseteq Items
  /\ {MaxFlushes, MaxHandlers, BatchSize} \subseteq Nat \ {0}
  /\ {MaxFaults, MaxSignOuts} \subseteq Nat

VARIABLES session,    \* useAuthStore: the account of token and user, or NoOne
          queue,      \* the tables queued_pods and offline_expenses
          work,       \* what the driver knows of an item
          flush,      \* the running flush() calls
          handler,    \* the requests on the server
          expenses,   \* driver_expenses on the server, one entry per row
          delivered,  \* the PODs the server has accepted
          expired,    \* the items the 7-day expiry has deleted from the queue
          faults, signOuts

vars == <<session, queue, work, flush, handler, expenses, delivered, expired,
          faults, signOuts>>

TableOf(i) == IF i \in Claims THEN "expenses" ELSE "pods"

\* A row's place in the order of created_at and rowid: after every row there is.
Newest(rows) == CHOOSE n \in {0} \cup {r.at : r \in rows} : \A r \in rows : r.at <= n

Row(i, owner, rows) == [item |-> i, owner |-> owner, at |-> Newest(rows) + 1]

Idle == [pc |-> "idle", sync |-> FALSE, owner |-> NoOne, table |-> "pods",
         batch |-> {}]

Free == [st |-> "free", from |-> NoOne, row |-> NoOne, acct |-> NoOne]

Init ==
  /\ session \in Owners
  /\ queue = [t \in Tables |-> {}]
  /\ work = [i \in Items |-> "new"]
  /\ flush = [f \in Flushes |-> Idle]
  /\ handler = [h \in Handlers |-> Free]
  /\ expenses = << >>
  /\ delivered = {}
  /\ expired = {}
  /\ faults = 0 /\ signOuts = 0

(***************************************************************************)
(* The tables on the phone.                                                 *)
(***************************************************************************)

QueuedItems(q) == UNION {{r.item : r \in q[t]} : t \in Tables}

SamePlace(p, q) == PodTrip[p] = PodTrip[q] /\ PodStop[p] = PodStop[q]

\* enqueuePOD returns early when the POD of this place is already queued by the
\* same account, or by anyone when nobody is signed in.
AlreadyQueued(i, owner) ==
  /\ i \in Pods
  /\ \E r \in queue["pods"] : SamePlace(r.item, i) /\ owner \in {NoOne, r.owner}

\* enqueuePOD and enqueueExpense: the owner is read when the row is stored.
Enqueue(i) ==
  /\ work' = [work EXCEPT ![i] = "saved"]
  /\ queue' = IF AlreadyQueued(i, session)
                THEN queue
                ELSE [queue EXCEPT ![TableOf(i)] = @ \cup {Row(i, session, @)}]

\* The phone's database refuses the row.  ExpenseScreen ignores that and tells
\* the driver "Saved Offline"; DeliveryVerificationScreen tells nothing and
\* leaves the POD to be submitted again.
EnqueueFails(i) ==
  /\ work' = [work EXCEPT ![i] = IF i \in Claims THEN "saved" ELSE "new"]
  /\ UNCHANGED queue

\* pendingPODs and pendingExpenses: every row when there is no owner.
Pending(table, owner) == {r \in queue[table] : owner \in {NoOne, r.owner}}

\* The oldest rows go first, at most BatchSize of them.
FlushBatch(rows) ==
  {r \in rows : Cardinality({p \in rows : p.at < r.at}) < BatchSize}

Oldest(rows) == CHOOSE r \in rows : \A p \in rows : r.at <= p.at

\* clearPOD: a stop's POD takes the rows of the stop and of the whole trip with
\* it, a trip's POD every row of the trip; neither looks at the owner.
ClearedBy(p, q) ==
  /\ PodTrip[p] = PodTrip[q]
  /\ PodStop[p] = NoStop \/ PodStop[q] \in {NoStop, PodStop[p]}

\* clearPOD and clearExpense
WithoutRow(i) ==
  IF i \in Claims
    THEN [queue EXCEPT !["expenses"] = {r \in @ : r.item # i}]
    ELSE [queue EXCEPT !["pods"] = {r \in @ : ~ClearedBy(i, r.item)}]

(***************************************************************************)
(* The session.  Signing out stops the timer and the network watcher, and   *)
(* leaves running flushes alone.                                            *)
(***************************************************************************)

SignIn(a) ==
  /\ session = NoOne
  /\ session' = a
  /\ UNCHANGED <<queue, work, flush, handler, expenses, delivered, expired,
                 faults, signOuts>>

SignOut ==
  /\ session # NoOne
  /\ signOuts < MaxSignOuts
  /\ session' = NoOne
  /\ signOuts' = signOuts + 1
  /\ UNCHANGED <<queue, work, flush, handler, expenses, delivered, expired,
                 faults>>

(***************************************************************************)
(* Requests.  The first free handler takes the request with the account of  *)
(* the token; `from' is the flush or the item whose screen waits for it.    *)
(***************************************************************************)

Request(from, row) ==
  \E h \in Handlers :
    /\ handler[h] = Free
    /\ \A k \in 1 .. h - 1 : handler[k] # Free
    /\ handler' = [handler EXCEPT ![h] =
                     [st |-> "check", from |-> from, row |-> row, acct |-> session]]

\* A handler is done: its answer waits for the client, or nobody listens.
Done(h, st) ==
  handler' = [handler EXCEPT ![h] = IF @.from = NoOne THEN Free
                                    ELSE [@ EXCEPT !.st = st]]

InExpenses(c) == \E n \in DOMAIN expenses : expenses[n].item = c

\* CreateExpenseWithOpts up to the look-up of the idempotency key
CheckExpense(h) ==
  LET c == handler[h].row.item IN
  /\ handler[h].st = "check" /\ c \in Claims
  /\ \/ c \in Refused /\ Done(h, "error")
     \/ c \notin Refused /\ InExpenses(c) /\ Done(h, "ok")
     \/ /\ c \notin Refused /\ ~InExpenses(c)
        /\ handler' = [handler EXCEPT ![h].st = "insert"]
  /\ UNCHANGED <<session, queue, work, flush, expenses, delivered, expired,
                 faults, signOuts>>

\* Mutant of InsertedExpense: no unique index.
InsertedExpense_NoIndex(c, a) == Append(expenses, [item |-> c, acct |-> a])

\* The unique index on idempotency_key refuses a second row; the handler then
\* answers with the first one.
InsertedExpense(c, a) ==
  IF InExpenses(c) THEN expenses ELSE Append(expenses, [item |-> c, acct |-> a])

InsertExpense(h) ==
  /\ handler[h].st = "insert"
  /\ expenses' = InsertedExpense(handler[h].row.item, handler[h].acct)
  /\ Done(h, "ok")
  /\ UNCHANGED <<session, queue, work, flush, delivered, expired, faults,
                 signOuts>>

InsertFails(h) ==
  /\ handler[h].st = "insert"
  /\ faults < MaxFaults
  /\ faults' = faults + 1
  /\ Done(h, "error")
  /\ UNCHANGED <<session, queue, work, flush, expenses, delivered, expired,
                 signOuts>>

\* DeliverWithPOD takes a trip's POD once and from its own driver;
\* SubmitStopPOD overwrites the POD of the stop.
TakesTripPOD(p, a) ==
  /\ TripDriver[PodTrip[p]] = a
  /\ \A q \in delivered : PodTrip[q] = PodTrip[p] => PodStop[q] # NoStop

TakesStopPOD(p) == PodStop[p] # NoStop

SubmitPOD(h) ==
  LET p == handler[h].row.item IN
  /\ handler[h].st = "check" /\ p \in Pods
  /\ IF p \notin Refused /\ (TakesStopPOD(p) \/ TakesTripPOD(p, handler[h].acct))
       THEN delivered' = delivered \cup {p} /\ Done(h, "ok")
       ELSE UNCHANGED delivered /\ Done(h, "error")
  /\ UNCHANGED <<session, queue, work, flush, expenses, expired, faults,
                 signOuts>>

(***************************************************************************)
(* flush().                                                                 *)
(***************************************************************************)

\* Mutant of AfterFailure: the loop breaks at the first failure.
AfterFailure_Breaks(fl) == [fl EXCEPT !.pc = "item", !.batch = {}]

\* An item that failed is left in its table and the loop continues.
AfterFailure(fl) == [fl EXCEPT !.pc = "item", !.batch = @ \ {Oldest(@)}]

\* The owner is captured once, before the first table is read.
Begin(f, sync) ==
  flush' = [flush EXCEPT ![f] =
              [pc |-> "item", sync |-> sync, owner |-> session, table |-> "pods",
               batch |-> FlushBatch(Pending("pods", session))]]

\* A new call takes the first slot that is idle.
NextCall(f) ==
  /\ session # NoOne
  /\ flush[f].pc = "idle"
  /\ \A g \in 1 .. f - 1 : flush[g].pc # "idle"

\* The timer, the network watcher and the main screen call flush().
StartFlush(f) ==
  /\ NextCall(f)
  /\ Begin(f, FALSE)
  /\ UNCHANGED <<session, queue, work, handler, expenses, delivered, expired,
                 faults, signOuts>>

\* syncPendingLogs: one at a time (isSyncing); it uploads the GPS log first.
StartSync(f) ==
  /\ NextCall(f)
  /\ \A g \in Flushes : ~flush[g].sync
  /\ flush' = [flush EXCEPT ![f].pc = "gps", ![f].sync = TRUE]
  /\ UNCHANGED <<session, queue, work, handler, expenses, delivered, expired,
                 faults, signOuts>>

\* The upload is over, well or badly: flush the queue, whoever is signed in now.
SyncFlush(f) ==
  /\ flush[f].pc = "gps"
  /\ Begin(f, TRUE)
  /\ UNCHANGED <<session, queue, work, handler, expenses, delivered, expired,
                 faults, signOuts>>

\* The token is read anew for every item.
SendItem(f) ==
  /\ flush[f].pc = "item" /\ flush[f].batch # {}
  /\ \/ /\ session = NoOne
        /\ flush' = [flush EXCEPT ![f] = AfterFailure(@)]
        /\ UNCHANGED handler
     \/ /\ session # NoOne
        /\ Request(f, Oldest(flush[f].batch))
        /\ flush' = [flush EXCEPT ![f].pc = "wait"]
  /\ UNCHANGED <<session, queue, work, expenses, delivered, expired, faults,
                 signOuts>>

\* Mutant of Accepted: every answer clears the row.
Accepted_Any(st) == st \in {"ok", "error"}

\* What the answer says of the item: only res.ok clears its row.
Accepted(st) == st = "ok"

\* The answer arrives and the row is cleared, or the loop goes on without it.  A
\* kill between the two leaves what a lost answer leaves.
FlushAnswer(f, h) ==
  /\ handler[h].from = f /\ handler[h].st \in {"ok", "error"}
  /\ handler' = [handler EXCEPT ![h] = Free]
  /\ flush' = [flush EXCEPT ![f] = IF Accepted(handler[h].st)
                                     THEN [@ EXCEPT !.pc = "item",
                                                    !.batch = @ \ {Oldest(@)}]
                                     ELSE AfterFailure(@)]
  /\ queue' = IF Accepted(handler[h].st) THEN WithoutRow(handler[h].row.item)
                                         ELSE queue
  /\ UNCHANGED <<session, work, expenses, delivered, expired, faults, signOuts>>

\* The PODs are through: read the expenses.  Without an owner, pendingExpenses
\* asks for the current account again.
NextTable(f) ==
  /\ flush[f].pc = "item" /\ flush[f].batch = {} /\ flush[f].table = "pods"
  /\ LET owner == IF flush[f].owner = NoOne THEN session ELSE flush[f].owner IN
     flush' = [flush EXCEPT ![f].table = "expenses",
                            ![f].batch = FlushBatch(Pending("expenses", owner))]
  /\ UNCHANGED <<session, queue, work, handler, expenses, delivered, expired,
                 faults, signOuts>>

EndFlush(f) ==
  /\ flush[f].pc = "item" /\ flush[f].batch = {} /\ flush[f].table = "expenses"
  /\ flush' = [flush EXCEPT ![f] = Idle]
  /\ UNCHANGED <<session, queue, work, handler, expenses, delivered, expired,
                 faults, signOuts>>

(***************************************************************************)
(* The screens.                                                             *)
(***************************************************************************)

\* ExpenseScreen, which insists on an amount, and DeliveryVerificationScreen try
\* the server first.
SubmitLive(i) ==
  /\ work[i] = "new" /\ session # NoOne /\ i \notin Refused \cap Claims
  /\ Request(i, [item |-> i, owner |-> session, at |-> 0])
  /\ work' = [work EXCEPT ![i] = "sending"]
  /\ UNCHANGED <<session, queue, flush, expenses, delivered, expired, faults,
                 signOuts>>

\* Voice entry only stores the claim, with amount 0 if it understood none; when
\* that fails it says so, and nothing has changed.
SubmitVoice(c) ==
  /\ work[c] = "new" /\ session # NoOne
  /\ Enqueue(c)
  /\ UNCHANGED <<session, flush, handler, expenses, delivered, expired, faults,
                 signOuts>>

\* Done, or stored for later whatever the reason was.
ScreenAnswer(i, h) ==
  /\ handler[h].from = i /\ handler[h].st \in {"ok", "error"}
  /\ handler' = [handler EXCEPT ![h] = Free]
  /\ \/ /\ handler[h].st = "ok"
        /\ work' = [work EXCEPT ![i] = "saved"]
        /\ queue' = IF i \in Pods THEN WithoutRow(i) ELSE queue
     \/ handler[h].st = "error" /\ (Enqueue(i) \/ EnqueueFails(i))
  /\ UNCHANGED <<session, flush, expenses, delivered, expired, faults, signOuts>>

(***************************************************************************)
(* Faults: a request or its answer is lost, the app is killed.              *)
(***************************************************************************)

\* fetch throws: a flush continues with the next item, a screen stores its item.
ClientFails(from) ==
  \/ /\ from \in Flushes
     /\ flush' = [flush EXCEPT ![from] = AfterFailure(@)]
     /\ UNCHANGED <<queue, work>>
  \/ /\ from \in Items
     /\ Enqueue(from) \/ EnqueueFails(from)
     /\ UNCHANGED flush

\* The connection breaks before the request arrives, or the server is left to
\* finish it with nobody listening.
ConnectionLost(h) ==
  /\ handler[h].from # NoOne
  /\ faults < MaxFaults
  /\ faults' = faults + 1
  /\ ClientFails(handler[h].from)
  /\ \/ handler' = [handler EXCEPT ![h] = Free] /\ handler[h].st # "insert"
     \/ /\ handler[h].st \in {"check", "insert"}
        /\ handler' = [handler EXCEPT ![h].from = NoOne]
  /\ UNCHANGED <<session, expenses, delivered, expired, signOuts>>

\* The app is killed and started again; the tables and the session survive.
\* init() deletes the rows that are older than seven days.
Restart(kept) ==
  /\ faults < MaxFaults
  /\ faults' = faults + 1
  /\ queue' = kept
  /\ expired' = expired \cup (QueuedItems(queue) \ QueuedItems(kept))
  /\ flush' = [f \in Flushes |-> Idle]
  /\ work' = [i \in Items |-> IF work[i] = "sending" THEN "lost" ELSE work[i]]
  /\ handler' = [h \in Handlers |->
                   IF handler[h].st \in {"check", "insert"}
                     THEN [handler[h] EXCEPT !.from = NoOne] ELSE Free]
  /\ UNCHANGED <<session, expenses, delivered, signOuts>>

\* What may be left of a table: its newest rows.
Suffixes(rows) == {{r \in rows : r.at > n} : n \in {0} \cup {r.at : r \in rows}}

(***************************************************************************)
(* The specification.                                                       *)
(***************************************************************************)

FlushStep(f) ==
  \/ SyncFlush(f) \/ SendItem(f) \/ NextTable(f) \/ EndFlush(f)
  \/ \E h \in Handlers : FlushAnswer(f, h)

HandlerStep(h) == CheckExpense(h) \/ InsertExpense(h) \/ SubmitPOD(h)

Next ==
  \/ \E a \in Accounts : SignIn(a)
  \/ SignOut
  \/ \E f \in Flushes : StartFlush(f) \/ StartSync(f) \/ FlushStep(f)
  \/ \E h \in Handlers : HandlerStep(h) \/ InsertFails(h) \/ ConnectionLost(h)
  \/ \E i \in Items : SubmitLive(i) \/ \E h \in Handlers : ScreenAnswer(i, h)
  \/ \E c \in Claims : SubmitVoice(c)
  \/ \E p \in Suffixes(queue["pods"]), e \in Suffixes(queue["expenses"]) :
       Restart([t \in Tables |-> IF t = "pods" THEN p ELSE e])

Spec == Init /\ [][Next]_vars

\* The timer keeps starting flushes while somebody is signed in, awaits end and
\* the server answers; nobody has to sign in, submit or restart.
FairSpec ==
  /\ Spec
  /\ WF_vars(\E f \in Flushes : StartFlush(f))
  /\ \A f \in Flushes : WF_vars(FlushStep(f))
  /\ \A h \in Handlers : WF_vars(HandlerStep(h))

(***************************************************************************)
(* Properties.                                                              *)
(***************************************************************************)

Queued(i, a) ==
  \E r \in queue[TableOf(i)] : r.item = i /\ r.owner = a

\* A claim is in driver_expenses at most once, however many flushes, lost
\* answers and restarts repeat its request: the idempotency key is made once
\* per claim, and look-up, unique index and second look-up agree on it.
RecordedOnce ==
  \A m, n \in DOMAIN expenses : expenses[m].item = expenses[n].item => m = n

OnPhone(i) == \E a \in Owners : Queued(i, a)

\* A claim that is on the phone stays there until the server has it or the
\* 7-day expiry deletes it: no answer to another request, lost answer,
\* concurrent flush, change of account or restart takes its last row.
QueuedIsKept ==
  [][\A c \in Claims : OnPhone(c) => OnPhone(c)' \/ InExpenses(c)' \/ c \in expired']_vars

\* As long as the refused claims do not fill a batch, a queued claim that the
\* server would take reaches it while its owner stays signed in: a refused item
\* in front of it, a lost answer, a concurrent flush or a restart only delays it.
QueuedIsRecorded ==
  Cardinality(Claims \cap Refused) < BatchSize =>
    \A c \in Claims \ Refused, a \in Accounts :
      Queued(c, a) ~> (InExpenses(c) \/ c \in expired \/ session # a)

\* What offlineQueue.ts says of flush(): "only the current account's work
\* flushes", so a flush sends a row under the account that owns it.
FlushedByOwner ==
  \A h \in Handlers :
    handler[h].from \in Flushes => handler[h].acct = handler[h].row.owner

=============================================================================
