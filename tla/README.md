# Verification of the fleet-management platform: money, messaging, dispatch and the driver's offline queue

This directory holds a TLA+ development for the repository: modules that model
parts of the Go backend and of the driver app, TLC configurations that check them on small instances,
and theorems about them that TLAPS checks for every value of the constants. All
paths below are relative to the repository root.

## 1. Inventory

The system is a multi-tenant fleet and transport platform: one Go server
(`cmd/server`) over SQL (SQLite or Postgres), with server-rendered pages, a JSON
API, background workers on every replica, and a React Native driver app.

| Component | State | Operations | What makes it correct | Status |
|---|---|---|---|---|
| Payments (`internal/payment`) | `payments` rows with an idempotency key and gateway ids | record, reverse | one row per key and tenant; a reversal undoes one payment | modelled |
| Razorpay webhook and `/verify` (`payment/application/razorpay_*.go`) | in-memory event cache, event id on payment rows | webhook delivery, checkout verification | an acknowledged event is in the ledger; money is counted once; nothing captured is lost | modelled |
| Invoices (`internal/invoice`) | `paid`, `total`, two statuses, `version` | apply payment, void, attach lines | no lost update; statuses agree with the balance; void is final | modelled (first generation only as the initial state) |
| Worker lease (`internal/leader`) | `worker_leases` row; two goroutines per replica | acquire, renew, release | a fresh holder keeps its lease; an abandoned one is taken over | modelled |
| Event outbox and bus (`internal/shared/outbox`, `internal/events`) | `outbox_events`, in-memory attempts and back-off | save, relay, fan-out | published only after every handler; every stored event is published | modelled |
| Units of work (`internal/repository/tx.go`, `shared/uow`) | a transaction | begin, commit, roll back | all or nothing | modelled, as part of the payment jobs |
| Communication outbox (`internal/comm`) | `comm_outbox` rows with status and attempts | enqueue, reap, claim, send, mark | one sender at a time, sent means delivered, final rows stay final, a message is tried until it is sent or dead | modelled |
| Driver settlement and payouts (`internal/settlement`) | append-only wallet ledger, payout instructions, provider events | settle, pay out, provider webhook, back-fill | nothing is booked twice or half; payouts never overdraw; returned money is credited | modelled (one driver; the back-fill's append branch is left out) |
| Bookings (`internal/booking`, `internal/workflow`) | booking status, version | create, confirm, complete, cancel, delete | a cancelled booking has no running trip and no quota | modelled, without pricing and edits |
| Trips (`internal/trip`) | trip status, driver, vehicle, stops, version | create, assign, start, deliver, complete, cancel, stop operations | no transition is undone; no double booking | modelled, without compliance checks and edits |
| Dispatch offers and driver commands (`internal/driver/application`) | `dispatch_offers`, `driver_commands` | offer, accept, reject, status command | one accepted offer per booking | modelled |
| Quotas (`internal/entitlement`) | usage meter (used, reserved), usage events, subscription | reserve, commit, release; subscription webhook, dunning | each booking counts once; a plan is not exceeded | the meter is modelled |
| Geofence and dwell engine (`internal/geofence`) | dwell state per vehicle and zone, checkpoint | position, sweep, persist | each stay is reported once | not modelled |
| Legacy payment service and line-item editor (`internal/service/payment.go`, `internal/handlers/invoices.go`) | the same tables as above | record, delete, edit lines | must not lose the updates of the new code | not modelled |
| Mobile offline queue (`mobile/src/services`), expenses and PODs on the server | SQLite tables on the phone, session; `driver_expenses` | enqueue, flush, clear, expire; create expense, accept POD | nothing queued is lost, nothing recorded twice, work is sent by its owner | modelled, without the GPS log |
| Alert pipeline (`internal/alerts`) | open alerts, escalation levels | raise, acknowledge, escalate, flush | no escalation after acknowledgement | not modelled |
| Telemetry and MQTT, e-way bill and tax clients, AI agent, PDF, storage, realtime, notifications | streams and files | I/O | - | not modelled: external I/O or parsing |
| Drivers, vehicles, customers, fuel, maintenance, safety, reports, ETA, P&L, control tower | single rows, read models | CRUD and queries | - | not modelled: no protocol beyond one row |
| Auth, middleware, configuration, migration, templates, screens | sessions, forms | request plumbing | - | not modelled |

How the modelled parts interact. The payment handlers call the use cases of
`internal/payment/application`, which read and write the invoice aggregate in
one unit of work. Those units of work also write events to `outbox_events`; the
relay reads them and calls the handlers of the in-memory bus. The relay runs on
the replica the worker lease elects, and so does the worker that sends the
messages the bus handlers queue. A booking reserves a unit of the tenant's quota,
a trip's completion commits it. The driver app talks to the expense, POD and
command endpoints, over a connection that comes and goes. Razorpay calls the two webhooks (customer
payments, driver payouts) from outside and redelivers until it gets a 200. The
driver wallet shares no table with the customer's ledger.

What is hard here: several requests act on the same invoice and the same key at
once; a transaction reads at READ COMMITTED and writes later under a version
guard; the gateway delivers events late, twice and out of order; the process may
die between a commit and its answer; the event cache is in memory; lease claims
carry old clock readings, and a replica does not know that it lost its lease
until its next renewal; a trip is read, checked against other trips and saved in
steps that other requests and the driver's app come between; on the phone several
flushes run at once, and the session may change at every `await`. The list with code lines is under `hazards` in
`PROJECT.json`.

## 2. Modules

| Module | Role |
|---|---|
| `PaymentLedger` | payments, invoices and the webhook as concurrent requests over a database |
| `AtomicLedger` | what the payment subsystem promises: atomic postings, voids and repricings |
| `Amounts`, `AmountsProofs` | the total of a set of ledger rows, and what adding or removing a row does to it |
| `MCPaymentLedger` | instances of `PaymentLedger` |
| `PaymentLedgerProofs` | theorems about `PaymentLedger`, with the refinement of `AtomicLedger` |
| `WorkerLease`, `MCWorkerLease`, `WorkerLeaseProofs` | the lease of `internal/leader` |
| `OutboxRelay`, `MCOutboxRelay`, `OutboxRelayProofs` | the event outbox, composed with the lease (`OutboxRelay` extends `WorkerLease`) |
| `DriverWallet`, `MCDriverWallet`, `DriverWalletProofs` | the wallet of one driver: settlements, payouts and the provider's webhook |
| `CommOutbox`, `MCCommOutbox`, `CommOutboxProofs` | the queue of e-mails and WhatsApp messages and its workers |
| `TripDispatch`, `MCTripDispatch`, `TripDispatchProofs` | bookings, trips, quota meter, offers and driver commands |
| `MobileQueue`, `MCMobileQueue`, `MobileQueueProofs` | the driver app's offline queue and the server handlers behind it |

### PaymentLedger

`invoice` is the invoices table (paid, total, the two status columns, version),
`payments` the committed payment rows, `eventOf` the column `webhook_event_id`,
`processed` the in-memory event cache, and `acked` the events Razorpay got a 200
for. `job[w]` is one request in flight: a program counter and the locals of the
use case (the invoice snapshot, the amount, the key).

A unit of work is split where another transaction can come in between:

- each read (`BeginRecord`, `BeginReverse`, `ReadInvoice`, `FindExisting`,
  `ReadBalance`, ...) is a step;
- `SaveIfNew` is the INSERT ... ON CONFLICT DO NOTHING. A job that inserted and
  has not committed holds the key (`HoldsClaim`); a second insert of it waits,
  as the unique index makes it do;
- the versioned UPDATE and the COMMIT are one step (`CommitPayment`,
  `CommitVoid`, `CommitAttach`): the row lock hides what lies between them. When
  the version has moved on the UPDATE matches no row and the job rolls back.

`DatabaseError` ends any request at any step, `Restart` ends all of them and
clears the cache. A commit whose answer is lost is a commit followed by one of
these.

Abstractions. Amounts are integers: every comparison in the code is made on
minor units. `CreditBalance` is left out, as it is a function of paid and total.
An attached line adds one unit to the total; the de-duplication of lines and the
sealed-invoice check, which leave the totals as they are, are left out. A refund
finds its original by reference in the newest row of any tenant; creation times
do not follow commit order, so the model takes any of them. Event counters and
the order-creation call, which change no ledger state, are left out.
`MarkIssued` has no caller.

`Account` and `Rows` are what the atomic ledger sees of the two tables, and
`ImplementsAtomicLedger` is its specification under that mapping. `Total` of
`Amounts`, in which `PaidMatchesLedger` and the wallet's `BalanceMatchesEntries`
are stated, counts the units that rows credit and debit: the sum of their amounts
as a difference of two cardinalities, which TLC evaluates and the provers can
reason about without recursion.

### WorkerLease

One lease name. `main[r]` is where `RunAsLeader` stands on replica `r`,
`renewing`/`cancelled` the renewal goroutine and its context, `stmt[r]` the age
of the clock reading of a claim under way, and `age[r]` that of the last
successful claim. Time is relative: `lease.left` is the time until `expires_at`
and `Tick` decrements it, so the state stays finite without a clock that grows.
The two goroutines share `stmt`: while the acquire loop runs there is no renewal.
An error may mean that the claim was applied or that it was not. `Release` runs
before `cancelRenew`, in the order of the deferred calls, so a renewal under way
may take the lease again. A crashed process comes back either as a new holder
(the row then belongs to `Gone`) or under its old name.

### OutboxRelay

`SaveEvents` adds an event together with the transaction that wrote it. The
relay loop of each replica is a step machine: query, pick or skip, one step per
handler, then the update of `published_at`. `UnderLease` joins it with the lease:
winning the lease starts `Run`, and `Run` returns only from its select. The
payload was written by `json.Marshal`, so `json.Unmarshal` does not fail on it,
and the bus is not nil in the server. A "dead-lettered" event is only logged as
one: it stays pending with its counters reset, and the model does the same.

### DriverWallet

`settled` is the driver's rows of `driver_settlements`, `entries` those of
`driver_ledger_entries` with their reference and amount, `balance` the
`balance_after` of the newest one, `payout` the status under each idempotency
key, `seen` the table `provider_events`, and `acked` the events answered with
200. Here a unit of work is SERIALIZABLE, so the whole transaction is one step
(`CreateSettlement`, `InitiatePayout`, `ApplyOutcome`); what the code reads
before it is a step of its own (`FindSettlement`, `FindPayout`,
`LookupProviderEvent`, `ValidateTransition`) and may be stale in it. The three
look-ups whose error the code ignores may miss a row (`FindsNothing`). When the
processed marker is a duplicate, SQLite commits the rest of the transaction and
Postgres has aborted it: `ApplyOutcome` allows both.

Abstractions. The amounts of a settlement are constants per entry type; the
rates that give them are left out. The account is verified. Events carry the
payout's own amount, currency and provider id, so those checks pass, and each
arrives under its own `X-Razorpay-Event-Id`. Without that header
`settlement_handler.go:130-140` makes an id from the event's kind alone, under
which the same report on a second payout would be answered without effect; the
comment there says that this is for local tests only, and it is left out. Nothing in
`src/` cancels a payout, and the append branch of the back-fill needs a header
without its entries, which the code no longer writes (`HeaderComplete`).

### CommOutbox

`row` is `comm_outbox` (status, attempts, whether `next_attempt_at` has passed,
the age of a claim), `worker[w]` the loop of `Worker.Run` on one replica with its
tasks and the attempts it read, `cancelled` the workers whose context is done,
and `acked` the events whose handler returned nil. `delivered` counts what
reached the recipient; only the properties read it. The steps of `deliver` are
steps of the model: read attempts, claim by compare-and-set, send, mark. A
statement fails when the context is done or, within `MaxFaults`, at any time; a
claim that reports an error may have been applied. A send may report an error
after the message was accepted.

`Recipients[e]` is who should get a message, `Looked` the events whose tenant or
recipient the handler reads from the database. The handlers of the subscriber
enqueue one row and return the insert's error, but ignore that of the look-up:
the event is then skipped and acknowledged (`HandleEvent`). `HandlePODEvent`
enqueues up to two rows and always returns nil.

`RunAsLeader` ends for good when the worker's context is done: the worker's
process is then `ended` until somebody restarts it (`Restart`, never assumed to
happen).

Abstractions. Time is relative: `Tick` ages the claims up to `StaleAfter + 1`, and
`held` bounds how long a worker holds one (`MaxHold`), since `sendTimeout` is far
below `DefaultStaleAfter`. The channels in `Timed` keep to that deadline. The
SMTP sender passes its context to the dial only (`notifications/adapters.go`), so
whether e-mail keeps to it is a choice of the instance: in `comm` it does not, so
that a claim is reaped under a sender that is still at work; `OneSender` speaks of
the channels that do. A relay that hangs after the dial stops the loop although
the comment at `outbox.go:34` says it cannot. Batch size, jitter length and back-off length are left out: a row
that is pushed back becomes due again some time later.

### TripDispatch

`booking`, `trip` and `offer` are the tables, `used`, `reserved` and `committed`
the meter and the usage events, and `job[w]` a request in flight that has found a
trip and keeps the snapshot. The check for conflicts and the look-up of the usage
event are steps between `Find` and the save. A save is refused when the version
has moved on; under SQLite's serializable transactions (`Serial`) also when
anything was committed since the read. Instead of letting a doomed request run
on, `Committed` ends it at once: it could only roll back. The driver's app
(`CheckCommand`, `DriverCommand`, `AcceptOffer`) and the customer's portal
(`CancelCustomerBooking`) write trips without raising the version, and a command
is two statements with no transaction, so nothing outdates it. The bookings in
`PortalBookings` come from the portal (`CreateBookingWithDetails`): confirmed at
once and without a hold on the quota, which their trips' completion then counts.

Abstractions. A trip keeps whether all of its stops are settled (`done`) and
whether it has an arrival time (`arrived`); the stops themselves, their OTPs and
PODs are behind that. `Late` says which delivered trips arrive after another's
departure. Where a SELECT has no ORDER BY, or orders by a creation time that the
model does not keep, any row may come. A retry with the same idempotency key
changes nothing, so a trip stands for its key. Checks that only refuse
(compliance, credit, documents) are `Rollback`. A booking's own use cases read and
save one row under its version and appear as one step.

### MobileQueue

`session` is the auth store, `queue` the two SQLite tables, each a set of rows with
item, owner and place in the order of `created_at` (`at`; a new row comes after all
that are there), `flush[f]` a running `flush()` with the owner it captured and the rest of
its batch, `handler[h]` a request on the server, `expenses` and `delivered` what
the server has recorded, `expired` what the 7-day expiry deleted, and `work` what
the driver was told. A step is the code between two awaits that matter: the
SELECT and the INSERT of `enqueuePOD` are one step, since one screen submits a
POD and its button is disabled meanwhile. The expense handler is two steps,
look-up and insert, as two requests with one key may both pass the look-up.
`ConnectionLost` loses the request, or the answer of a request that is then
completed with nobody listening; `Restart` kills the app and may expire rows. When
the phone's database refuses a row (`EnqueueFails`), `ExpenseScreen` says "Saved
Offline" all the same; the POD screen tells nothing and the driver submits again.

Abstractions. A claim stands for its idempotency key, which the screens make once
per claim. Whether the server refuses an item for its content (amount 0 from
voice entry, wrong OTP, trip not started) is a constant (`Refused`). Left out: the
upload of the GPS log (`queued_gps` has no writer, and `syncPendingLogs` is here
only with its lock and the flush at its end), failures of the phone's database
other than a refused row, the race of `loadSession` with a sign-in, and the OCR step after a live submission.
A row stored after the sign-out has no owner, and flushes of a signed-in account
do not select it.

## 3. Runs

| Run | Question | Result |
|---|---|---|
| `ledger_settle` | do captures, refunds, `/verify` and a cheque on invoices of two tenants, two in flight, with a crash or error, keep keys unique and reversals exact, and does captured money arrive? | holds (257 000 states) |
| `ledger_billing` | do payments, reversals, voids and attached lines racing on one invoice implement the atomic ledger? | holds (63 000) |
| `ledger_paid_twice` | "never double count" | **violated** |
| `lease` | does a fresh holder keep its lease, and is an abandoned one taken over? | holds (61 000) |
| `outbox` | is an event published only after every handler succeeded, and every stored event in the end? | holds (112 000) |
| `wallet` | do settlements, payouts and provider events, two in flight, with a failed look-up, statement or crash, keep the wallet's books, and is returned money credited? | holds (189 000) |
| `comm` | with two workers, reaped claims, lost leases and crashes: is a message in one hand only, sent only if delivered, acknowledged only if queued, left alone once final, and tried again while it has attempts left? | holds (194 000) |
| `trips_desk` | two requests of the back office on two trips of one driver and vehicle: double booking, undone transitions, open stops, double counting? | holds (541 000) |
| `trips_app` | two offers of one booking, driver commands and the back office on one trip: does one offer win? | holds (472 000) |
| `trips_over_served` | "a full plan rejects the booking instead of silently over-serving" | **violated** |
| `mobile` | with concurrent flushes, lost answers, a restart and a sign-out: is a claim recorded once, does a queued one stay until the server has it, and does it get there? | holds (837 000) |
| `mobile_owner` | "only the current account's work flushes" | **violated** |

The violated ones are disagreements between a comment or test and the code;
`findings` in `PROJECT.json` quotes both.

- `ledger_paid_twice`: `order.paid` is booked under the order id, and
  `payment.captured` and `/verify` under the payment id. The same money gets two
  rows.
- `trips_over_served`: a booking's first trip is cancelled and a replacement is
  created. Cancelling the booking releases its unit, finds the old trip and leaves
  the replacement alone; that one is completed and counted, while another booking
  has taken the unit (`PortalBookings` is empty there: bookings from the portal
  hold no unit to begin with). The clamp in `ReleaseQuota` lets a booking that is
  cancelled after its trip was counted give back the hold of another one.
- `mobile_owner`: `flush()` captures the owner once and reads the token for each
  item. When the driver signs out and another one signs in while a request is on
  its way, the first driver's next row is sent, and recorded, as the second one's.

More things that the models show and that no passing property contradicts. The
first five are promises of comments that the code does not keep; each passing
property next to them states what is left of the promise.

- A message can be lost although `comm/outbox.go:3-4` says "true outbox - no lost
  sends". The SELECT of tenant and recipient fails, its error is ignored, the
  handler returns nil and the relay marks the event published: no row, no retry
  (`subscriber.go:141-166` and the other handlers). `HandlePODEvent` also only
  logs a failed insert. `AckedIsQueued` is left: events whose payload carries
  tenant and recipient and whose handler returns the insert's error. Stated for
  every acknowledged event, TLC violates it.
- A row can be stranded although `comm/outbox.go:5-6` promises dead-lettering after
  `MaxAttempts` and lines 31-32 say the reaper returns a stale claim to the queue.
  The claim of the last attempt is left behind (the worker dies, or its mark
  fails) and reaped: the row is `failed` with all attempts used, which the poll does
  not select, and only `deliver` marks rows dead. `TriedAgain` is left: a row with
  attempts left is never stuck, unless a sender without a deadline hangs. TLC violates "sent or dead in the end" with one
  worker and one fault.
- A claim can be lost after "Saved Offline" (`ExpenseScreen.tsx:182-206`;
  `mobile/README.md:72` says everything is written to the queue first). Its request
  fails, the phone's database refuses the row, and the empty `catch` hides it.
  `QueuedIsKept` is left: what is on the phone stays until the server has it.
- A POD of another account can be deleted although `offlineQueue.ts:332-333` says
  "retained, never deleted": `clearPOD` (228-234) deletes by trip and stop, so the
  accepted POD of a trip takes along the stop POD that another account has queued
  for it. `QueuedIsKept` is about claims, which `clearExpense` deletes by key.
- One failure can block the rest although `syncEngine.ts:87` says it does not: the
  slice at `offlineQueue.ts:412` takes the oldest rows, and a refused row is not
  removed before its expiry, so as many as a batch holds starve the others.
  `QueuedIsRecorded` has the hypothesis that they are fewer; without it TLC finds
  the starvation with `BatchSize = 1`.

And three more:

- a leader whose renewal is late runs on after `expires_at` while another replica
  has taken the lease (`leader.go:82` says exactly one executes). `OutboxRelay`
  and `CommOutbox` therefore allow several workers: handlers must be idempotent,
  and the claim of the comm worker keeps a message in one hand (`OneSender`);
- `RunAsLeader` ends for good after one failed renewal or panic and is started
  once per process; when that has happened on each replica, the worker is gone
  until a restart. `WaiterTakesOver` speaks of replicas that still wait;
- a payout's transition is checked on a row read before the transaction:
  `processed` and `reversed` may both pass and the later commit turns a reversed
  payout into a paid one. The wallet stays right (`BookedOnce`, `AckedIsApplied`);
  the status does not.

Bounds and why they suffice. Two requests or workers: every race in the code is
between two transactions on one row or one key; the theorems cover any number.
In `ledger_billing` one invoice with total 2, a gateway payment of 1 and cash of 2
reach partly paid, paid and overpaid. `MaxFaults` bounds restarts and errors (one
can strike at each step). Two replicas, a TTL of three renewal periods as in the
code, one unit of clock error and of statement delay let a claim be delayed past
an expiry. Two handlers are what a partial fan-out needs, and two attempts reach
the limit. `outbox` has one replica, which may crash, restart and lose its lease;
overlapping relays are covered by the theorem. Its TTL is one unit, since `lease`
covers the details. In `wallet` the trips net 2 and 1 and each payout takes 2, so
that two payouts compete for one balance and a credit makes room for the second;
one payout is paid and comes back, the other is pending and fails. `comm` has
one row with two attempts and two faults, from an event of each kind (with the
recipient in the payload, looked up, POD): what happens to a row depends on no
other one, except for the push-back of WhatsApp rows, which only delays them.
E-mail keeps no deadline there, so a worker may be late on a claim that was
reaped, claimed again and settled by the other. In `trips_desk` two trips compete for one
driver and one vehicle, one of them short, one late for the other, and the plan
has one unit; `trips_app` has two drivers, a booking from the portal and a trip that the app writes;
`trips_over_served` needs three trips of two bookings and only one request at a
time. In `mobile` one fault and one sign-out can strike at each await, a refused
claim and a good one share the batch of two, and a claim and a POD may be on the
server together; the refused claims are fewer than the batch, as
`QueuedIsRecorded` wants. `trips_*` may stop (`CHECK_DEADLOCK FALSE`):
nobody has to make a booking, and deleted bookings and finished trips are final.
`ledger_billing`, `ledger_paid_twice` and `trips_*` use symmetry over
interchangeable requests, trips or bookings; runs with liveness use none. Each
property is paired with a mutant of the code (a dropped guard, a missed case, an
off-by-one) under which its run fails.

Fairness. Requests in flight and goroutines keep running (weak fairness of
`Step`, `MainLoop`, `RenewLoop`, `Relaying`, `Working`). Razorpay redelivers an
event until it is acknowledged: strong fairness of a delivery of an
unacknowledged event (in `DriverWallet` too), since a worker may be busy in
between; no request other than that is ever assumed to arrive. Time passes: strong
fairness of `Tick` in `WorkerLease`, which waits for a statement at its delay
bound. A worker function honours its cancelled context; a select whose `Done` case
is ready again and again takes it at some point (strong fairness of
`RelayReturns` and of `Stop` in `CommOutbox`). Of the comm workers that wait for
the lease some one gets it when nobody runs (`Takeover`, what `WaiterTakesOver`
shows of the lease); a process whose worker ended is not assumed to come back, and
the liveness properties end with the last worker (`NobodyLeft`). On the phone the 15 s timer keeps starting
flushes while somebody is signed in, awaits end and the server answers (weak
fairness of `StartFlush`, `FlushStep`, `HandlerStep`); nobody has to sign in,
submit or restart. No fairness makes a statement, a send or a handler succeed:
only the bounds on faults end failures, and the liveness results read "if
failures stop".

## 4. Proofs

All theorems hold for arbitrary constants that satisfy the assumptions the
modules name (`LedgerAssumption`, `LeaseAssumption`, `RelayAssumption`,
`WalletAssumption`, `CommAssumption`, `DispatchAssumption`, `MobileAssumption`), with
unbounded sets of requests, invoices, replicas, events, trips and flushes. Every
safety property that a run checks is also a theorem; `WalletStaysCovered` and three
of the trip theorems have a hypothesis, named below. None of the properties is
inductive alone; each paragraph names what its invariant adds.

**PaymentLedgerProofs.** Three invariants, each on top of the one before.

`Safe` gives `TypeCorrect`, `KeysAreUnique`, `StatusIsRight`, `ReversalsAreExact`,
`NothingIsLost` and `VoidStays`. It adds, about each job:

- `SnapFresh`: a snapshot with the invoice's current version equals the current
  row, so a save that is not rejected writes from the present state. This gives
  `StatusMatchesBalance`, `NoLostUpdate` and `VoidIsFinal`;
- `ClaimFree`: while a job holds a key, no committed row and no other job of the
  tenant has it. This gives `KeysUnique`;
- `ReversalJob`: a reversal under way carries the invoice and the negated amount
  of a committed original. With `IdsBelow` (ids are below `nextId`) this gives
  `ReversalExact`.

`AckSafe` gives `AckedIsInLedger`. What an event asks for is recorded not only when
it is acknowledged but already when it is in the in-memory cache, when its id
stands on a payment row, and when a job comes back from the use case
(`EventJob`); a job on its way there carries the key the event asks for. Rows are
never deleted, so `Recorded` stays true once it is.

`PaySafe` gives `PaidIsTotal` and `PaidIsLive`. That paid is the total of the rows
does not carry itself: the clamp at zero in `ApplyPayment` would break it if a
reversal took back more than is there. So the invariant adds a second total: paid
is also the total of the credits that no reversal names (`Live`), which is never
negative. A reversal of a credit removes that credit from `Live` (it is there:
the reversal holds its key, so no earlier one exists), a reversal of a reversal
adds one; both totals move by the new row's amount, and the clamp never acts
(`NoClamp`).

`ImplementsAtomic`: a committed payment or reversal is one `Post` (its key is new
by `ClaimFree`, its invoice not cancelled by `SnapFresh`, its amount covered by
`NoClamp`), a committed void one `Void` (it was decided on the row it overwrites,
which is not paid, so paid is below the total), an attached line one `Reprice`
(the row is `pending`, so nothing is paid), and no other step touches the tables.

**WorkerLeaseProofs.** `LeaseTypeCorrect` and `FreshHolderIsSafe`. The invariant
adds `FreshRow` (a fresh holder's row has at least the time left that its last
claim gave it, less the clock error, so another replica's claim, whose clock
reading may be old, does not see it expired) and `RenewalYounger` (a renewal
under way read its clock after the last successful claim). It needs
`TTL > 2 * MaxSkew`, and no bound on the delay of a statement.

**OutboxRelayProofs.** `RelayTypeCorrect` and `AcknowledgedWasDelivered`. The
invariant adds, about each loop, that the handlers before the current one have
handled the event unless the loop has noted a failure. `RelayKeepsLeaseSpec`: the
composition implements the lease specification, so the theorems about the lease
hold with a worker inside it. With the fact that a loop runs inside `RunAsLeader`
only, this gives `RelaysDoNotOverlap`: two relays are at work at once only if the
claim of one of them is older than the TTL less twice the clock error. This is
what remains of "exactly one replica" (`leader.go:82`).

**DriverWalletProofs.** `WalletTypeCorrect`, `NothingBookedTwice`,
`HeadersAreComplete`, `PayoutsAreBooked`, `AnsweredWasApplied`, `BalanceIsTotal`
and `WalletStaysCovered`. The books hold each other up: a new line is not a
repetition because its header is missing (`HeaderComplete`), a new debit because
its instruction is (`PayoutBooked`). The invariant adds `SeenIsApplied` (what
holds of an answered event holds already when its marker is written, so a
redelivery may be answered from the marker) and `EventKnown` (a webhook request
concerns an existing instruction). `WalletStaysCovered` assumes that no
settlement deducts more than it earns; the code does not enforce this, since it
clamps `net_payout` in the header only.

`BalanceIsTotal` rests on the lemmas of `AmountsProofs` and on `BookedOnce`: an entry
that is not there yet adds its amount to the total.

**CommOutboxProofs.** `CommTypeTheorem`, `OneSenderTheorem`,
`SentWasDeliveredTheorem`, `AckedIsQueuedTheorem` and `FinalTheorem`, from `CommInv`.
`AckedIsQueued` excludes, by its statement, the events whose handler swallows an error.
The row of a worker that keeps to its deadline is still `sending` and not older
than the worker has held it (`WorkerOK`); `MaxHold <= StaleAfter`, so the reaper
leaves it alone and the compare-and-set of a second worker fails. For channels
without a deadline, whose claims may be reaped under their holder, the invariant
counts: deliveries made plus workers about to send are at most the attempts
(`Paid`). That a worker in hand of a row has a real row, and that what it is about
to mark as sent was delivered, gives the rest.

**TripDispatchProofs.** On every database, from `DispatchInv`: `DispatchTypeTheorem` and
`OneAcceptedOfferTheorem`; from `VersionInv`, which adds `Current`:
`CompletedWithStopsTheorem`. `Current` is what the version guards: the stops of a trip
are as the request found them, and so is its status, unless the portal cancelled
it without raising the version.

With serializable transactions (`ASSUME Serial`, the shipped SQLite), from
`SerialInv`: `NoDoubleBookingTheorem`, `UsedMatchesEventsTheorem` and
`TripMovesForwardTheorem`. The added fact is `Live`: what a request has read (the
trip, that the driver or vehicle is free, that the usage event is missing) is still
true, because a commit ends every request that read before it. Only a driver's
command, which has no transaction, outlives one; the trips it writes (`byApp`) are
exempt. The hypothesis is needed: with `Serial = FALSE` TLC violates
`NoDoubleBooking` (two assignments that share no row), `UsedMatchesEvents` (two
completions for one booking both miss the usage event) and `TripMovesForward`
(`CancelCustomerBooking` raises no version, so a save overwrites its cancellation).

**MobileQueueProofs.** `RecordedOnceTheorem` and `QueuedIsKeptTheorem`, from `MobileInv`. A
request is answered with success only when the server has its item (`HandlerOK`);
so a claim's row that is cleared after such an answer leaves the claim on the
server, and clearing another item's rows leaves it on the phone. The rows in flight
may be stale copies: nothing is assumed of a flush beyond what its requests say.

**AmountsProofs.** Lemmas only: the total of no rows, with a row added, with one
removed, and of credits alone.

Only model-checked: the liveness properties (`CapturedIsCredited`,
`RefundIsReversed`, `WaiterTakesOver`, `StoredIsPublished`, `ReversalIsCredited`,
`TriedAgain`, `QueuedIsRecorded`), which are out of the prover's reach, and the
three violated properties, which are false.

## 5. Not modelled

- The rest of entitlements: the subscription webhook (its out-of-order check
  reads outside the transaction, `entitlement/application/service.go:497`),
  dunning and the roll-over of a usage period.
- `TripDispatch` at READ COMMITTED is not a run: the runs set `Serial` to TRUE, the
  shipped SQLite. Section 4 says what is lost with FALSE.
- The legacy `TripService` and payment service, and the line-item editor, which
  write the same tables without the version guard.
- In the ledger: amounts of partial refunds (the code reverses the whole
  payment), invoices with total zero, the amount `/verify` reads before it
  records. In the wallet: headers without entries from earlier releases and the
  back-fill that repairs them, several clocks behind `created_at`, settlements
  that deduct more than they earn.
- The geofence dwell engine, the alert pipeline and the GPS upload of the app:
  automata over position streams with their own workers, the next candidates.
- External I/O, parsing, rendering, CRUD, read models, auth and configuration:
  there is no protocol to check beyond one row or one call.

The platform has far more code than these protocols: the map covers the parts
where several actors share state, not the pages, queries and clients around them.

## 6. Plan

Done: `PaymentLedger` with `AtomicLedger`, `WorkerLease`, `OutboxRelay` over the
lease, `DriverWallet`, `CommOutbox`, `TripDispatch`, `MobileQueue`; a theorem for every
safety property and for the refinement. Next:

1. Under which webhook events "never double count" holds: an inductive statement
   for gateway payments that only one kind of event reports.
2. `TripDispatch` at READ COMMITTED: which of the four theorems survive when the
   customer's portal raises the version.
3. An abstract specification of the comm outbox (queued, sent or dead, with a
   number of deliveries) and the refinement to it, as for the ledger.
