----------------------------- MODULE CommOutbox -----------------------------
(***************************************************************************)
(* The queue of outbound messages (internal/comm): the event handlers that *)
(* fill comm_outbox and the workers that send its rows by e-mail and       *)
(* WhatsApp.  One worker runs per lease, but leases may overlap, so any    *)
(* number of workers runs here; a worker may lose its lease or die at      *)
(* every step.                                                             *)
(***************************************************************************)
EXTENDS Naturals

CONSTANTS
    Workers,
    MaxRows,        \* bound on the rows ever inserted
    Events,         \* domain events the bus hands to the subscriber
    PodEvents,      \* those HandlePODEvent handles
    Recipients,     \* the channels an event has a tenant and recipient for
    Looked,         \* events whose tenant or recipient is read from the database
    Timed,          \* channels whose sender honours the deadline of its context
    MaxAttempts,    \* DefaultMaxAttempts
    StaleAfter,     \* DefaultStaleAfter, in ticks
    MaxHold,        \* sendTimeout and the statements around it, in ticks
    MaxFaults,      \* bound on failing statements, lost leases and crashes
    NoEvent

Channels == {"email", "whatsapp"}

Rows == 1..MaxRows

ASSUME CommAssumption ==
    /\ MaxRows \in Nat /\ MaxFaults \in Nat /\ MaxAttempts \in Nat \ {0}
    /\ PodEvents \subseteq Events /\ NoEvent \notin Events
    /\ Recipients \in [Events -> SUBSET Channels]
    /\ \A e \in Events \ PodEvents : \A c, d \in Recipients[e] : c = d
    /\ Looked \subseteq Events
    /\ Timed \subseteq Channels
    /\ StaleAfter \in Nat /\ MaxHold \in 0..StaleAfter

VARIABLES
    row,        \* comm_outbox
    used,       \* rows inserted so far
    acked,      \* events with a recipient whose handler reported success
    worker,     \* the loop of each worker
    cancelled,  \* workers whose context is done
    delivered,  \* how often each row's message reached its recipient
    faults

vars == <<row, used, acked, worker, cancelled, delivered, faults>>

\* The mutant invents a status the table's CHECK does not know.
Row_Queued(e, c) ==
    [ev |-> e, ch |-> c, status |-> "queued", attempts |-> 0,
     due |-> TRUE, age |-> 0]

Row(e, c) ==
    [ev |-> e, ch |-> c, status |-> "pending", attempts |-> 0,
     due |-> TRUE, age |-> 0]

NoRow == [Row(NoEvent, "email") EXCEPT !.status = "none"]

Loop(pc, todo) == [pc |-> pc, todo |-> todo, id |-> 0, seen |-> 0, held |-> 0]

Init ==
    /\ row = [i \in Rows |-> NoRow] /\ used = 0
    /\ acked = {}
    /\ worker = [w \in Workers |-> Loop("off", {})]
    /\ cancelled = {}
    /\ delivered = [i \in Rows |-> 0]
    /\ faults = 0

Fault == faults < MaxFaults /\ faults' = faults + 1

-----------------------------------------------------------------------------
(* The event handlers.                                                     *)

\* EnqueueRichEmail and EnqueueRichWhatsApp: one new row.
Enqueue(e, c) ==
    /\ used < MaxRows
    /\ used' = used + 1
    /\ row' = [row EXCEPT ![used + 1] = Row(e, c)]

\* The mutant reports success when the insert failed.
EnqueueFailed_Ack(e) == acked' = acked \cup {e}

EnqueueFailed(e) == UNCHANGED acked

\* HandleInvoiceEvent, HandleTripDispatchEvent, HandleTrackingEvent and
\* HandleAuthEvent: one message; an error of the insert goes back to the relay.
\* An error of the look-up does not: the handler takes the event for one
\* without tenant or recipient, skips it and returns nil.
HandleEvent(e) ==
    /\ e \notin PodEvents
    /\ \E c \in Recipients[e] :
         \/ /\ Enqueue(e, c)
            /\ acked' = acked \cup {e}
            /\ UNCHANGED faults
         \/ /\ EnqueueFailed(e)
            /\ Fault
            /\ UNCHANGED <<row, used>>
         \/ /\ e \in Looked
            /\ acked' = acked \cup {e}
            /\ Fault
            /\ UNCHANGED <<row, used>>
    /\ UNCHANGED <<worker, cancelled, delivered>>

Queued(e, c) == \E i \in Rows : row[i].status # "none" /\ row[i].ev = e /\ row[i].ch = c

\* HandlePODEvent inserts an e-mail and then a WhatsApp message, each in a
\* statement of its own, and always returns nil: a look-up or an insert that
\* fails is logged and its message lost.
HandlePODEvent(e) ==
    /\ e \in PodEvents
    /\ \/ /\ \E c \in Recipients[e] : Enqueue(e, c)
          /\ UNCHANGED <<acked, faults>>
       \/ /\ acked' = acked \cup {e}
          /\ IF \A c \in Recipients[e] : Queued(e, c) THEN UNCHANGED faults ELSE Fault
          /\ UNCHANGED <<row, used>>
    /\ UNCHANGED <<worker, cancelled, delivered>>

-----------------------------------------------------------------------------
(* The worker.                                                             *)

At(w, pc) == worker[w].pc = pc

Goto(w, pc) == worker' = [worker EXCEPT ![w] = Loop(pc, worker[w].todo)]

Running(w) == worker[w].pc \notin {"off", "ended"}

\* RunAsLeader gets the lease and calls Run: the first round starts at once.
Start(w) ==
    /\ At(w, "off")
    /\ worker' = [worker EXCEPT ![w] = Loop("idle", {})]
    /\ UNCHANGED <<row, used, acked, cancelled, delivered, faults>>

\* A statement of worker w fails: its context is done, or the database is
\* troubled.
StatementFails(w) == IF w \in cancelled THEN UNCHANGED faults ELSE Fault

StatementWorks(w) == w \notin cancelled /\ UNCHANGED faults

\* A claim is stale when its time lies more than StaleAfter back; the mutant
\* reaps every claim that is not from this very moment.
Stale_Early(i) == row[i].status = "sending" /\ row[i].age > 0

Stale(i) == row[i].status = "sending" /\ row[i].age > StaleAfter

\* A round starts, at once or with the ticker; reapStale leaves attempts and
\* next_attempt_at alone.
ReapStale(w) ==
    /\ At(w, "idle")
    /\ \/ /\ StatementWorks(w)
          /\ row' = [i \in Rows |->
                       IF Stale(i) THEN [row[i] EXCEPT !.status = "failed", !.age = 0]
                       ELSE row[i]]
       \/ StatementFails(w) /\ UNCHANGED row
    /\ Goto(w, "poll")
    /\ UNCHANGED <<used, acked, cancelled, delivered>>

Open(i) == row[i].status \in {"pending", "failed"}

\* The SELECT of process; the mutant forgets the failed rows.
Pollable_Pending(i) ==
    row[i].status = "pending" /\ row[i].due /\ row[i].attempts < MaxAttempts

Pollable(i) == Open(i) /\ row[i].due /\ row[i].attempts < MaxAttempts

Poll(w) ==
    /\ At(w, "poll")
    /\ \/ /\ StatementWorks(w)
          /\ worker' = [worker EXCEPT ![w] = Loop("loop", {i \in Rows : Pollable(i)})]
       \/ /\ StatementFails(w)
          /\ worker' = [worker EXCEPT ![w] = Loop("idle", {})]
    /\ UNCHANGED <<row, used, acked, cancelled, delivered>>

\* The loop over the tasks, in the order of created_at, which has a resolution
\* of a second: any order.  deliver starts by reading the row's attempts.
ReadAttempts(w) ==
    /\ At(w, "loop")
    /\ \E i \in worker[w].todo :
         \/ /\ StatementWorks(w)
            /\ worker' = [worker EXCEPT ![w] =
                            [Loop("claim", @.todo \ {i})
                               EXCEPT !.id = i, !.seen = row[i].attempts]]
         \/ /\ w \notin cancelled /\ Fault
            /\ worker' = [worker EXCEPT ![w] = Loop("loop", @.todo \ {i})]
    /\ UNCHANGED <<row, used, acked, cancelled, delivered>>

\* process returns: the tasks are done, or the context is (also out of the
\* jitter sleep).
RoundEnds(w) ==
    /\ At(w, "loop")
    /\ worker[w].todo = {} \/ w \in cancelled
    /\ worker' = [worker EXCEPT ![w] = Loop("idle", {})]
    /\ UNCHANGED <<row, used, acked, cancelled, delivered, faults>>

\* The compare-and-set of the claim.
Claimable(i) == Open(i)

\* Every claim is an attempt; the mutant counts none.
SetSending_NoCount(i) ==
    row' = [row EXCEPT ![i].status = "sending", ![i].due = TRUE, ![i].age = 0]

SetSending(i) ==
    row' = [row EXCEPT ![i].status = "sending", ![i].attempts = @ + 1,
                       ![i].due = TRUE, ![i].age = 0]

\* The claim; a statement that reports an error may have been applied.  Then
\* the row is read, and a failure of that leaves the claim behind.
Claim(w) ==
    LET i == worker[w].id IN
    /\ At(w, "claim")
    /\ \/ /\ StatementWorks(w)
          /\ Claimable(i)
          /\ SetSending(i)
          /\ worker' = [worker EXCEPT ![w].pc = "send"]
       \/ /\ StatementWorks(w)
          /\ ~Claimable(i)
          /\ Goto(w, "loop")
          /\ UNCHANGED row
       \/ /\ StatementFails(w)
          /\ \/ UNCHANGED row
             \/ Claimable(i) /\ SetSending(i)
          /\ Goto(w, "loop")
    /\ UNCHANGED <<used, acked, cancelled, delivered>>

\* send: success, failure, or an error after the message was accepted (the
\* SMTP QUIT, or a deadline that passes just then).
Send(w) ==
    LET i == worker[w].id IN
    /\ At(w, "send")
    /\ \E ok, reached \in BOOLEAN :
         /\ ok => reached
         /\ worker' = [worker EXCEPT ![w].pc = IF ok THEN "marksent" ELSE "markfailed"]
         /\ delivered' = [delivered EXCEPT ![i] = IF reached THEN @ + 1 ELSE @]
    /\ UNCHANGED <<row, used, acked, cancelled, faults>>

\* "WHERE ... status='sending'": only a claimed row is marked; the mutant
\* leaves the condition out.
StillSending_Any(i) == TRUE

StillSending(i) == row[i].status = "sending"

\* The push-back of the WhatsApp rows that are due, after one was sent; a row
\* that was reaped under its sender is one of them.
PushBack(i, j) ==
    /\ row[i].ch = "whatsapp" /\ row[j].ch = "whatsapp"
    /\ Open(j) /\ row[j].due

\* Mark the row sent.  The push-back is a statement of its own whose errors
\* are ignored.
MarkSent(w) ==
    LET i == worker[w].id IN
    /\ At(w, "marksent")
    /\ \/ /\ StatementWorks(w)
          /\ \E pushed \in {{}, {j \in Rows : PushBack(i, j)}} :
               row' = [j \in Rows |->
                         IF j = i /\ StillSending(i)
                         THEN [row[j] EXCEPT !.status = "sent", !.age = 0]
                         ELSE IF j \in pushed THEN [row[j] EXCEPT !.due = FALSE]
                         ELSE row[j]]
       \/ StatementFails(w) /\ UNCHANGED row
    /\ Goto(w, "loop")
    /\ UNCHANGED <<used, acked, cancelled, delivered>>

\* The attempt that dead-letters the row, by the attempts read before the claim.
Dead(w) == worker[w].seen + 1 >= MaxAttempts

\* Mark the row failed, with back-off, or dead.
MarkFailed(w) ==
    LET i == worker[w].id IN
    /\ At(w, "markfailed")
    /\ \/ /\ StatementWorks(w)
          /\ row' = IF ~StillSending(i) THEN row
                    ELSE [row EXCEPT ![i].status = IF Dead(w) THEN "dead" ELSE "failed",
                                     ![i].due = Dead(w), ![i].age = 0]
       \/ StatementFails(w) /\ UNCHANGED row
    /\ Goto(w, "loop")
    /\ UNCHANGED <<used, acked, cancelled, delivered>>

\* Run returns from its select when the context is done, and with it
\* RunAsLeader: this process has no worker any more.
Stop(w) ==
    /\ At(w, "idle") /\ w \in cancelled
    /\ worker' = [worker EXCEPT ![w] = Loop("ended", {})]
    /\ UNCHANGED <<row, used, acked, cancelled, delivered, faults>>

\* The lease is lost or the server shuts down; or the process dies.
Cancel(w) ==
    /\ Running(w) /\ w \notin cancelled
    /\ Fault
    /\ cancelled' = cancelled \cup {w}
    /\ UNCHANGED <<row, used, acked, worker, delivered>>

Crash(w) ==
    /\ ~At(w, "ended")
    /\ Fault
    /\ worker' = [worker EXCEPT ![w] = Loop("ended", {})]
    /\ UNCHANGED <<row, used, acked, cancelled, delivered>>

\* The process is started again and waits for the lease.
Restart(w) ==
    /\ At(w, "ended")
    /\ worker' = [worker EXCEPT ![w] = Loop("off", {})]
    /\ cancelled' = cancelled \ {w}
    /\ UNCHANGED <<row, used, acked, delivered, faults>>

-----------------------------------------------------------------------------
(* Time.                                                                   *)

Holding(w) == worker[w].pc \in {"send", "marksent", "markfailed"}

HoldsTimed(w) == Holding(w) /\ row[worker[w].id].ch \in Timed

\* A worker is done with a claim after MaxHold, if its sender keeps to the
\* deadline it is given.
Tick ==
    /\ \A w \in Workers : HoldsTimed(w) => worker[w].held < MaxHold
    /\ row' = [i \in Rows |->
                 IF row[i].status = "sending" /\ row[i].age <= StaleAfter
                 THEN [row[i] EXCEPT !.age = @ + 1] ELSE row[i]]
    /\ worker' = [w \in Workers |->
                    IF HoldsTimed(w) THEN [worker[w] EXCEPT !.held = @ + 1]
                    ELSE worker[w]]
    /\ UNCHANGED <<used, acked, cancelled, delivered, faults>>

\* next_attempt_at passes.
BecomesDue(i) ==
    /\ Open(i) /\ ~row[i].due
    /\ row' = [row EXCEPT ![i].due = TRUE]
    /\ UNCHANGED <<used, acked, worker, cancelled, delivered, faults>>

-----------------------------------------------------------------------------

\* A step of the worker that ends by itself; a send only does so in time when
\* its sender keeps to the deadline.
Working(w) ==
    \/ ReapStale(w) \/ Poll(w) \/ ReadAttempts(w) \/ RoundEnds(w)
    \/ Claim(w) \/ MarkSent(w) \/ MarkFailed(w) \/ Stop(w)
    \/ HoldsTimed(w) /\ Send(w)

Next ==
    \/ \E e \in Events : HandleEvent(e) \/ HandlePODEvent(e)
    \/ \E w \in Workers :
         \/ Start(w) \/ ReapStale(w) \/ Poll(w) \/ ReadAttempts(w) \/ RoundEnds(w)
         \/ Claim(w) \/ Send(w) \/ MarkSent(w) \/ MarkFailed(w) \/ Stop(w)
         \/ Cancel(w) \/ Crash(w) \/ Restart(w)
    \/ Tick
    \/ \E i \in Rows : BecomesDue(i)

Spec == Init /\ [][Next]_vars

\* Some waiting process gets a lease nobody holds.
Takeover == (\A w \in Workers : ~Running(w)) /\ \E w \in Workers : Start(w)

\* Goroutines run and clocks advance; a select that keeps finding its context
\* done takes that branch at some point.  Nobody promises that a process which
\* ended is started again.
Fairness ==
    /\ \A w \in Workers : WF_vars(Working(w)) /\ SF_vars(Stop(w))
    /\ WF_vars(Takeover)
    /\ WF_vars(Tick)
    /\ \A i \in Rows : WF_vars(BecomesDue(i))

FairSpec == Spec /\ Fairness

-----------------------------------------------------------------------------
(* Properties.                                                             *)

\* The table and the worker loops keep their shape.
CommTypeOK ==
    /\ row \in [Rows ->
         [ev : Events \cup {NoEvent}, ch : Channels,
          status : {"none", "pending", "sending", "sent", "failed", "dead"},
          attempts : Nat, due : BOOLEAN, age : 0..(StaleAfter + 1)]]
    /\ used \in 0..MaxRows
    /\ acked \subseteq Events
    /\ worker \in [Workers ->
         [pc : {"off", "ended", "idle", "poll", "loop", "claim", "send",
                "marksent", "markfailed"},
          todo : SUBSET Rows, id : Rows \cup {0}, seen : Nat, held : 0..MaxHold]]
    /\ cancelled \subseteq Workers
    /\ delivered \in [Rows -> Nat]
    /\ faults \in 0..MaxFaults

\* "Restart/replica-safe": no message is in the hands of two workers, however
\* leases overlap and claims are reaped, as long as its sender keeps to its
\* deadline.
OneSender ==
    \A v, w \in Workers :
        (HoldsTimed(v) /\ HoldsTimed(w) /\ worker[v].id = worker[w].id) => v = w

\* A row is marked sent only when its message reached the recipient, and every
\* delivery is paid for with an attempt: what is sent twice was claimed twice.
SentWasDelivered ==
    \A i \in Rows :
        /\ row[i].status = "sent" => delivered[i] > 0
        /\ delivered[i] <= row[i].attempts

\* An event the relay may forget has its message in the queue, through failed
\* inserts and redeliveries.  Only for the events whose handler can fail: the
\* POD handler swallows every error, the others that of a look-up.
AckedIsQueued ==
    \A e \in acked \ (PodEvents \cup Looked) : \A c \in Recipients[e] : Queued(e, c)

Final(i) == row[i].status \in {"sent", "dead"}

\* A message that was sent or given up stays so: a worker that comes back late
\* to a claim that was reaped under it, and settled by another, does not open
\* or change the row again.
FinalStaysFinal == [][\A i \in Rows : Final(i) => row'[i].status = row[i].status]_vars

NobodyLeft == \A w \in Workers : At(w, "ended")

Unsettled(i) == row[i].status \in {"pending", "sending", "failed"}

\* A send that no deadline ends.
Hanging == \E w \in Workers : At(w, "send") /\ ~HoldsTimed(w)

\* A message with attempts left is never stuck: whatever state a crash, a lost
\* lease, a failed statement or a back-off leaves it in, it is tried again or
\* final, as long as some process has a worker and no worker hangs in a send.
TriedAgain ==
    \A i \in Rows : \A n \in 0..(MaxAttempts - 1) :
        (Unsettled(i) /\ row[i].attempts = n)
            ~> (row[i].attempts > n \/ Final(i) \/ NobodyLeft \/ Hanging)

=============================================================================
