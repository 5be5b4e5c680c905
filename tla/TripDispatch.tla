---------------------------- MODULE TripDispatch ----------------------------
(***************************************************************************)
(* Bookings, the trips that serve them, the monthly quota they use up, and *)
(* the offers and commands of the driver's app.                            *)
(*                                                                         *)
(* A use case on a trip is one unit of work: it finds the trip, checks,    *)
(* and saves the aggregate under its version.  Request w has found trip    *)
(* job[w].t as job[w].snap.  When its save is bound to be refused, because *)
(* the version moved on or, where transactions are serializable (SQLite),  *)
(* because anything was committed since, the request is over at once: it   *)
(* can only roll back, and has written nothing.  A command of the driver's *)
(* app is two statements outside a transaction, which nothing outdates.    *)
(***************************************************************************)
EXTENDS Naturals, FiniteSets

CONSTANTS
    Bookings, Trips, Drivers, Vehicles,
    PortalBookings, \* bookings that customers make in their portal
    AppDrivers,     \* drivers who use the app
    Requests,       \* requests in flight
    Offers,
    OfferOf,        \* the booking, driver and vehicle of an offer
    Short,          \* trips with at most two stops
    Late,           \* <<u, t>>: u, once delivered, arrives after t departs
    PlanQuota,      \* max_quantity of the usage meter
    Serial,         \* SQLite: a transaction that read old data cannot write
    None

ASSUME DispatchAssumption ==
    /\ None \notin Bookings \cup Trips \cup Drivers \cup Vehicles \cup Requests
    /\ PortalBookings \subseteq Bookings /\ AppDrivers \subseteq Drivers
    /\ OfferOf \in [Offers -> [booking : Bookings, driver : Drivers, vehicle : Vehicles]]
    /\ Short \subseteq Trips /\ Late \subseteq Trips \X Trips
    /\ PlanQuota \in Nat /\ Serial \in BOOLEAN
    /\ IsFiniteSet(Bookings)

VARIABLES
    booking,    \* status of each booking
    trip,       \* the trips table
    used,       \* used_quantity of the current period
    reserved,   \* reserved_quantity
    committed,  \* bookings with a usage event
    offer,      \* status of each offer
    job,        \* the requests in flight
    byApp       \* trips that the driver's app has written (history)

vars == <<booking, trip, used, reserved, committed, offer, job, byApp>>

meter == <<used, reserved, committed>>

NoTrip == [status |-> "none", booking |-> None, driver |-> None, vehicle |-> None,
           done |-> FALSE, arrived |-> FALSE]

Idle == [pc |-> "idle", t |-> None, snap |-> NoTrip, with |-> None,
         counted |-> FALSE]

Init ==
    /\ booking = [b \in Bookings |-> "none"]
    /\ trip = [t \in Trips |-> NoTrip]
    /\ used = 0 /\ reserved = 0 /\ committed = {}
    /\ offer = [o \in Offers |-> "none"]
    /\ job = [w \in Requests |-> Idle]
    /\ byApp = {}

TerminalStatuses == {"completed", "cancelled"}

Open(t) == trip[t].status \notin TerminalStatuses \cup {"none"}

TripsOf(b) == {t \in Trips : trip[t].booking = b}

\* GetTripByBookingID returns one of the booking's trips; its SELECT has no
\* ORDER BY and does not look at the status.
FindByBookingID(b) == IF TripsOf(b) = {} THEN {None} ELSE TripsOf(b)

\* Request x cannot save after a commit that raised the versions of the trips
\* T; the mutant has no guard on the version.
Outdated_Never(x, T) == FALSE

Outdated(x, T) == job[x].pc # "command" /\ (Serial \/ job[x].t \in T)

\* Request w commits.
Committed(w, T) ==
    job' = [x \in Requests |-> IF x = w \/ Outdated(x, T) THEN Idle ELSE job[x]]

-----------------------------------------------------------------------------
(* Bookings and their quota.  A booking is read and saved under its        *)
(* version, so its use cases appear as one step.                           *)

\* The guarded UPDATE of the meter.
ReserveQuota ==
    /\ used + reserved + 1 <= PlanQuota
    /\ reserved' = reserved + 1

\* CreateBookingUseCase, once CanCreateBooking allowed it.
CreateBooking(b) ==
    /\ booking[b] = "none" /\ b \notin PortalBookings
    /\ ReserveQuota
    /\ booking' = [booking EXCEPT ![b] = "pending"]
    /\ Committed(None, {})
    /\ UNCHANGED <<trip, used, committed, offer, byApp>>

\* The customer's portal inserts a confirmed booking and its details in one
\* transaction; it neither asks for quota nor reserves any.
CreateBookingWithDetails(b) ==
    /\ booking[b] = "none" /\ b \in PortalBookings
    /\ booking' = [booking EXCEPT ![b] = "confirmed"]
    /\ Committed(None, {})
    /\ UNCHANGED <<trip, meter, offer, byApp>>

ConfirmBooking(b) ==
    /\ booking[b] = "pending"
    /\ booking' = [booking EXCEPT ![b] = "confirmed"]
    /\ Committed(None, {})
    /\ UNCHANGED <<trip, meter, offer, byApp>>

CompleteBooking(b) ==
    /\ booking[b] = "confirmed"
    /\ booking' = [booking EXCEPT ![b] = "completed"]
    /\ Committed(None, {})
    /\ UNCHANGED <<trip, meter, offer, byApp>>

Active(b) == booking[b] \in {"pending", "confirmed"}

\* ReleaseQuota clamps at zero; the mutant does not.
Release_NoClamp == reserved' = reserved - 1

Release == reserved' = IF reserved > 0 THEN reserved - 1 ELSE 0

\* CancelBookingUseCase: cancelLinkedTrip takes the trip FindByBookingID
\* finds; the hold is released unless the booking was cancelled already.
CancelBooking(b) ==
    /\ Active(b) \/ booking[b] = "cancelled"
    /\ booking' = [booking EXCEPT ![b] = "cancelled"]
    /\ \E t \in FindByBookingID(b) :
         IF t # None /\ Open(t)
         THEN /\ trip' = [trip EXCEPT ![t].status = "cancelled"]
              /\ Committed(None, {t})
         ELSE UNCHANGED trip /\ Committed(None, {})
    /\ IF Active(b) THEN Release ELSE UNCHANGED reserved
    /\ UNCHANGED <<used, committed, offer, byApp>>

\* CancelCustomerBooking, from the customer's portal: the newest trip decides
\* (creation times are not modelled: any); no version is raised and no hold
\* released.
CancelCustomerBooking(b) ==
    /\ Active(b)
    /\ \E t \in FindByBookingID(b) :
         t # None => trip[t].status \in {"assigned", "cancelled", "draft"}
    /\ booking' = [booking EXCEPT ![b] = "cancelled"]
    /\ offer' = [o \in Offers |-> IF OfferOf[o].booking = b /\ offer[o] = "offered"
                                  THEN "cancelled" ELSE offer[o]]
    /\ trip' = [t \in Trips |->
                  IF trip[t].booking = b
                     /\ trip[t].status \in {"draft", "scheduled", "assigned"}
                  THEN [trip[t] EXCEPT !.status = "cancelled"] ELSE trip[t]]
    /\ Committed(None, {})
    /\ UNCHANGED <<meter, byApp>>

\* DeleteBookingUseCase: a foreign key keeps bookings that have trips.
DeleteBooking(b) ==
    /\ booking[b] \notin {"none", "deleted"}
    /\ TripsOf(b) = {}
    /\ booking' = [booking EXCEPT ![b] = "deleted"]
    /\ Committed(None, {})
    /\ UNCHANGED <<trip, meter, offer, byApp>>

-----------------------------------------------------------------------------
(* Creating a trip.  A retry with the same idempotency key finds the trip  *)
(* and changes nothing, so a trip stands for its key.                      *)

At(w, pc) == job[w].pc = pc

\* CreateTripUseCase checks the booking and the trip it finds for it.
CheckBooking(w, t, b) ==
    /\ At(w, "idle") /\ trip[t].status = "none"
    /\ b # None => /\ Active(b)
                   /\ \E u \in FindByBookingID(b) : u # None => ~Open(u)
    /\ job' = [job EXCEPT ![w] = [Idle EXCEPT !.pc = "create", !.t = t,
                                  !.snap = [NoTrip EXCEPT !.status = "draft", !.booking = b]]]
    /\ UNCHANGED <<booking, trip, meter, offer, byApp>>

\* ConfirmBookingAndCreateTrip confirms the booking, under its version, in the
\* same transaction.
ConfirmBookingAndCreateTrip(b) ==
    /\ b # None /\ booking[b] = "pending"
    /\ booking' = [booking EXCEPT ![b] = "confirmed"]

InsertTrip(w) ==
    LET j == job[w] IN
    /\ At(w, "create") /\ trip[j.t].status = "none"
    /\ j.snap.booking # None => booking[j.snap.booking] # "deleted"
    /\ UNCHANGED booking \/ ConfirmBookingAndCreateTrip(j.snap.booking)
    /\ trip' = [trip EXCEPT ![j.t] = j.snap]
    /\ Committed(w, {j.t})
    /\ UNCHANGED <<meter, offer, byApp>>

-----------------------------------------------------------------------------
(* The use cases on a trip: Find, the aggregate's method, Save.            *)

Find(w, t) ==
    /\ At(w, "idle") /\ trip[t].status # "none"
    /\ job' = [job EXCEPT ![w] = [Idle EXCEPT !.pc = "found", !.t = t, !.snap = trip[t]]]
    /\ UNCHANGED <<booking, trip, meter, offer, byApp>>

\* The unit of work rolls back: a check, a statement or the request failed.
Rollback(w) ==
    /\ job[w].pc # "idle"
    /\ job' = [job EXCEPT ![w] = Idle]
    /\ UNCHANGED <<booking, trip, meter, offer, byApp>>

Save(w, tr) ==
    /\ trip' = [trip EXCEPT ![job[w].t] = tr]
    /\ Committed(w, {job[w].t})
    /\ UNCHANGED <<booking, offer>>

\* A method that needs one of the statuses From and ends in status s.
Move(w, From, s) ==
    /\ At(w, "found") /\ job[w].snap.status \in From
    /\ Save(w, [job[w].snap EXCEPT !.status = s])
    /\ UNCHANGED <<meter, byApp>>

ScheduleTrip(w) == Move(w, {"draft"}, "scheduled")

\* StartTripUseCase also wants a driver.
StartTrip(w) ==
    job[w].snap.driver # None /\ Move(w, {"assigned", "scheduled"}, "started")

StartTransit(w) == Move(w, {"reached_pickup"}, "in_transit")

CancelTrip(w) ==
    Move(w, {"draft", "scheduled", "assigned", "started", "reached_pickup",
             "in_transit", "delivered", "cancelled"}, "cancelled")

\* ReachPickup completes the first stop, which may be the last open one.
ReachPickup(w) ==
    /\ At(w, "found") /\ job[w].snap.status = "started"
    /\ \E d \in {job[w].snap.done, TRUE} :
         Save(w, [job[w].snap EXCEPT !.status = "reached_pickup", !.done = d])
    /\ UNCHANGED <<meter, byApp>>

\* Deliver completes the drops of a short trip and wants all stops completed
\* (a short trip's pickup is taken as completed since ReachPickup).
Deliver(w) ==
    /\ At(w, "found") /\ job[w].snap.status \in {"in_transit", "reached_pickup"}
    /\ job[w].snap.done \/ job[w].t \in Short
    /\ Save(w, [job[w].snap EXCEPT !.status = "delivered", !.done = TRUE, !.arrived = TRUE])
    /\ UNCHANGED <<meter, byApp>>

\* ReachStop, SubmitStopPOD and CompleteStop look at no trip status.  A stop
\* that is reached is open again; the others may settle the last open one.
ReachStop(w) ==
    /\ At(w, "found")
    /\ Save(w, [job[w].snap EXCEPT !.done = FALSE])
    /\ UNCHANGED <<meter, byApp>>

SettleStop(w) ==
    /\ At(w, "found")
    /\ \E d \in {job[w].snap.done, TRUE} : Save(w, [job[w].snap EXCEPT !.done = d])
    /\ UNCHANGED <<meter, byApp>>

HeldStatuses ==
    {"scheduled", "assigned", "started", "reached_pickup", "in_transit", "delivered"}

\* checkResourceConflict.  Without an arrival time a trip's window is open,
\* and the trip that is being assigned has none.  The mutant only counts
\* trips that move.
Conflicts_Moving(t, f, x) ==
    {u \in Trips \ {t} :
        /\ trip[u][f] = x
        /\ trip[u].status \in HeldStatuses \ {"assigned"}
        /\ trip[u].arrived => <<u, t>> \in Late}

Conflicts(t, f, x) ==
    {u \in Trips \ {t} :
        /\ trip[u][f] = x
        /\ trip[u].status \in HeldStatuses
        /\ trip[u].arrived => <<u, t>> \in Late}

Check(w, pc, f, x) ==
    /\ At(w, "found") /\ Conflicts(job[w].t, f, x) = {}
    /\ job' = [job EXCEPT ![w].pc = pc, ![w].with = x]
    /\ UNCHANGED <<booking, trip, meter, offer, byApp>>

CheckDriverConflict(w, d) == Check(w, "driver", "driver", d)

CheckVehicleConflict(w, v) == Check(w, "vehicle", "vehicle", v)

Assignable == {"draft", "scheduled", "assigned"}

AssignDriver(w) ==
    /\ At(w, "driver") /\ job[w].snap.status \in Assignable
    /\ Save(w, [job[w].snap EXCEPT !.driver = job[w].with, !.status = "assigned"])
    /\ UNCHANGED <<meter, byApp>>

AssignVehicle(w) ==
    /\ At(w, "vehicle") /\ job[w].snap.status \in Assignable
    /\ job[w].snap.driver # None
    /\ Save(w, [job[w].snap EXCEPT !.vehicle = job[w].with])
    /\ UNCHANGED <<meter, byApp>>

\* Complete, up to the look-up of the usage event; the mutant counts every
\* completion.
CheckUsage_Again(w) == FALSE

CheckUsage(w) == job[w].snap.booking \in committed

BeginComplete(w) ==
    /\ At(w, "found")
    /\ \/ job[w].snap.status = "completed"
       \/ job[w].snap.status = "delivered" /\ job[w].snap.done
    /\ job' = [job EXCEPT ![w].pc = "complete", ![w].counted = CheckUsage(w)]
    /\ UNCHANGED <<booking, trip, meter, offer, byApp>>

CommitQuota(b) ==
    /\ used' = used + 1
    /\ Release
    /\ committed' = committed \cup {b}

\* The rest of CompleteTripUseCase.
CompleteTrip(w) ==
    LET b == job[w].snap.booking IN
    /\ At(w, "complete")
    /\ Save(w, [job[w].snap EXCEPT !.status = "completed"])
    /\ IF b = None \/ job[w].counted THEN UNCHANGED meter ELSE CommitQuota(b)
    /\ UNCHANGED byApp

-----------------------------------------------------------------------------
(* The driver's app.  Accepting is one serializable transaction.           *)

CreateDispatchOffer(o) ==
    /\ offer[o] = "none"
    /\ offer' = [offer EXCEPT ![o] = "offered"]
    /\ Committed(None, {})
    /\ UNCHANGED <<booking, trip, meter, byApp>>

\* The concurrency guard of executeAcceptOffer; the mutant has none.
Untaken_Any(o) == TRUE

Untaken(o) == \A p \in Offers :
    OfferOf[p].booking = OfferOf[o].booking => offer[p] # "accepted"

\* An expired offer, or one already taken, is refused and the update of its
\* status rolled back.  The newest open trip of the booking is assigned
\* (any), whatever its status and the driver's other trips; its version stays.
AcceptOffer(o) ==
    LET b == OfferOf[o].booking IN
    /\ offer[o] = "offered" /\ Untaken(o)
    /\ offer' = [p \in Offers |->
                   IF p = o THEN "accepted"
                   ELSE IF OfferOf[p].booking = b /\ offer[p] = "offered" THEN "cancelled"
                   ELSE offer[p]]
    /\ \E t \in TripsOf(b) :
         /\ Open(t)
         /\ trip' = [trip EXCEPT ![t].driver = OfferOf[o].driver,
                                 ![t].vehicle = OfferOf[o].vehicle,
                                 ![t].status = "assigned"]
         /\ byApp' = byApp \cup {t}
    /\ Committed(None, {})
    /\ UNCHANGED <<booking, meter>>

RejectOffer(o) ==
    /\ offer[o] = "offered"
    /\ offer' = [offer EXCEPT ![o] = "rejected"]
    /\ Committed(None, {})
    /\ UNCHANGED <<booking, trip, meter, byApp>>

CommandStatuses == {"in_transit", "completed", "cancelled"}

\* executeTripTransition looks for the driver's own trip, whatever its status;
\* the CHECK of the trips table refuses every new status but these.  The
\* UPDATE looks neither at the driver nor at the version, which stays.
CheckCommand(w, t, s) ==
    /\ At(w, "idle") /\ trip[t].driver \in AppDrivers
    /\ job' = [job EXCEPT ![w] = [Idle EXCEPT !.pc = "command", !.t = t, !.with = s]]
    /\ UNCHANGED <<booking, trip, meter, offer, byApp>>

DriverCommand(w) ==
    /\ At(w, "command")
    /\ trip' = [trip EXCEPT ![job[w].t].status = job[w].with]
    /\ byApp' = byApp \cup {job[w].t}
    /\ Committed(w, {})
    /\ UNCHANGED <<booking, meter, offer>>

-----------------------------------------------------------------------------

UseCase(w) ==
    \/ \E t \in Trips, b \in Bookings \cup {None} : CheckBooking(w, t, b)
    \/ InsertTrip(w)
    \/ \E t \in Trips : Find(w, t)
    \/ Rollback(w)
    \/ ScheduleTrip(w) \/ StartTrip(w) \/ ReachPickup(w) \/ StartTransit(w)
    \/ Deliver(w) \/ CancelTrip(w) \/ ReachStop(w) \/ SettleStop(w)
    \/ \E d \in Drivers : CheckDriverConflict(w, d)
    \/ \E v \in Vehicles : CheckVehicleConflict(w, v)
    \/ AssignDriver(w) \/ AssignVehicle(w)
    \/ BeginComplete(w) \/ CompleteTrip(w)
    \/ \E t \in Trips, s \in CommandStatuses : CheckCommand(w, t, s)
    \/ DriverCommand(w)

BookingStep(b) ==
    \/ CreateBooking(b) \/ CreateBookingWithDetails(b)
    \/ ConfirmBooking(b) \/ CompleteBooking(b)
    \/ CancelBooking(b) \/ CancelCustomerBooking(b) \/ DeleteBooking(b)

OfferStep(o) == CreateDispatchOffer(o) \/ AcceptOffer(o) \/ RejectOffer(o)

Next ==
    \/ \E w \in Requests : UseCase(w)
    \/ \E b \in Bookings : BookingStep(b)
    \/ \E o \in Offers : OfferStep(o)

Spec == Init /\ [][Next]_vars

-----------------------------------------------------------------------------
(* Properties.                                                             *)

BookingStatuses == {"none", "pending", "confirmed", "completed", "cancelled", "deleted"}

TripStatuses == HeldStatuses \cup TerminalStatuses \cup {"none", "draft"}

TripRows ==
    [status : TripStatuses, booking : Bookings \cup {None}, driver : Drivers \cup {None},
     vehicle : Vehicles \cup {None}, done : BOOLEAN, arrived : BOOLEAN]

\* The type invariant.
DispatchTypeOK ==
    /\ booking \in [Bookings -> BookingStatuses]
    /\ trip \in [Trips -> TripRows]
    /\ used \in Nat /\ reserved \in Nat /\ committed \subseteq Bookings
    /\ offer \in [Offers -> {"none", "offered", "accepted", "rejected", "cancelled"}]
    /\ job \in [Requests ->
                  [pc : {"idle", "create", "found", "driver", "vehicle", "complete",
                         "command"},
                   t : Trips \cup {None}, snap : TripRows,
                   with : Drivers \cup Vehicles \cup {None} \cup CommandStatuses,
                   counted : BOOLEAN]]
    /\ byApp \subseteq Trips

UnderWay(t) ==
    /\ trip[t].status \in {"assigned", "started", "reached_pickup", "in_transit"}
    /\ ~trip[t].arrived

\* AssignDriver and AssignVehicle book no driver and no vehicle for two trips
\* that are under way, whatever other requests do between the conflict check
\* and the save: when it happens, the driver's app wrote one of the trips.
NoDoubleBooking ==
    \A t, u \in Trips \ byApp :
        t # u /\ UnderWay(t) /\ UnderWay(u)
        => \A f \in {"driver", "vehicle"} :
             trip[t][f] # None => trip[t][f] # trip[u][f]

\* CommitBooking: a completion that is retried, or comes again on another trip
\* of the booking, does not count twice against the quota.
UsedMatchesEvents == used = Cardinality(committed)

\* executeAcceptOffer: at most one offer of a booking is ever accepted.
OneAcceptedOffer ==
    \A o, p \in Offers :
        /\ offer[o] = "accepted" /\ offer[p] = "accepted"
        /\ OfferOf[o].booking = OfferOf[p].booking
        => o = p

Workflow ==
    {<<"draft", "scheduled">>, <<"draft", "assigned">>, <<"scheduled", "assigned">>,
     <<"assigned", "started">>, <<"started", "reached_pickup">>,
     <<"reached_pickup", "in_transit">>, <<"reached_pickup", "delivered">>,
     <<"in_transit", "delivered">>, <<"delivered", "completed">>}

\* Unless the driver's app writes it, a trip moves along its workflow or is
\* cancelled before it is completed: no use case undoes what another one
\* committed, and completed and cancelled are final.
TripMovesForward ==
    [][\A t \in Trips :
         LET old == trip[t].status  new == trip'[t].status IN
         t \notin byApp' /\ old # "none" /\ new # old
         => \/ <<old, new>> \in Workflow
            \/ new = "cancelled" /\ old # "completed"]_vars

\* A trip is completed only while all its stops are (Complete, with the stop
\* operations of other requests in between).
CompletedWithStops ==
    [][\A t \in Trips \ byApp' :
         trip[t].status = "delivered" /\ trip'[t].status = "completed"
         => trip[t].done]_vars

\* What CreateBookingUseCase says of a full plan (for the bookings that go
\* through it: the portal's hold no quota in the first place).
NotOverServed == used <= PlanQuota

=============================================================================
