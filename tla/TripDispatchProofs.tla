------------------------- MODULE TripDispatchProofs -------------------------
(***************************************************************************)
(* Proofs about TripDispatch for every set of bookings, trips, drivers,    *)
(* vehicles, offers and requests in flight.  The shape of the state, the   *)
(* offers and the stops of a completed trip need nothing of the database;  *)
(* the bookings of drivers, the quota and the workflow are proved where    *)
(* transactions are serializable.                                          *)
(***************************************************************************)
EXTENDS TripDispatch, FiniteSetTheorems, TLAPS

JobRec == [pc : {"idle", "create", "found", "driver", "vehicle", "complete", "command"},
           t : Trips \cup {None}, snap : TripRows,
           with : Drivers \cup Vehicles \cup {None} \cup CommandStatuses,
           counted : BOOLEAN]

BareStatuses == {"none", "draft", "scheduled"}

\* A trip that is only planned has nobody assigned.
Bare(r) == r.status \in BareStatuses => r.driver = None /\ r.vehicle = None

\* What a request carries fits the step it is at.
JobOK(j) ==
    /\ j \in JobRec /\ Bare(j.snap)
    /\ j.pc # "idle" => j.t \in Trips
    /\ j.pc = "create" => /\ j.snap.status = "draft" /\ ~j.snap.arrived
                          /\ j.snap.driver = None /\ j.snap.vehicle = None
    /\ j.pc = "driver" => j.with \in Drivers
    /\ j.pc = "vehicle" => j.with \in Vehicles
    /\ j.pc = "command" => j.with \in CommandStatuses
    /\ j.pc = "complete" => \/ j.snap.status = "completed"
                            \/ j.snap.status = "delivered" /\ j.snap.done

DispatchInv ==
    /\ DispatchTypeOK
    /\ \A w \in Requests : JobOK(job[w])
    /\ \A t \in Trips : Bare(trip[t])
    /\ OneAcceptedOffer

-----------------------------------------------------------------------------
\* The type invariant in terms of the record sets.
LEMMA Shapes ==
    ASSUME DispatchTypeOK
    PROVE  /\ booking \in [Bookings -> BookingStatuses]
           /\ trip \in [Trips -> TripRows]
           /\ used \in Nat /\ reserved \in Nat /\ committed \subseteq Bookings
           /\ offer \in [Offers -> {"none", "offered", "accepted", "rejected", "cancelled"}]
           /\ job \in [Requests -> JobRec]
           /\ byApp \subseteq Trips
  BY DEF DispatchTypeOK, JobRec

\* The empty row and the idle request.
LEMMA Empty ==
    /\ NoTrip \in TripRows /\ NoTrip.status = "none" /\ NoTrip.booking = None
    /\ NoTrip.driver = None /\ NoTrip.vehicle = None /\ ~NoTrip.arrived
    /\ Idle \in JobRec /\ Idle.pc = "idle" /\ JobOK(Idle)
<1>1. /\ NoTrip \in TripRows /\ NoTrip.status = "none" /\ NoTrip.booking = None
      /\ NoTrip.driver = None /\ NoTrip.vehicle = None /\ ~NoTrip.arrived
  BY DEF NoTrip, TripRows, TripStatuses
<1>2. Idle \in JobRec /\ Idle.pc = "idle" /\ Idle.snap = NoTrip
  BY <1>1 DEF Idle, JobRec
<1> QED
  BY <1>1, <1>2 DEF JobOK, Bare

LEMMA DispatchInvInit == Init => DispatchInv
<1> SUFFICES ASSUME Init PROVE DispatchInv
  OBVIOUS
<1>1. DispatchTypeOK
  BY Empty DEF Init, DispatchTypeOK, JobRec, BookingStatuses
<1> QED
  BY <1>1, Empty DEF Init, DispatchInv, OneAcceptedOffer, Bare

\* A commit ends requests and starts none.
LEMMA CommittedJobs ==
    ASSUME DispatchInv, NEW w, NEW T, Committed(w, T)
    PROVE  /\ job' \in [Requests -> JobRec]
           /\ \A x \in Requests : JobOK(job'[x])
           /\ Serial => \A x \in Requests : job'[x].pc \in {"idle", "command"}
<1>1. /\ job' = [x \in Requests |-> IF x = w \/ Outdated(x, T) THEN Idle ELSE job[x]]
      /\ job \in [Requests -> JobRec]
      /\ \A x \in Requests : JobOK(job[x])
  BY Shapes DEF Committed, DispatchInv
<1>2. \A x \in Requests : job'[x] \in {Idle, job[x]}
  BY <1>1
<1>3. ASSUME Serial, NEW x \in Requests PROVE job'[x].pc \in {"idle", "command"}
  BY <1>1, <1>3, Empty DEF Outdated
<1> QED
  BY <1>1, <1>2, <1>3, Empty

\* The invariant after a step that touches no offer.
LEMMA NoOfferStep ==
    ASSUME DispatchInv, UNCHANGED offer,
           booking' \in [Bookings -> BookingStatuses],
           trip' \in [Trips -> TripRows],
           used' \in Nat, reserved' \in Nat, committed' \subseteq Bookings,
           job' \in [Requests -> JobRec],
           \A x \in Requests : JobOK(job'[x]),
           \A t \in Trips : Bare(trip'[t]),
           byApp' \subseteq Trips
    PROVE  DispatchInv'
  BY DEF DispatchInv, DispatchTypeOK, JobRec, OneAcceptedOffer

\* One request moves, and no table changes.
LEMMA OneJobStep ==
    ASSUME DispatchInv, NEW w \in Requests, NEW j, JobOK(j),
           job' = [job EXCEPT ![w] = j],
           UNCHANGED <<booking, trip, meter, offer, byApp>>
    PROVE  DispatchInv'
<1>1. job' \in [Requests -> JobRec] /\ \A x \in Requests : JobOK(job'[x])
  BY Shapes DEF DispatchInv, JobOK
<1> QED
  BY <1>1, Shapes, NoOfferStep DEF DispatchInv, meter

\* Release never takes the reservations below zero.
LEMMA ReleaseType == ASSUME reserved \in Nat, Release PROVE reserved' \in Nat
  BY DEF Release

-----------------------------------------------------------------------------
(* The steps that only read the tables.                                    *)

\* What a request has read is still true: the row it found is the row in the
\* table, the driver or vehicle it checked is free, and the usage event it
\* looked up is there or not as it saw.
Live(j) ==
    /\ j.pc \in {"found", "driver", "vehicle", "complete"} => j.snap = trip[j.t]
    /\ j.pc = "driver" => Conflicts(j.t, "driver", j.with) = {}
    /\ j.pc = "vehicle" => Conflicts(j.t, "vehicle", j.with) = {}
    /\ j.pc = "complete" => (j.counted <=> j.snap.booking \in committed)

\* What the version guards on every database: the stops are as the request
\* found them, and the status too, unless a cancellation that raises no version
\* came between.
Current(j) ==
    j.pc \in {"found", "driver", "vehicle", "complete"} /\ j.t \notin byApp =>
        /\ j.snap.done = trip[j.t].done
        /\ trip[j.t].status \in {j.snap.status, "cancelled"}

\* Request w moves to j and changes nothing else.
MovesTo(w, j) ==
    /\ JobOK(j) /\ (Live(job[w]) => Live(j)) /\ (Current(job[w]) => Current(j))
    /\ job' = [job EXCEPT ![w] = j]
    /\ UNCHANGED <<booking, trip, meter, offer, byApp>>

LEMMA CheckBookingMoves ==
    ASSUME DispatchInv, NEW w \in Requests, NEW t \in Trips, NEW b \in Bookings \cup {None},
           CheckBooking(w, t, b)
    PROVE  \E j : MovesTo(w, j)
<1>1. NoTrip \in TripRows /\ NoTrip.driver = None /\ NoTrip.vehicle = None /\ ~NoTrip.arrived
  BY Empty
<1> DEFINE r == [NoTrip EXCEPT !.status = "draft", !.booking = b]
<1>2. /\ r \in TripRows
      /\ r.status = "draft" /\ ~r.arrived /\ r.driver = None /\ r.vehicle = None
  BY <1>1 DEF TripRows, TripStatuses
<1> HIDE DEF r
<1>3. Idle \in JobRec
  BY Empty
<1> DEFINE j == [Idle EXCEPT !.pc = "create", !.t = t, !.snap = r]
<1>4. /\ j \in JobRec
      /\ j.pc = "create" /\ j.t = t /\ j.snap = r
  BY <1>2, <1>3 DEF JobRec
<1> HIDE DEF j
<1>5. JobOK(j) /\ Live(j) /\ Current(j)
  BY <1>2, <1>4 DEF JobOK, Live, Current, Bare
<1> QED
  BY <1>5 DEF CheckBooking, MovesTo, j, r

LEMMA FindMoves ==
    ASSUME DispatchInv, NEW w \in Requests, NEW t \in Trips, Find(w, t)
    PROVE  \E j : MovesTo(w, j)
<1>1. PICK r \in TripRows : r = trip[t] /\ Bare(r)
  BY Shapes DEF DispatchInv
<1>2. Idle \in JobRec
  BY Empty
<1> DEFINE j == [Idle EXCEPT !.pc = "found", !.t = t, !.snap = r]
<1>3. /\ j \in JobRec
      /\ j.pc = "found" /\ j.t = t /\ j.snap = r
  BY <1>2 DEF JobRec
<1> HIDE DEF j
<1>4. JobOK(j) /\ Live(j) /\ Current(j)
  BY <1>1, <1>3 DEF JobOK, Live, Current
<1> QED
  BY <1>1, <1>4 DEF Find, MovesTo, j

LEMMA CheckCommandMoves ==
    ASSUME DispatchInv, NEW w \in Requests, NEW t \in Trips, NEW s \in CommandStatuses,
           CheckCommand(w, t, s)
    PROVE  \E j : MovesTo(w, j)
<1>1. Idle \in JobRec
  BY Empty
<1> DEFINE j == [Idle EXCEPT !.pc = "command", !.t = t, !.with = s]
<1>2. /\ j \in JobRec
      /\ j.pc = "command" /\ j.t = t /\ j.with = s
  BY <1>1 DEF JobRec
<1>a. j.snap = Idle.snap /\ Bare(Idle.snap)
  BY <1>1, Empty DEF JobRec, JobOK
<1> HIDE DEF j
<1>3. JobOK(j) /\ Live(j) /\ Current(j)
  BY <1>2, <1>a DEF JobOK, Live, Current
<1> QED
  BY <1>3 DEF CheckCommand, MovesTo, j

LEMMA RollbackMoves ==
    ASSUME DispatchInv, NEW w \in Requests, Rollback(w)
    PROVE  \E j : MovesTo(w, j)
<1>1. JobOK(Idle) /\ Live(Idle) /\ Current(Idle)
  BY Empty DEF Live, Current
<1> QED
  BY <1>1 DEF Rollback, MovesTo

\* The conflict check of a driver or a vehicle.
LEMMA CheckMoves ==
    ASSUME DispatchInv, NEW w \in Requests,
           NEW pc \in {"driver", "vehicle"},
           NEW x \in IF pc = "driver" THEN Drivers ELSE Vehicles,
           Check(w, pc, pc, x)
    PROVE  \E j : MovesTo(w, j)
<1>1. PICK k \in JobRec : k = job[w] /\ k.pc = "found" /\ k.t \in Trips /\ Bare(k.snap)
  BY Shapes DEF DispatchInv, JobOK, Check, At
<1>2. x \in Drivers \cup Vehicles \cup {None} \cup CommandStatuses
  OBVIOUS
<1> DEFINE j == [k EXCEPT !.pc = pc, !.with = x]
<1>3. /\ j \in JobRec
      /\ j.pc = pc /\ j.t = k.t /\ j.snap = k.snap /\ j.with = x
  BY <1>2 DEF JobRec
<1> HIDE DEF j
<1>4. job' = [job EXCEPT ![w] = j]
  BY <1>1, Shapes DEF Check, DispatchInv, j
<1>5. JobOK(j)
  BY <1>1, <1>3 DEF JobOK
<1>6. Live(k) => Live(j)
  BY <1>1, <1>3 DEF Live, Check
<1>7. Current(k) => Current(j)
  BY <1>1, <1>3 DEF Current
<1> QED
  BY <1>1, <1>4, <1>5, <1>6, <1>7 DEF Check, MovesTo

LEMMA BeginCompleteMoves ==
    ASSUME DispatchInv, NEW w \in Requests, BeginComplete(w)
    PROVE  \E j : MovesTo(w, j)
<1>1. PICK k \in JobRec : k = job[w] /\ k.pc = "found" /\ k.t \in Trips /\ Bare(k.snap)
  BY Shapes DEF DispatchInv, JobOK, BeginComplete, At
<1>2. PICK c \in BOOLEAN : c = CheckUsage(w)
  <2>1. CheckUsage(w) \in BOOLEAN
    BY DEF CheckUsage
  <2> QED
    BY <2>1
<1> DEFINE j == [k EXCEPT !.pc = "complete", !.counted = c]
<1>3. /\ j \in JobRec
      /\ j.pc = "complete" /\ j.t = k.t /\ j.snap = k.snap /\ j.counted = c
  BY DEF JobRec
<1> HIDE DEF j
<1>4. job' = [job EXCEPT ![w] = j]
  BY <1>1, <1>2, Shapes DEF BeginComplete, DispatchInv, j
<1>5. JobOK(j)
  BY <1>1, <1>3 DEF JobOK, BeginComplete
<1>6. Live(k) => Live(j)
  BY <1>1, <1>2, <1>3 DEF Live, CheckUsage
<1>7. Current(k) => Current(j)
  BY <1>1, <1>3 DEF Current
<1> QED
  BY <1>1, <1>4, <1>5, <1>6, <1>7 DEF BeginComplete, MovesTo

\* All of them.
Read(w) ==
    \/ \E t \in Trips, b \in Bookings \cup {None} : CheckBooking(w, t, b)
    \/ \E t \in Trips : Find(w, t)
    \/ Rollback(w)
    \/ \E d \in Drivers : CheckDriverConflict(w, d)
    \/ \E v \in Vehicles : CheckVehicleConflict(w, v)
    \/ BeginComplete(w)
    \/ \E t \in Trips, s \in CommandStatuses : CheckCommand(w, t, s)

LEMMA ReadMoves ==
    ASSUME DispatchInv, NEW w \in Requests, Read(w)
    PROVE  \E j : MovesTo(w, j)
  BY CheckBookingMoves, FindMoves, RollbackMoves, CheckMoves, BeginCompleteMoves,
     CheckCommandMoves
  DEF Read, CheckDriverConflict, CheckVehicleConflict

-----------------------------------------------------------------------------
(* The steps that write a trip.                                            *)

\* A trip with an arrival time is delivered or over.
Landed(r) == r.arrived => r.status \in {"delivered", "completed", "cancelled"}

OnTheRoad(r) ==
    r.status \in {"assigned", "started", "reached_pickup", "in_transit"} /\ ~r.arrived

\* How a use case may change the status of a row.
Forward(old, new) ==
    /\ new.status # old.status =>
         \/ <<old.status, new.status>> \in Workflow
         \/ new.status = "cancelled" /\ old.status # "completed"
    /\ old.status = "delivered" /\ new.status = "completed" => old.done

\* A use case that assigns nobody.
Edit(old, new) ==
    /\ new \in TripRows
    /\ Bare(new) /\ (Landed(old) => Landed(new))
    /\ OnTheRoad(new) /\ Landed(old) =>
         OnTheRoad(old) /\ new.driver = old.driver /\ new.vehicle = old.vehicle
    /\ Forward(old, new)

\* The use cases that neither assign nor count.
PlainSave(w) ==
    \/ ScheduleTrip(w) \/ StartTrip(w) \/ ReachPickup(w) \/ StartTransit(w)
    \/ Deliver(w) \/ CancelTrip(w) \/ ReachStop(w) \/ SettleStop(w)

\* Each of them edits the row it found.
LEMMA MoveEdits ==
    ASSUME NEW r \in TripRows, Bare(r),
           NEW s \in {"scheduled", "started", "in_transit", "cancelled"},
           \/ s = "scheduled" /\ r.status = "draft"
           \/ s = "started" /\ r.status \in {"assigned", "scheduled"} /\ r.driver # None
           \/ s = "in_transit" /\ r.status = "reached_pickup"
           \/ s = "cancelled" /\ r.status # "completed" /\ r.status # "none"
    PROVE  Edit(r, [r EXCEPT !.status = s])
<1> DEFINE n == [r EXCEPT !.status = s]
<1>1. /\ n \in TripRows /\ n.status = s /\ n.driver = r.driver /\ n.vehicle = r.vehicle
      /\ n.arrived = r.arrived /\ n.done = r.done
  BY DEF TripRows, TripStatuses, HeldStatuses, TerminalStatuses
<1> HIDE DEF n
<1>2. Edit(r, n)
  BY <1>1 DEF Edit, Bare, BareStatuses, Landed, OnTheRoad, Forward, Workflow
<1> QED
  BY <1>2 DEF n

LEMMA StopEdits ==
    ASSUME NEW r \in TripRows, Bare(r), NEW d \in BOOLEAN
    PROVE  /\ Edit(r, [r EXCEPT !.done = d])
           /\ r.status = "started" =>
                Edit(r, [r EXCEPT !.status = "reached_pickup", !.done = d])
           /\ r.status \in {"in_transit", "reached_pickup"} =>
                Edit(r, [r EXCEPT !.status = "delivered", !.done = TRUE, !.arrived = TRUE])
           /\ r.status = "completed" \/ (r.status = "delivered" /\ r.done) =>
                Edit(r, [r EXCEPT !.status = "completed"])
<1> DEFINE n == [r EXCEPT !.done = d]
           p == [r EXCEPT !.status = "reached_pickup", !.done = d]
           a == [r EXCEPT !.status = "delivered", !.done = TRUE, !.arrived = TRUE]
           c == [r EXCEPT !.status = "completed"]
<1>1. /\ n \in TripRows /\ n.status = r.status /\ n.driver = r.driver
      /\ n.vehicle = r.vehicle /\ n.arrived = r.arrived
  BY DEF TripRows
<1>2. /\ p \in TripRows /\ p.status = "reached_pickup" /\ p.driver = r.driver
      /\ p.vehicle = r.vehicle /\ p.arrived = r.arrived
  BY DEF TripRows, TripStatuses, HeldStatuses
<1>3. a \in TripRows /\ a.status = "delivered"
  BY DEF TripRows, TripStatuses, HeldStatuses
<1>4. c \in TripRows /\ c.status = "completed"
  BY DEF TripRows, TripStatuses, TerminalStatuses
<1> HIDE DEF n, p, a, c
<1>5. Edit(r, n)
  BY <1>1 DEF Edit, Bare, Landed, OnTheRoad, Forward
<1>6. r.status = "started" => Edit(r, p)
  BY <1>2 DEF Edit, Bare, BareStatuses, Landed, OnTheRoad, Forward, Workflow
<1>7. r.status \in {"in_transit", "reached_pickup"} => Edit(r, a)
  BY <1>3 DEF Edit, Bare, BareStatuses, Landed, OnTheRoad, Forward, Workflow
<1>8. r.status = "completed" \/ (r.status = "delivered" /\ r.done) => Edit(r, c)
  BY <1>4 DEF Edit, Bare, BareStatuses, Landed, OnTheRoad, Forward, Workflow
<1> QED
  BY <1>5, <1>6, <1>7, <1>8 DEF n, p, a, c

\* A row that was found, and what is saved in its place.
LEMMA PlainSaveEdits ==
    ASSUME DispatchInv, NEW w \in Requests, PlainSave(w)
    PROVE  /\ At(w, "found") /\ UNCHANGED <<meter, byApp>>
           /\ \E n : Edit(job[w].snap, n) /\ Save(w, n)
<1>1. PICK r \in TripRows : r = job[w].snap /\ Bare(r)
  BY Shapes DEF DispatchInv, JobRec, JobOK
<1>2. ASSUME NEW From, NEW s \in {"scheduled", "started", "in_transit", "cancelled"},
             Move(w, From, s),
             \/ s = "scheduled" /\ From = {"draft"}
             \/ s = "started" /\ From = {"assigned", "scheduled"} /\ r.driver # None
             \/ s = "in_transit" /\ From = {"reached_pickup"}
             \/ s = "cancelled" /\ "completed" \notin From /\ "none" \notin From
      PROVE  /\ At(w, "found") /\ UNCHANGED <<meter, byApp>>
             /\ \E n : Edit(job[w].snap, n) /\ Save(w, n)
  <2>1. Edit(r, [r EXCEPT !.status = s])
    BY <1>1, <1>2, MoveEdits DEF Move
  <2> QED
    BY <1>1, <1>2, <2>1 DEF Move
<1>3. CASE ScheduleTrip(w) \/ StartTrip(w) \/ StartTransit(w) \/ CancelTrip(w)
  BY <1>1, <1>2, <1>3 DEF ScheduleTrip, StartTrip, StartTransit, CancelTrip
<1>4. CASE ReachPickup(w)
  <2>1. PICK d \in BOOLEAN : Save(w, [r EXCEPT !.status = "reached_pickup", !.done = d])
    BY <1>1, <1>4 DEF ReachPickup, TripRows
  <2>2. Edit(r, [r EXCEPT !.status = "reached_pickup", !.done = d])
    BY <1>1, <1>4, StopEdits DEF ReachPickup
  <2> QED
    BY <1>1, <1>4, <2>1, <2>2 DEF ReachPickup
<1>5. CASE Deliver(w)
  <2>1. Edit(r, [r EXCEPT !.status = "delivered", !.done = TRUE, !.arrived = TRUE])
    BY <1>1, <1>5, StopEdits DEF Deliver
  <2> QED
    BY <1>1, <1>5, <2>1 DEF Deliver
<1>6. CASE ReachStop(w) \/ SettleStop(w)
  <2>1. PICK d \in BOOLEAN : Save(w, [r EXCEPT !.done = d])
    BY <1>1, <1>6 DEF ReachStop, SettleStop, TripRows
  <2>2. Edit(r, [r EXCEPT !.done = d])
    BY <1>1, StopEdits
  <2> QED
    BY <1>1, <1>6, <2>1, <2>2 DEF ReachStop, SettleStop
<1> QED
  BY <1>3, <1>4, <1>5, <1>6 DEF PlainSave

\* A save of a row of the right shape keeps the general invariant.
LEMMA SaveKeeps ==
    ASSUME DispatchInv, NEW w \in Requests, job[w].pc # "idle",
           NEW n \in TripRows, Bare(n), Save(w, n),
           used' \in Nat, reserved' \in Nat, committed' \subseteq Bookings,
           UNCHANGED byApp
    PROVE  DispatchInv'
<1>1. job[w].t \in Trips
  BY DEF DispatchInv, JobOK
<1>2. /\ trip' = [trip EXCEPT ![job[w].t] = n]
      /\ UNCHANGED <<booking, offer>>
      /\ job' \in [Requests -> JobRec] /\ \A x \in Requests : JobOK(job'[x])
  BY CommittedJobs DEF Save
<1>3. trip' \in [Trips -> TripRows] /\ \A t \in Trips : Bare(trip'[t])
  BY <1>1, <1>2, Shapes DEF DispatchInv
<1> QED
  BY <1>2, <1>3, Shapes, NoOfferStep DEF DispatchInv

\* The row AssignDriver saves.
LEMMA AssignDriverSaves ==
    ASSUME DispatchInv, NEW w \in Requests, AssignDriver(w)
    PROVE  \E n \in TripRows :
             /\ Save(w, n) /\ n.status = "assigned" /\ n.driver = job[w].with
             /\ n.vehicle = job[w].snap.vehicle /\ n.arrived = job[w].snap.arrived
<1>1. PICK r \in TripRows : r = job[w].snap
  BY Shapes DEF DispatchInv, JobRec
<1>2. PICK x \in Drivers : x = job[w].with
  BY DEF DispatchInv, JobOK, AssignDriver, At
<1> DEFINE n == [r EXCEPT !.driver = x, !.status = "assigned"]
<1>3. /\ n \in TripRows /\ n.status = "assigned" /\ n.driver = x
      /\ n.vehicle = r.vehicle /\ n.arrived = r.arrived
  BY DEF TripRows, TripStatuses, HeldStatuses
<1>4. Save(w, n)
  BY <1>1, <1>2 DEF AssignDriver
<1> HIDE DEF n
<1> QED
  BY <1>1, <1>2, <1>3, <1>4

\* The row AssignVehicle saves.
LEMMA AssignVehicleSaves ==
    ASSUME DispatchInv, NEW w \in Requests, AssignVehicle(w)
    PROVE  \E n \in TripRows :
             /\ Save(w, n) /\ n.status = job[w].snap.status /\ n.vehicle = job[w].with
             /\ n.driver = job[w].snap.driver /\ n.arrived = job[w].snap.arrived
             /\ n.driver # None /\ n.status = "assigned"
<1>1. PICK r \in TripRows : r = job[w].snap /\ Bare(r)
  BY Shapes DEF DispatchInv, JobRec, JobOK
<1>2. PICK x \in Vehicles : x = job[w].with
  BY DEF DispatchInv, JobOK, AssignVehicle, At
<1> DEFINE n == [r EXCEPT !.vehicle = x]
<1>3. /\ n \in TripRows /\ n.status = r.status /\ n.driver = r.driver
      /\ n.vehicle = x /\ n.arrived = r.arrived
  BY DEF TripRows
<1>4. Save(w, n)
  BY <1>1, <1>2 DEF AssignVehicle
<1>5. r.driver # None /\ r.status = "assigned"
  BY <1>1 DEF AssignVehicle, Assignable, Bare, BareStatuses
<1> HIDE DEF n
<1> QED
  BY <1>1, <1>2, <1>3, <1>4, <1>5

\* The row CompleteTrip saves, and what it counts.
LEMMA CompleteTripSaves ==
    ASSUME DispatchInv, NEW w \in Requests, CompleteTrip(w)
    PROVE  /\ \E n : Edit(job[w].snap, n) /\ Save(w, n)
           /\ used' \in Nat /\ reserved' \in Nat /\ committed' \subseteq Bookings
           /\ UNCHANGED byApp
<1>1. PICK r \in TripRows : r = job[w].snap /\ Bare(r)
  BY Shapes DEF DispatchInv, JobRec, JobOK
<1>2. Edit(r, [r EXCEPT !.status = "completed"])
  BY <1>1, StopEdits DEF DispatchInv, JobOK, CompleteTrip, At
<1>3. used' \in Nat /\ reserved' \in Nat /\ committed' \subseteq Bookings
  <2>1. used \in Nat /\ reserved \in Nat /\ committed \subseteq Bookings
    BY Shapes DEF DispatchInv
  <2>2. r.booking \in Bookings \cup {None}
    BY DEF TripRows
  <2> QED
    BY <1>1, <2>1, <2>2, ReleaseType DEF CompleteTrip, CommitQuota, meter
<1> QED
  BY <1>1, <1>2, <1>3 DEF CompleteTrip

\* A trip is created.
LEMMA InsertTripKeeps ==
    ASSUME DispatchInv, NEW w \in Requests, InsertTrip(w)
    PROVE  /\ DispatchInv'
           /\ Committed(w, {job[w].t}) /\ UNCHANGED <<meter, offer, byApp>>
           /\ \A t \in Trips : trip'[t] # trip[t] =>
                trip[t].status = "none" /\ ~trip'[t].arrived /\ trip'[t].status = "draft"
<1>1. /\ job[w].t \in Trips /\ job[w].snap \in TripRows /\ Bare(job[w].snap)
      /\ job[w].snap.status = "draft" /\ ~job[w].snap.arrived
  BY Shapes DEF DispatchInv, JobOK, InsertTrip, At, JobRec
<1>2. /\ trip' = [trip EXCEPT ![job[w].t] = job[w].snap] /\ trip[job[w].t].status = "none"
      /\ Committed(w, {job[w].t}) /\ UNCHANGED <<meter, offer, byApp>>
  BY DEF InsertTrip
<1>3. trip' \in [Trips -> TripRows] /\ \A t \in Trips : Bare(trip'[t])
  BY <1>1, <1>2, Shapes DEF DispatchInv
<1>4. booking' \in [Bookings -> BookingStatuses]
  <2>1. job[w].snap.booking \in Bookings \cup {None}
    BY <1>1 DEF TripRows
  <2>2. booking \in [Bookings -> BookingStatuses]
    BY Shapes DEF DispatchInv
  <2> QED
    BY <2>1, <2>2 DEF InsertTrip, ConfirmBookingAndCreateTrip, BookingStatuses
<1>5. job' \in [Requests -> JobRec] /\ \A x \in Requests : JobOK(job'[x])
  BY <1>2, CommittedJobs
<1>6. DispatchInv'
  BY <1>2, <1>3, <1>4, <1>5, Shapes, NoOfferStep DEF DispatchInv, meter
<1>7. \A t \in Trips : trip'[t] # trip[t] =>
        trip[t].status = "none" /\ ~trip'[t].arrived /\ trip'[t].status = "draft"
  BY <1>1, <1>2, Shapes DEF DispatchInv
<1> QED
  BY <1>2, <1>6, <1>7

\* The driver's app writes a status.
LEMMA DriverCommandKeeps ==
    ASSUME DispatchInv, NEW w \in Requests, DriverCommand(w)
    PROVE  /\ DispatchInv'
           /\ Committed(w, {}) /\ UNCHANGED <<meter, offer>> /\ byApp \subseteq byApp'
           /\ \A t \in Trips \ byApp' : trip'[t] = trip[t]
<1>1. job[w].t \in Trips /\ job[w].with \in CommandStatuses
  BY DEF DispatchInv, JobOK, DriverCommand, At
<1>2. PICK r \in TripRows : r = trip[job[w].t]
  BY <1>1, Shapes DEF DispatchInv
<1>3. PICK s \in CommandStatuses : s = job[w].with
  BY <1>1
<1> DEFINE n == [r EXCEPT !.status = s]
<1>4. n \in TripRows /\ n.status = s
  BY DEF TripRows, CommandStatuses, TripStatuses, HeldStatuses, TerminalStatuses
<1>5. trip' = [trip EXCEPT ![job[w].t] = n]
  BY <1>2, <1>3, Shapes DEF DriverCommand, DispatchInv
<1> HIDE DEF n
<1>6. Bare(n)
  BY <1>4 DEF Bare, BareStatuses, CommandStatuses
<1>7. /\ trip' \in [Trips -> TripRows] /\ \A t \in Trips : Bare(trip'[t])
      /\ \A t \in Trips \ {job[w].t} : trip'[t] = trip[t]
  BY <1>1, <1>4, <1>5, <1>6, Shapes DEF DispatchInv
<1>8. /\ Committed(w, {}) /\ byApp' = byApp \cup {job[w].t}
      /\ UNCHANGED <<booking, meter, offer>>
  BY DEF DriverCommand
<1>9. /\ job' \in [Requests -> JobRec] /\ \A x \in Requests : JobOK(job'[x])
      /\ byApp' \subseteq Trips
  BY <1>1, <1>8, Shapes, CommittedJobs DEF DispatchInv
<1>10. DispatchInv'
  BY <1>7, <1>8, <1>9, Shapes, NoOfferStep DEF DispatchInv, meter
<1> QED
  BY <1>7, <1>8, <1>10

-----------------------------------------------------------------------------
(* Bookings and offers.                                                    *)

\* A cancelled row.
LEMMA CancelledRow ==
    ASSUME DispatchInv, NEW t \in Trips,
           trip[t].status # "completed", trip[t].status # "none"
    PROVE  Edit(trip[t], [trip[t] EXCEPT !.status = "cancelled"])
<1>1. PICK r \in TripRows : r = trip[t] /\ Bare(r)
  BY Shapes DEF DispatchInv
<1>2. Edit(r, [r EXCEPT !.status = "cancelled"])
  BY <1>1, MoveEdits
<1> QED
  BY <1>1, <1>2

\* The offers after a step that accepts none.
LEMMA OffersKept ==
    ASSUME OneAcceptedOffer, \A o \in Offers : offer'[o] = "accepted" => offer[o] = "accepted"
    PROVE  OneAcceptedOffer'
  BY DEF OneAcceptedOffer

\* The use cases that write the bookings and their hold only.
LEMMA PlainBookingKeeps ==
    ASSUME DispatchInv, NEW b \in Bookings,
           \/ CreateBooking(b) \/ CreateBookingWithDetails(b) \/ ConfirmBooking(b)
           \/ CompleteBooking(b) \/ DeleteBooking(b)
    PROVE  DispatchInv' /\ Committed(None, {}) /\ UNCHANGED <<used, committed, byApp, trip>>
<1>1. /\ booking' \in [Bookings -> BookingStatuses] /\ reserved' \in Nat
      /\ Committed(None, {}) /\ UNCHANGED <<used, committed, byApp, trip, offer>>
  BY Shapes
  DEF DispatchInv, CreateBooking, CreateBookingWithDetails, ReserveQuota,
      ConfirmBooking, CompleteBooking, DeleteBooking, BookingStatuses, meter
<1>2. job' \in [Requests -> JobRec] /\ \A x \in Requests : JobOK(job'[x])
  BY <1>1, CommittedJobs
<1>3. DispatchInv'
  BY <1>1, <1>2, Shapes, NoOfferStep DEF DispatchInv
<1> QED
  BY <1>1, <1>3

\* CancelBooking cancels at most one open trip.
LEMMA CancelBookingKeeps ==
    ASSUME DispatchInv, NEW b \in Bookings, CancelBooking(b)
    PROVE  /\ DispatchInv' /\ \E T : Committed(None, T)
           /\ UNCHANGED <<used, committed, byApp>>
           /\ \A t \in Trips : trip'[t] = trip[t] \/ Edit(trip[t], trip'[t])
<1>1. /\ booking' \in [Bookings -> BookingStatuses] /\ reserved' \in Nat
      /\ UNCHANGED <<used, committed, byApp, offer>>
  BY Shapes, ReleaseType DEF DispatchInv, CancelBooking, BookingStatuses
<1>2. /\ \E T : Committed(None, T)
      /\ trip' \in [Trips -> TripRows]
      /\ \A t \in Trips : trip'[t] = trip[t] \/ Edit(trip[t], trip'[t])
  <2>0. trip \in [Trips -> TripRows]
    BY Shapes DEF DispatchInv
  <2>1. CASE UNCHANGED trip /\ Committed(None, {})
    BY <2>0, <2>1
  <2>2. ASSUME NEW u \in FindByBookingID(b), u # None, Open(u),
               trip' = [trip EXCEPT ![u].status = "cancelled"], Committed(None, {u})
        PROVE  /\ \E T : Committed(None, T)
               /\ trip' \in [Trips -> TripRows]
               /\ \A t \in Trips : trip'[t] = trip[t] \/ Edit(trip[t], trip'[t])
    <3>1. u \in Trips
      BY <2>2 DEF FindByBookingID, TripsOf
    <3> DEFINE n == [trip[u] EXCEPT !.status = "cancelled"]
    <3>2. Edit(trip[u], n)
      BY <2>2, <3>1, CancelledRow DEF Open, TerminalStatuses
    <3>3. trip' = [trip EXCEPT ![u] = n]
      BY <2>0, <2>2, <3>1
    <3> HIDE DEF n
    <3>4. n \in TripRows
      BY <3>2 DEF Edit
    <3> QED
      BY <2>0, <2>2, <3>1, <3>2, <3>3, <3>4
  <2> QED
    BY <2>1, <2>2 DEF CancelBooking
<1>3. job' \in [Requests -> JobRec] /\ \A x \in Requests : JobOK(job'[x])
  BY <1>2, CommittedJobs
<1>4. \A t \in Trips : Bare(trip'[t])
  BY <1>2 DEF DispatchInv, Edit
<1>5. DispatchInv'
  BY <1>1, <1>2, <1>3, <1>4, Shapes, NoOfferStep DEF DispatchInv
<1> QED
  BY <1>1, <1>2, <1>5

\* CancelCustomerBooking withdraws the offers and cancels the planned trips.
LEMMA CancelCustomerKeeps ==
    ASSUME DispatchInv, NEW b \in Bookings, CancelCustomerBooking(b)
    PROVE  /\ DispatchInv' /\ Committed(None, {})
           /\ UNCHANGED <<used, committed, byApp>>
           /\ \A t \in Trips : trip'[t] = trip[t] \/ Edit(trip[t], trip'[t])
<1>0. trip \in [Trips -> TripRows]
  BY Shapes DEF DispatchInv
<1>1. /\ booking' \in [Bookings -> BookingStatuses]
      /\ Committed(None, {}) /\ UNCHANGED <<used, reserved, committed, byApp>>
  BY Shapes DEF DispatchInv, CancelCustomerBooking, BookingStatuses, meter
<1>2. /\ offer' \in [Offers -> {"none", "offered", "accepted", "rejected", "cancelled"}]
      /\ \A o \in Offers : offer'[o] = "accepted" => offer[o] = "accepted"
  BY Shapes DEF DispatchInv, CancelCustomerBooking
<1>3. ASSUME NEW t \in Trips PROVE trip'[t] = trip[t] \/ Edit(trip[t], trip'[t])
  <2>1. CASE trip[t].status \in {"draft", "scheduled", "assigned"}
    <3>1. Edit(trip[t], [trip[t] EXCEPT !.status = "cancelled"])
      BY <2>1, CancelledRow
    <3> QED
      BY <3>1 DEF CancelCustomerBooking
  <2>2. CASE trip[t].status \notin {"draft", "scheduled", "assigned"}
    BY <2>2 DEF CancelCustomerBooking
  <2> QED
    BY <2>1, <2>2
<1>4. trip' \in [Trips -> TripRows] /\ \A t \in Trips : Bare(trip'[t])
  <2>1. \A t \in Trips : trip'[t] \in TripRows /\ Bare(trip'[t])
    BY <1>0, <1>3 DEF DispatchInv, Edit
  <2>2. trip' = [t \in Trips |-> trip'[t]]
    BY DEF CancelCustomerBooking
  <2> QED
    BY <2>1, <2>2
<1>5. job' \in [Requests -> JobRec] /\ \A x \in Requests : JobOK(job'[x])
  BY <1>1, CommittedJobs
<1>6. OneAcceptedOffer'
  BY <1>2, OffersKept DEF DispatchInv
<1>7. DispatchInv'
  BY <1>1, <1>2, <1>4, <1>5, <1>6, Shapes DEF DispatchInv, DispatchTypeOK, JobRec
<1> QED
  BY <1>1, <1>3, <1>7

\* An offer is made or rejected.
LEMMA PlainOfferKeeps ==
    ASSUME DispatchInv, NEW o \in Offers, CreateDispatchOffer(o) \/ RejectOffer(o)
    PROVE  DispatchInv' /\ Committed(None, {}) /\ UNCHANGED <<used, committed, byApp, trip>>
<1>1. /\ offer' \in [Offers -> {"none", "offered", "accepted", "rejected", "cancelled"}]
      /\ \A p \in Offers : offer'[p] = "accepted" => offer[p] = "accepted"
      /\ Committed(None, {}) /\ UNCHANGED <<booking, used, reserved, committed, byApp, trip>>
  BY Shapes DEF DispatchInv, CreateDispatchOffer, RejectOffer, meter
<1>2. job' \in [Requests -> JobRec] /\ \A x \in Requests : JobOK(job'[x])
  BY <1>1, CommittedJobs
<1>3. OneAcceptedOffer'
  BY <1>1, OffersKept DEF DispatchInv
<1>4. DispatchInv'
  BY <1>1, <1>2, <1>3, Shapes DEF DispatchInv, DispatchTypeOK, JobRec
<1> QED
  BY <1>1, <1>4

\* An offer is accepted: no other offer of the booking was, and its trip is
\* written by the app.
LEMMA AcceptOfferKeeps ==
    ASSUME DispatchInv, NEW o \in Offers, AcceptOffer(o)
    PROVE  /\ DispatchInv' /\ Committed(None, {})
           /\ UNCHANGED <<used, committed>> /\ byApp \subseteq byApp'
           /\ \A t \in Trips \ byApp' : trip'[t] = trip[t]
<1>0. trip \in [Trips -> TripRows] /\ byApp \subseteq Trips
  BY Shapes DEF DispatchInv
<1>1. /\ offer' \in [Offers -> {"none", "offered", "accepted", "rejected", "cancelled"}]
      /\ Committed(None, {}) /\ UNCHANGED <<booking, used, reserved, committed>>
  BY Shapes DEF DispatchInv, AcceptOffer, meter
<1>2. OneAcceptedOffer'
  <2>1. \A p \in Offers : offer'[p] = "accepted" => p = o \/ offer[p] = "accepted"
    BY DEF AcceptOffer
  <2>2. \A p \in Offers : OfferOf[p].booking = OfferOf[o].booking => offer[p] # "accepted"
    BY DEF AcceptOffer, Untaken
  <2> QED
    BY <2>1, <2>2 DEF DispatchInv, OneAcceptedOffer
<1>3. PICK u \in Trips :
        /\ trip' = [trip EXCEPT ![u].driver = OfferOf[o].driver,
                                ![u].vehicle = OfferOf[o].vehicle,
                                ![u].status = "assigned"]
        /\ byApp' = byApp \cup {u}
  BY DEF AcceptOffer, TripsOf
<1>4. PICK d \in Drivers, v \in Vehicles : d = OfferOf[o].driver /\ v = OfferOf[o].vehicle
  BY DispatchAssumption
<1>5. PICK r \in TripRows : r = trip[u]
  BY <1>0
<1> DEFINE n == [r EXCEPT !.driver = d, !.vehicle = v, !.status = "assigned"]
<1>6. n \in TripRows /\ n.status = "assigned"
  BY DEF TripRows, TripStatuses, HeldStatuses
<1>7. trip' = [trip EXCEPT ![u] = n]
  BY <1>0, <1>3, <1>4, <1>5
<1> HIDE DEF n
<1>8. Bare(n)
  BY <1>6 DEF Bare, BareStatuses
<1>9. /\ trip' \in [Trips -> TripRows] /\ \A t \in Trips : Bare(trip'[t])
      /\ \A t \in Trips \ {u} : trip'[t] = trip[t]
  BY <1>0, <1>6, <1>7, <1>8 DEF DispatchInv
<1>10. job' \in [Requests -> JobRec] /\ \A x \in Requests : JobOK(job'[x])
  BY <1>1, CommittedJobs
<1>11. byApp' \subseteq Trips
  BY <1>0, <1>3
<1>12. DispatchInv'
  BY <1>1, <1>2, <1>9, <1>10, <1>11, Shapes DEF DispatchInv, DispatchTypeOK, JobRec
<1> QED
  BY <1>1, <1>3, <1>9, <1>12

-----------------------------------------------------------------------------
(* What holds on every database.                                           *)

\* The use cases of a request, by what they write.
LEMMA UseCases ==
    ASSUME NEW w \in Requests, UseCase(w)
    PROVE  \/ Read(w) \/ InsertTrip(w) \/ PlainSave(w) \/ AssignDriver(w)
           \/ AssignVehicle(w) \/ CompleteTrip(w) \/ DriverCommand(w)
  BY DEF UseCase, Read, PlainSave

LEMMA UseCaseKeeps ==
    ASSUME DispatchInv, NEW w \in Requests, UseCase(w)
    PROVE  DispatchInv'
<1>0. used \in Nat /\ reserved \in Nat /\ committed \subseteq Bookings
  BY Shapes DEF DispatchInv
<1>1. CASE Read(w)
  BY <1>1, ReadMoves, OneJobStep DEF MovesTo
<1>2. CASE PlainSave(w)
  <2>1. PICK n : Edit(job[w].snap, n) /\ Save(w, n)
    BY <1>2, PlainSaveEdits
  <2>2. job[w].pc # "idle" /\ UNCHANGED <<meter, byApp>>
    BY <1>2, PlainSaveEdits DEF At
  <2> QED
    BY <1>0, <2>1, <2>2, SaveKeeps DEF Edit, meter
<1>3. CASE AssignDriver(w)
  <2>1. PICK n \in TripRows : Save(w, n) /\ n.status = "assigned"
    BY <1>3, AssignDriverSaves
  <2>2. job[w].pc # "idle" /\ UNCHANGED <<meter, byApp>> /\ Bare(n)
    BY <1>3, <2>1 DEF AssignDriver, At, Bare, BareStatuses
  <2> QED
    BY <1>0, <2>1, <2>2, SaveKeeps DEF meter
<1>4. CASE AssignVehicle(w)
  <2>1. PICK n \in TripRows : Save(w, n) /\ n.status = "assigned"
    BY <1>4, AssignVehicleSaves
  <2>2. job[w].pc # "idle" /\ UNCHANGED <<meter, byApp>> /\ Bare(n)
    BY <1>4, <2>1 DEF AssignVehicle, At, Bare, BareStatuses
  <2> QED
    BY <1>0, <2>1, <2>2, SaveKeeps DEF meter
<1>5. CASE CompleteTrip(w)
  <2>1. PICK n : Edit(job[w].snap, n) /\ Save(w, n)
    BY <1>5, CompleteTripSaves
  <2>2. /\ job[w].pc # "idle" /\ UNCHANGED byApp
        /\ used' \in Nat /\ reserved' \in Nat /\ committed' \subseteq Bookings
    BY <1>5, CompleteTripSaves DEF CompleteTrip, At
  <2> QED
    BY <2>1, <2>2, SaveKeeps DEF Edit
<1> QED
  BY <1>1, <1>2, <1>3, <1>4, <1>5, UseCases, InsertTripKeeps, DriverCommandKeeps

LEMMA DispatchInvStep == DispatchInv /\ [Next]_vars => DispatchInv'
<1> SUFFICES ASSUME DispatchInv, [Next]_vars PROVE DispatchInv'
  OBVIOUS
<1>1. CASE UNCHANGED vars
  BY <1>1 DEF vars, DispatchInv, DispatchTypeOK, OneAcceptedOffer
<1>2. CASE \E w \in Requests : UseCase(w)
  BY <1>2, UseCaseKeeps
<1>3. CASE \E b \in Bookings : BookingStep(b)
  BY <1>3, PlainBookingKeeps, CancelBookingKeeps, CancelCustomerKeeps DEF BookingStep
<1>4. CASE \E o \in Offers : OfferStep(o)
  BY <1>4, PlainOfferKeeps, AcceptOfferKeeps DEF OfferStep
<1> QED
  BY <1>1, <1>2, <1>3, <1>4 DEF Next

LEMMA DispatchInvAlways == Spec => []DispatchInv
<1>1. Init => DispatchInv
  BY DispatchInvInit
<1>2. DispatchInv /\ [Next]_vars => DispatchInv'
  BY DispatchInvStep
<1> QED
  BY <1>1, <1>2, PTL DEF Spec

\* Rows, requests and counters keep their shape on every database; the hold on
\* the quota never goes below zero.
THEOREM DispatchTypeTheorem == Spec => []DispatchTypeOK
<1>1. DispatchInv => DispatchTypeOK
  BY DEF DispatchInv
<1> QED
  BY <1>1, DispatchInvAlways, PTL

\* At most one offer of a booking is ever accepted.
THEOREM OneAcceptedOfferTheorem == Spec => []OneAcceptedOffer
<1>1. DispatchInv => OneAcceptedOffer
  BY DEF DispatchInv
<1> QED
  BY <1>1, DispatchInvAlways, PTL

-----------------------------------------------------------------------------
(* What the version of a trip gives on every database.                     *)

VersionInv == DispatchInv /\ \A w \in Requests : Current(job[w])

\* What CompletedWithStops says of one step.
CompletedRows ==
    \A t \in Trips \ byApp' :
        trip[t].status = "delivered" /\ trip'[t].status = "completed" => trip[t].done

\* The trips whose version is not raised keep their stops, and their status
\* unless they are cancelled.
Unraised(T) ==
    \A t \in (Trips \ T) \ byApp' :
        trip'[t].done = trip[t].done /\ trip'[t].status \in {trip[t].status, "cancelled"}

\* A commit ends the requests that found a trip whose version it raises.
LEMMA CommitCurrent ==
    ASSUME VersionInv, NEW w, NEW T, Committed(w, T), Unraised(T), byApp \subseteq byApp'
    PROVE  \A x \in Requests : Current(job[x])'
<1> SUFFICES ASSUME NEW x \in Requests PROVE Current(job[x])'
  OBVIOUS
<1>1. CASE job'[x] = Idle
  BY <1>1, Empty DEF Current
<1>2. CASE job'[x] = job[x] /\ ~Outdated(x, T)
  <2>1. JobOK(job[x]) /\ Current(job[x])
    BY DEF VersionInv, DispatchInv
  <2> SUFFICES ASSUME job[x].pc \in {"found", "driver", "vehicle", "complete"},
                      job[x].t \notin byApp'
               PROVE  /\ job[x].snap.done = trip'[job[x].t].done
                      /\ trip'[job[x].t].status \in {job[x].snap.status, "cancelled"}
    BY <1>2 DEF Current
  <2>2. job[x].t \in (Trips \ T) \ byApp' /\ job[x].t \notin byApp
    BY <1>2, <2>1 DEF JobOK, Outdated
  <2> QED
    BY <2>1, <2>2 DEF Current, Unraised
<1> QED
  BY <1>1, <1>2 DEF Committed

\* A save raises the version of the trip it writes; what it wrote follows from
\* what was found.
LEMMA SaveCurrent ==
    ASSUME VersionInv, NEW w \in Requests, NEW n, Save(w, n), UNCHANGED byApp,
           job[w].pc \in {"found", "driver", "vehicle", "complete"},
           job[w].snap.status = "delivered" /\ n.status = "completed" => job[w].snap.done
    PROVE  (\A x \in Requests : Current(job[x])') /\ CompletedRows
<1> DEFINE u == job[w].t
<1>1. u \in Trips /\ Current(job[w]) /\ trip \in [Trips -> TripRows]
  BY Shapes DEF VersionInv, DispatchInv, JobOK
<1>2. trip' = [trip EXCEPT ![u] = n] /\ Committed(w, {u})
  BY DEF Save
<1>3. trip'[u] = n /\ \A t \in Trips \ {u} : trip'[t] = trip[t]
  BY <1>1, <1>2
<1>4. Unraised({u})
  BY <1>3 DEF Unraised
<1>5. CompletedRows
  <2> SUFFICES ASSUME NEW t \in Trips \ byApp', trip[t].status = "delivered",
                      trip'[t].status = "completed"
               PROVE  trip[t].done
    BY DEF CompletedRows
  <2>1. t = u
    BY <1>3
  <2>2. job[w].snap.status = "delivered" /\ job[w].snap.done = trip[u].done
    BY <1>1, <2>1 DEF Current
  <2> QED
    BY <1>3, <2>1, <2>2
<1> QED
  BY <1>2, <1>4, <1>5, CommitCurrent

LEMMA UseCaseCurrent ==
    ASSUME VersionInv, NEW w \in Requests, UseCase(w)
    PROVE  VersionInv' /\ CompletedRows
<1>0. DispatchInv'
  BY UseCaseKeeps DEF VersionInv
<1>1. CASE Read(w)
  <2>1. PICK j : MovesTo(w, j)
    BY <1>1, ReadMoves DEF VersionInv
  <2>2. /\ job' = [job EXCEPT ![w] = j] /\ Current(j) /\ UNCHANGED <<trip, byApp>>
    BY <2>1 DEF MovesTo, VersionInv
  <2>3. \A x \in Requests : Current(job'[x])
    BY <2>2, Shapes DEF VersionInv, DispatchInv
  <2>4. \A x \in Requests : Current(job[x])'
    BY <2>2, <2>3 DEF Current
  <2> QED
    BY <1>0, <2>2, <2>4 DEF VersionInv, CompletedRows
<1>2. CASE InsertTrip(w)
  <2>1. /\ trip' = [trip EXCEPT ![job[w].t] = job[w].snap] /\ trip \in [Trips -> TripRows]
        /\ Committed(w, {job[w].t}) /\ UNCHANGED byApp
    BY <1>2, Shapes DEF InsertTrip, VersionInv, DispatchInv
  <2>2. Unraised({job[w].t})
    BY <2>1 DEF Unraised
  <2>3. CompletedRows
    BY <1>2, InsertTripKeeps DEF VersionInv, CompletedRows
  <2> QED
    BY <1>0, <2>1, <2>2, <2>3, CommitCurrent DEF VersionInv
<1>3. CASE PlainSave(w)
  <2>1. PICK n : Edit(job[w].snap, n) /\ Save(w, n)
    BY <1>3, PlainSaveEdits DEF VersionInv
  <2>2. At(w, "found") /\ UNCHANGED byApp
    BY <1>3, PlainSaveEdits DEF VersionInv
  <2> QED
    BY <1>0, <2>1, <2>2, SaveCurrent DEF VersionInv, At, Edit, Forward
<1>4. CASE AssignDriver(w)
  <2>1. PICK n : Save(w, n) /\ n.status = "assigned"
    BY <1>4, AssignDriverSaves DEF VersionInv
  <2> QED
    BY <1>0, <1>4, <2>1, SaveCurrent DEF VersionInv, AssignDriver, At
<1>5. CASE AssignVehicle(w)
  <2>1. PICK n : Save(w, n) /\ n.status = "assigned"
    BY <1>5, AssignVehicleSaves DEF VersionInv
  <2> QED
    BY <1>0, <1>5, <2>1, SaveCurrent DEF VersionInv, AssignVehicle, At
<1>6. CASE CompleteTrip(w)
  <2>1. PICK n : Edit(job[w].snap, n) /\ Save(w, n)
    BY <1>6, CompleteTripSaves DEF VersionInv
  <2> QED
    BY <1>0, <1>6, <2>1, SaveCurrent DEF VersionInv, CompleteTrip, At, Edit, Forward
<1>7. CASE DriverCommand(w)
  <2>1. /\ Committed(w, {}) /\ byApp \subseteq byApp'
        /\ \A t \in Trips \ byApp' : trip'[t] = trip[t]
    BY <1>7, DriverCommandKeeps DEF VersionInv
  <2> QED
    BY <1>0, <2>1, CommitCurrent DEF VersionInv, Unraised, CompletedRows
<1> QED
  BY <1>1, <1>2, <1>3, <1>4, <1>5, <1>6, <1>7, UseCases

\* Cancelling a booking touches no stop, and the portal's cancellation, which
\* raises no version, writes no other status.
LEMMA BookingCurrent ==
    ASSUME VersionInv, NEW b \in Bookings, BookingStep(b)
    PROVE  VersionInv' /\ CompletedRows
<1>0. trip \in [Trips -> TripRows] /\ byApp \subseteq byApp'
  BY Shapes DEF VersionInv, DispatchInv, BookingStep, CreateBooking, CreateBookingWithDetails,
                ConfirmBooking, CompleteBooking, CancelBooking, CancelCustomerBooking, DeleteBooking
<1>1. DispatchInv'
  BY PlainBookingKeeps, CancelBookingKeeps, CancelCustomerKeeps DEF BookingStep, VersionInv
<1>2. ASSUME NEW T, Committed(None, T), Unraised(T),
             \A t \in T : trip'[t].status # "completed"
      PROVE  VersionInv' /\ CompletedRows
  <2>1. CompletedRows
    BY <1>2 DEF CompletedRows, Unraised
  <2> QED
    BY <1>0, <1>1, <1>2, <2>1, CommitCurrent DEF VersionInv
<1>3. CASE UNCHANGED trip /\ Committed(None, {})
  BY <1>2, <1>3 DEF Unraised
<1>4. ASSUME NEW u \in FindByBookingID(b), u # None, Committed(None, {u}),
             trip' = [trip EXCEPT ![u].status = "cancelled"]
      PROVE  VersionInv' /\ CompletedRows
  <2>1. u \in Trips
    BY <1>4 DEF FindByBookingID, TripsOf
  <2>2. PICK r \in TripRows : r = trip[u]
    BY <1>0, <2>1
  <2>3. /\ trip'[u] = [r EXCEPT !.status = "cancelled"]
        /\ \A t \in Trips \ {u} : trip'[t] = trip[t]
    BY <1>0, <1>4, <2>1, <2>2
  <2>4. Unraised({u}) /\ trip'[u].status = "cancelled"
    BY <2>3 DEF Unraised, TripRows
  <2> QED
    BY <1>2, <1>4, <2>4
<1>5. CASE CancelBooking(b)
  BY <1>3, <1>4, <1>5 DEF CancelBooking
<1>6. CASE CancelCustomerBooking(b)
  <2>1. ASSUME NEW t \in Trips
        PROVE  /\ trip'[t].done = trip[t].done
               /\ trip'[t].status \in {trip[t].status, "cancelled"}
    <3>1. PICK r \in TripRows : r = trip[t]
      BY <1>0
    <3>2. trip'[t] \in {r, [r EXCEPT !.status = "cancelled"]}
      BY <1>6, <3>1 DEF CancelCustomerBooking
    <3>3. [r EXCEPT !.status = "cancelled"].done = r.done
          /\ [r EXCEPT !.status = "cancelled"].status = "cancelled"
      BY DEF TripRows
    <3> QED
      BY <3>1, <3>2, <3>3
  <2>2. Unraised({}) /\ Committed(None, {})
    BY <1>6, <2>1 DEF Unraised, CancelCustomerBooking
  <2> QED
    BY <1>2, <2>2
<1>7. CASE \/ CreateBooking(b) \/ CreateBookingWithDetails(b) \/ ConfirmBooking(b)
           \/ CompleteBooking(b) \/ DeleteBooking(b)
  BY <1>3, <1>7, PlainBookingKeeps DEF VersionInv
<1> QED
  BY <1>5, <1>6, <1>7 DEF BookingStep

LEMMA OfferCurrent ==
    ASSUME VersionInv, NEW o \in Offers, OfferStep(o)
    PROVE  VersionInv' /\ CompletedRows
<1>1. /\ DispatchInv' /\ Committed(None, {}) /\ byApp \subseteq byApp'
      /\ \A t \in Trips \ byApp' : trip'[t] = trip[t]
  BY PlainOfferKeeps, AcceptOfferKeeps DEF OfferStep, VersionInv
<1> QED
  BY <1>1, CommitCurrent DEF VersionInv, Unraised, CompletedRows

LEMMA VersionStep == ASSUME VersionInv, [Next]_vars PROVE VersionInv' /\ CompletedRows
<1>1. CASE UNCHANGED vars
  <2>1. DispatchInv'
    BY <1>1, DispatchInvStep DEF VersionInv
  <2>2. \A x \in Requests : Current(job[x])'
    BY <1>1 DEF vars, VersionInv, Current
  <2> QED
    BY <1>1, <2>1, <2>2 DEF vars, VersionInv, CompletedRows
<1> QED
  BY <1>1, UseCaseCurrent, BookingCurrent, OfferCurrent DEF Next

LEMMA VersionAlways == Spec => []VersionInv
<1>1. Init => VersionInv
  BY DispatchInvInit, Empty DEF Init, VersionInv, Current
<1>2. VersionInv /\ [Next]_vars => VersionInv'
  BY VersionStep
<1> QED
  BY <1>1, <1>2, PTL DEF Spec

\* A trip is completed only while all its stops are: the version of the trip is
\* enough for that, on every database.
THEOREM CompletedWithStopsTheorem == Spec => CompletedWithStops
<1>1. VersionInv /\ [Next]_vars =>
        [\A t \in Trips \ byApp' :
           trip[t].status = "delivered" /\ trip'[t].status = "completed"
           => trip[t].done]_vars
  BY VersionStep DEF CompletedRows
<1> QED
  BY <1>1, VersionAlways, PTL DEF Spec, CompletedWithStops

-----------------------------------------------------------------------------
(* What holds where transactions are serializable.                         *)

SerialInv ==
    /\ DispatchInv
    /\ \A w \in Requests : Live(job[w])
    /\ \A t \in Trips \ byApp : Landed(trip[t])
    /\ NoDoubleBooking
    /\ UsedMatchesEvents

\* After a commit no request has a view of the tables that could be old.
LEMMA NothingStale ==
    ASSUME Serial, DispatchInv, NEW w, NEW T, Committed(w, T)
    PROVE  \A x \in Requests : Live(job[x])'
<1>1. \A x \in Requests : job'[x].pc \in {"idle", "command"}
  BY CommittedJobs
<1> QED
  BY <1>1 DEF Live

\* The rows after a commit, for the trips the app has not written: they moved
\* forward, and nobody was put on the road.
RowsMoved ==
    \A t \in Trips \ byApp' :
        /\ Landed(trip'[t])
        /\ trip[t].status # "none" => Forward(trip[t], trip'[t])

NoneAssigned ==
    \A t \in Trips \ byApp' :
        OnTheRoad(trip'[t]) =>
            /\ OnTheRoad(trip[t])
            /\ trip'[t].driver = trip[t].driver /\ trip'[t].vehicle = trip[t].vehicle

LEMMA NoneAssignedKeeps ==
    ASSUME NoDoubleBooking, NoneAssigned, byApp \subseteq byApp'
    PROVE  NoDoubleBooking'
<1> SUFFICES ASSUME NEW t \in Trips \ byApp', NEW u \in Trips \ byApp', t # u,
                    UnderWay(t)', UnderWay(u)'
             PROVE  \A f \in {"driver", "vehicle"} :
                      trip'[t][f] # None => trip'[t][f] # trip'[u][f]
  BY DEF NoDoubleBooking
<1>1. /\ OnTheRoad(trip[t]) /\ OnTheRoad(trip[u])
      /\ trip'[t].driver = trip[t].driver /\ trip'[t].vehicle = trip[t].vehicle
      /\ trip'[u].driver = trip[u].driver /\ trip'[u].vehicle = trip[u].vehicle
  BY DEF NoneAssigned, OnTheRoad, UnderWay
<1>2. UnderWay(t) /\ UnderWay(u) /\ t \in Trips \ byApp /\ u \in Trips \ byApp
  BY <1>1 DEF OnTheRoad, UnderWay
<1> QED
  BY <1>1, <1>2 DEF NoDoubleBooking

\* The commits that leave the usage alone.
LEMMA CommitKeeps ==
    ASSUME Serial, SerialInv, DispatchInv', NEW w, NEW T, Committed(w, T),
           RowsMoved, NoDoubleBooking', UsedMatchesEvents'
    PROVE  SerialInv'
  BY NothingStale DEF SerialInv, RowsMoved

\* Rows that stay or are edited.
LEMMA RowsEdited ==
    ASSUME SerialInv, byApp \subseteq byApp',
           \A t \in Trips \ byApp' : trip'[t] = trip[t] \/ Edit(trip[t], trip'[t])
    PROVE  RowsMoved /\ NoDoubleBooking'
<1>1. \A t \in Trips \ byApp' : Landed(trip[t])
  BY DEF SerialInv
<1>2. RowsMoved
  BY <1>1 DEF RowsMoved, Edit, Forward
<1>3. NoneAssigned
  BY <1>1 DEF NoneAssigned, Edit
<1> QED
  BY <1>2, <1>3, NoneAssignedKeeps DEF SerialInv

\* A request that only reads has read what is true now.
LEMMA ReadSerial ==
    ASSUME SerialInv, NEW w \in Requests, Read(w)
    PROVE  SerialInv' /\ RowsMoved
<1>1. PICK j : MovesTo(w, j)
  BY ReadMoves DEF SerialInv
<1>2. /\ job' = [job EXCEPT ![w] = j] /\ Live(j)
      /\ UNCHANGED <<trip, used, committed, byApp>>
  BY <1>1 DEF MovesTo, SerialInv, meter
<1>3. DispatchInv'
  BY <1>1, OneJobStep DEF MovesTo, SerialInv
<1>4. ASSUME NEW x \in Requests PROVE Live(job[x])'
  <2>1. Live(job'[x])
    BY <1>2, Shapes DEF SerialInv, DispatchInv
  <2> QED
    BY <1>2, <2>1 DEF Live, Conflicts
<1>5. NoDoubleBooking' /\ UsedMatchesEvents'
  BY <1>2 DEF SerialInv, NoDoubleBooking, UsedMatchesEvents, UnderWay
<1>6. RowsMoved
  BY <1>2 DEF SerialInv, RowsMoved, Forward
<1> QED
  BY <1>3, <1>4, <1>5, <1>6 DEF SerialInv, RowsMoved

\* A save of an edit of the row that was found: that row is the one in the table.
LEMMA SavedEdit ==
    ASSUME SerialInv, NEW w \in Requests, NEW n, Save(w, n),
           job[w].pc \in {"found", "complete"}, Edit(job[w].snap, n), UNCHANGED byApp
    PROVE  RowsMoved /\ NoDoubleBooking'
<1>1. job[w].t \in Trips /\ job[w].snap = trip[job[w].t]
  BY DEF SerialInv, DispatchInv, JobOK, Live
<1>2. trip' = [trip EXCEPT ![job[w].t] = n] /\ trip \in [Trips -> TripRows]
  BY Shapes DEF Save, SerialInv, DispatchInv
<1>3. \A t \in Trips : trip'[t] = trip[t] \/ Edit(trip[t], trip'[t])
  BY <1>1, <1>2
<1> QED
  BY <1>3, RowsEdited

LEMMA PlainSaveSerial ==
    ASSUME Serial, SerialInv, NEW w \in Requests, PlainSave(w)
    PROVE  SerialInv' /\ RowsMoved
<1>1. PICK n : Edit(job[w].snap, n) /\ Save(w, n)
  BY PlainSaveEdits DEF SerialInv
<1>2. At(w, "found") /\ UNCHANGED <<meter, byApp>>
  BY PlainSaveEdits DEF SerialInv
<1>3. RowsMoved /\ NoDoubleBooking'
  BY <1>1, <1>2, SavedEdit DEF At
<1>4. UsedMatchesEvents'
  BY <1>2 DEF SerialInv, UsedMatchesEvents, meter
<1>5. DispatchInv'
  BY UseCaseKeeps DEF SerialInv, PlainSave, UseCase
<1> QED
  BY <1>1, <1>3, <1>4, <1>5, CommitKeeps DEF Save

\* A completion counts a booking that has no usage event yet, and only then.
LEMMA CompleteSerial ==
    ASSUME Serial, SerialInv, NEW w \in Requests, CompleteTrip(w)
    PROVE  SerialInv' /\ RowsMoved
<1> DEFINE b == job[w].snap.booking
<1>1. PICK n : Edit(job[w].snap, n) /\ Save(w, n)
  BY CompleteTripSaves DEF SerialInv
<1>2. At(w, "complete") /\ UNCHANGED byApp
  BY DEF CompleteTrip
<1>3. RowsMoved /\ NoDoubleBooking'
  BY <1>1, <1>2, SavedEdit DEF At
<1>4. UsedMatchesEvents'
  <2>1. /\ used \in Nat /\ committed \subseteq Bookings /\ used = Cardinality(committed)
        /\ b \in Bookings \cup {None} /\ job[w].counted \in BOOLEAN
    BY Shapes DEF SerialInv, DispatchInv, UsedMatchesEvents, JobRec, TripRows
  <2>2. job[w].counted <=> b \in committed
    BY <1>2 DEF SerialInv, Live, At
  <2>3. CASE b = None \/ job[w].counted
    BY <2>1, <2>3 DEF CompleteTrip, UsedMatchesEvents, meter
  <2>4. CASE ~(b = None \/ job[w].counted)
    <3>1. b \notin committed /\ used' = used + 1 /\ committed' = committed \cup {b}
      BY <2>2, <2>4 DEF CompleteTrip, CommitQuota
    <3>2. IsFiniteSet(committed)
      BY <2>1, FS_Subset, DispatchAssumption
    <3>3. Cardinality(committed \cup {b}) = Cardinality(committed) + 1
      BY <3>1, <3>2, FS_AddElement
    <3> QED
      BY <2>1, <3>1, <3>3 DEF UsedMatchesEvents
  <2> QED
    BY <2>3, <2>4
<1>5. DispatchInv'
  BY UseCaseKeeps DEF SerialInv, UseCase
<1> QED
  BY <1>1, <1>3, <1>4, <1>5, CommitKeeps DEF Save

\* The trip that gets resource x in field f is the only one under way with it,
\* since none was in conflict.
LEMMA AssignedAlone ==
    ASSUME SerialInv, NEW t \in Trips, NEW n \in TripRows,
           NEW f \in {"driver", "vehicle"}, NEW x, Conflicts(t, f, x) = {},
           trip' = [trip EXCEPT ![t] = n], n[f] = x, UNCHANGED byApp,
           \A g \in {"driver", "vehicle"} \ {f} :
               n[g] = None \/ (UnderWay(t) /\ n[g] = trip[t][g])
    PROVE  NoDoubleBooking'
<1>0. trip \in [Trips -> TripRows]
  BY Shapes DEF SerialInv, DispatchInv
<1>1. trip'[t] = n /\ \A u \in Trips \ {t} : trip'[u] = trip[u]
  BY <1>0
<1>2. ASSUME NEW u \in Trips \ byApp, u # t, t \notin byApp, UnderWay(u),
             NEW g \in {"driver", "vehicle"}, n[g] # None
      PROVE  n[g] # trip[u][g]
  <2>1. CASE g = f
    <3>1. u \notin Conflicts(t, f, x)
      OBVIOUS
    <3>2. trip[u].status \in HeldStatuses /\ ~trip[u].arrived
      BY <1>2 DEF UnderWay, HeldStatuses
    <3> QED
      BY <1>2, <2>1, <3>1, <3>2 DEF Conflicts
  <2>2. CASE g # f
    <3>1. UnderWay(t) /\ n[g] = trip[t][g]
      BY <1>2, <2>2
    <3> QED
      BY <1>2, <3>1 DEF SerialInv, NoDoubleBooking
  <2> QED
    BY <2>1, <2>2
<1>3. \A u \in Trips \ {t} : UnderWay(u)' <=> UnderWay(u)
  BY <1>1 DEF UnderWay
<1> SUFFICES ASSUME NEW u \in Trips \ byApp', NEW v \in Trips \ byApp', u # v,
                    UnderWay(u)', UnderWay(v)', NEW g \in {"driver", "vehicle"},
                    trip'[u][g] # None
             PROVE  trip'[u][g] # trip'[v][g]
  BY DEF NoDoubleBooking
<1>4. CASE u = t
  BY <1>1, <1>2, <1>3, <1>4
<1>5. CASE v = t
  <2>1. CASE n[g] = None
    BY <1>1, <1>5, <2>1
  <2>2. CASE n[g] # None
    BY <1>1, <1>2, <1>3, <1>5, <2>2
  <2> QED
    BY <2>1, <2>2
<1>6. CASE u # t /\ v # t
  BY <1>1, <1>3, <1>6 DEF SerialInv, NoDoubleBooking
<1> QED
  BY <1>4, <1>5, <1>6

LEMMA AssignDriverSerial ==
    ASSUME Serial, SerialInv, NEW w \in Requests, AssignDriver(w)
    PROVE  SerialInv' /\ RowsMoved
<1> DEFINE t == job[w].t
<1>1. PICK n \in TripRows :
        /\ Save(w, n) /\ n.status = "assigned" /\ n.driver = job[w].with
        /\ n.vehicle = job[w].snap.vehicle /\ n.arrived = job[w].snap.arrived
  BY AssignDriverSaves DEF SerialInv
<1>2. /\ t \in Trips /\ job[w].snap = trip[t] /\ trip[t].status \in Assignable
      /\ Conflicts(t, "driver", job[w].with) = {} /\ UNCHANGED <<meter, byApp>>
  BY DEF AssignDriver, At, SerialInv, DispatchInv, JobOK, Live
<1>3. /\ trip' = [trip EXCEPT ![t] = n] /\ trip \in [Trips -> TripRows]
  BY <1>1, Shapes DEF Save, SerialInv, DispatchInv
<1>4. n.vehicle = None \/ trip[t].status = "assigned"
  BY <1>1, <1>2 DEF SerialInv, DispatchInv, Bare, BareStatuses, Assignable
<1>5. t \notin byApp => ~trip[t].arrived
  BY <1>2 DEF SerialInv, Landed, Assignable
<1>6. RowsMoved
  BY <1>1, <1>2, <1>3, <1>5
  DEF RowsMoved, SerialInv, Landed, Forward, Workflow, Assignable
<1>7. NoDoubleBooking'
  <2>1. CASE t \in byApp
    <3>1. NoneAssigned
      BY <1>2, <1>3, <2>1 DEF NoneAssigned
    <3> QED
      BY <1>2, <3>1, NoneAssignedKeeps DEF SerialInv
  <2>2. CASE t \notin byApp
    <3>1. n.vehicle = None \/ (UnderWay(t) /\ n.vehicle = trip[t].vehicle)
      BY <1>1, <1>2, <1>4, <1>5, <2>2 DEF UnderWay
    <3>2. \A g \in {"driver", "vehicle"} \ {"driver"} :
            n[g] = None \/ (UnderWay(t) /\ n[g] = trip[t][g])
      BY <3>1
    <3>3. n["driver"] = job[w].with /\ UNCHANGED byApp
      BY <1>1, <1>2
    <3> HIDE DEF t
    <3> QED
      BY <1>2, <1>3, <3>2, <3>3, AssignedAlone
  <2> QED
    BY <2>1, <2>2
<1>8. UsedMatchesEvents'
  BY <1>2 DEF SerialInv, UsedMatchesEvents, meter
<1>9. DispatchInv'
  BY UseCaseKeeps DEF SerialInv, UseCase
<1> QED
  BY <1>1, <1>6, <1>7, <1>8, <1>9, CommitKeeps DEF Save

LEMMA AssignVehicleSerial ==
    ASSUME Serial, SerialInv, NEW w \in Requests, AssignVehicle(w)
    PROVE  SerialInv' /\ RowsMoved
<1> DEFINE t == job[w].t
<1>1. PICK n \in TripRows :
        /\ Save(w, n) /\ n.status = job[w].snap.status /\ n.vehicle = job[w].with
        /\ n.driver = job[w].snap.driver /\ n.arrived = job[w].snap.arrived
        /\ n.status = "assigned"
  BY AssignVehicleSaves DEF SerialInv
<1>2. /\ t \in Trips /\ job[w].snap = trip[t] /\ trip[t].status = "assigned"
      /\ Conflicts(t, "vehicle", job[w].with) = {} /\ UNCHANGED <<meter, byApp>>
  BY <1>1 DEF AssignVehicle, At, SerialInv, DispatchInv, JobOK, Live
<1>3. /\ trip' = [trip EXCEPT ![t] = n] /\ trip \in [Trips -> TripRows]
  BY <1>1, Shapes DEF Save, SerialInv, DispatchInv
<1>4. t \notin byApp => ~trip[t].arrived
  BY <1>2 DEF SerialInv, Landed
<1>5. RowsMoved
  BY <1>1, <1>2, <1>3 DEF RowsMoved, SerialInv, Landed, Forward
<1>6. NoDoubleBooking'
  <2>1. CASE t \in byApp
    <3>1. NoneAssigned
      BY <1>2, <1>3, <2>1 DEF NoneAssigned
    <3> QED
      BY <1>2, <3>1, NoneAssignedKeeps DEF SerialInv
  <2>2. CASE t \notin byApp
    <3>1. UnderWay(t) /\ n.driver = trip[t].driver
      BY <1>1, <1>2, <1>4, <2>2 DEF UnderWay
    <3>2. \A g \in {"driver", "vehicle"} \ {"vehicle"} :
            n[g] = None \/ (UnderWay(t) /\ n[g] = trip[t][g])
      BY <3>1
    <3>3. n["vehicle"] = job[w].with /\ UNCHANGED byApp
      BY <1>1, <1>2
    <3> HIDE DEF t
    <3> QED
      BY <1>2, <1>3, <3>2, <3>3, AssignedAlone
  <2> QED
    BY <2>1, <2>2
<1>7. UsedMatchesEvents'
  BY <1>2 DEF SerialInv, UsedMatchesEvents, meter
<1>8. DispatchInv'
  BY UseCaseKeeps DEF SerialInv, UseCase
<1> QED
  BY <1>1, <1>5, <1>6, <1>7, <1>8, CommitKeeps DEF Save

LEMMA InsertSerial ==
    ASSUME Serial, SerialInv, NEW w \in Requests, InsertTrip(w)
    PROVE  SerialInv' /\ RowsMoved
<1>1. /\ DispatchInv' /\ Committed(w, {job[w].t}) /\ UNCHANGED <<meter, byApp>>
      /\ \A t \in Trips : trip'[t] # trip[t] =>
           trip[t].status = "none" /\ ~trip'[t].arrived /\ trip'[t].status = "draft"
  BY InsertTripKeeps DEF SerialInv
<1>2. RowsMoved
  BY <1>1 DEF RowsMoved, SerialInv, Landed, Forward
<1>3. NoneAssigned
  BY <1>1 DEF NoneAssigned, OnTheRoad
<1>4. NoDoubleBooking' /\ UsedMatchesEvents'
  BY <1>1, <1>3, NoneAssignedKeeps DEF SerialInv, UsedMatchesEvents, meter
<1> QED
  BY <1>1, <1>2, <1>4, CommitKeeps

LEMMA CommandSerial ==
    ASSUME Serial, SerialInv, NEW w \in Requests, DriverCommand(w)
    PROVE  SerialInv' /\ RowsMoved
<1>1. /\ DispatchInv' /\ Committed(w, {}) /\ UNCHANGED meter /\ byApp \subseteq byApp'
      /\ \A t \in Trips \ byApp' : trip'[t] = trip[t]
  BY DriverCommandKeeps DEF SerialInv
<1>2. RowsMoved /\ NoDoubleBooking' /\ UsedMatchesEvents'
  BY <1>1, RowsEdited DEF SerialInv, UsedMatchesEvents, meter
<1> QED
  BY <1>1, <1>2, CommitKeeps

LEMMA BookingSerial ==
    ASSUME Serial, SerialInv, NEW b \in Bookings, BookingStep(b)
    PROVE  SerialInv' /\ RowsMoved
<1>1. /\ DispatchInv' /\ \E T : Committed(None, T)
      /\ UNCHANGED <<used, committed, byApp>>
      /\ \A t \in Trips : trip'[t] = trip[t] \/ Edit(trip[t], trip'[t])
  BY PlainBookingKeeps, CancelBookingKeeps, CancelCustomerKeeps DEF BookingStep, SerialInv
<1>2. RowsMoved /\ NoDoubleBooking' /\ UsedMatchesEvents'
  BY <1>1, RowsEdited DEF SerialInv, UsedMatchesEvents
<1> QED
  BY <1>1, <1>2, CommitKeeps

LEMMA OfferSerial ==
    ASSUME Serial, SerialInv, NEW o \in Offers, OfferStep(o)
    PROVE  SerialInv' /\ RowsMoved
<1>1. /\ DispatchInv' /\ Committed(None, {})
      /\ UNCHANGED <<used, committed>> /\ byApp \subseteq byApp'
      /\ \A t \in Trips \ byApp' : trip'[t] = trip[t]
  BY PlainOfferKeeps, AcceptOfferKeeps DEF OfferStep, SerialInv
<1>2. RowsMoved /\ NoDoubleBooking' /\ UsedMatchesEvents'
  BY <1>1, RowsEdited DEF SerialInv, UsedMatchesEvents
<1> QED
  BY <1>1, <1>2, CommitKeeps

LEMMA SerialInit == Init => SerialInv
<1> SUFFICES ASSUME Init PROVE SerialInv
  OBVIOUS
<1>1. DispatchInv
  BY DispatchInvInit
<1>2. \A w \in Requests : Live(job[w])
  BY Empty DEF Init, Live
<1>3. NoDoubleBooking /\ \A t \in Trips \ byApp : Landed(trip[t])
  BY Empty DEF Init, NoDoubleBooking, UnderWay, Landed
<1>4. UsedMatchesEvents
  BY FS_EmptySet DEF Init, UsedMatchesEvents
<1> QED
  BY <1>1, <1>2, <1>3, <1>4 DEF SerialInv

LEMMA SerialStep ==
    ASSUME Serial, SerialInv, [Next]_vars
    PROVE  SerialInv' /\ RowsMoved
<1>1. CASE UNCHANGED vars
  <2>1. DispatchInv'
    BY <1>1, DispatchInvStep DEF SerialInv
  <2>2. NoDoubleBooking' /\ UsedMatchesEvents' /\ RowsMoved
    BY <1>1 DEF vars, SerialInv, NoDoubleBooking, UsedMatchesEvents, UnderWay, RowsMoved,
                Forward
  <2>3. \A x \in Requests : Live(job[x])'
    BY <1>1 DEF vars, SerialInv, Live, Conflicts
  <2> QED
    BY <2>1, <2>2, <2>3 DEF SerialInv, RowsMoved
<1>2. ASSUME NEW w \in Requests, UseCase(w) PROVE SerialInv' /\ RowsMoved
  BY <1>2, UseCases, ReadSerial, InsertSerial, PlainSaveSerial, AssignDriverSerial,
     AssignVehicleSerial, CompleteSerial, CommandSerial
<1>3. CASE \E b \in Bookings : BookingStep(b)
  BY <1>3, BookingSerial
<1>4. CASE \E o \in Offers : OfferStep(o)
  BY <1>4, OfferSerial
<1> QED
  BY <1>1, <1>2, <1>3, <1>4 DEF Next

LEMMA SerialAlways == ASSUME Serial PROVE Spec => []SerialInv
<1>1. Init => SerialInv
  BY SerialInit
<1>2. SerialInv /\ [Next]_vars => SerialInv'
  BY SerialStep
<1> QED
  BY <1>1, <1>2, PTL DEF Spec

\* The conflict check and the save of an assignment are apart, and yet no driver
\* and no vehicle is booked for two trips under way unless the app wrote one.
THEOREM NoDoubleBookingTheorem == ASSUME Serial PROVE Spec => []NoDoubleBooking
<1>1. SerialInv => NoDoubleBooking
  BY DEF SerialInv
<1> QED
  BY <1>1, SerialAlways, PTL

\* The quota counts every completed booking once, however often its completion
\* is repeated and on however many trips.
THEOREM UsedMatchesEventsTheorem == ASSUME Serial PROVE Spec => []UsedMatchesEvents
<1>1. SerialInv => UsedMatchesEvents
  BY DEF SerialInv
<1> QED
  BY <1>1, SerialAlways, PTL

\* Outside the app, a trip only moves along its workflow or is cancelled.
THEOREM TripMovesForwardTheorem == ASSUME Serial PROVE Spec => TripMovesForward
<1>1. SerialInv /\ [Next]_vars =>
        [\A t \in Trips :
           LET old == trip[t].status  new == trip'[t].status IN
           t \notin byApp' /\ old # "none" /\ new # old
           => \/ <<old, new>> \in Workflow
              \/ new = "cancelled" /\ old # "completed"]_vars
  BY SerialStep DEF RowsMoved, Forward
<1> QED
  BY <1>1, SerialAlways, PTL DEF Spec, TripMovesForward

=============================================================================
