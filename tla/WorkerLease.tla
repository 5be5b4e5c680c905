---------------------------- MODULE WorkerLease ----------------------------
(***************************************************************************)
(* The database lease that elects one replica for a background worker      *)
(* (internal/leader).  One lease name; each replica runs                   *)
(* Manager.RunAsLeader once, started by runLeadered in cmd/server/main.go. *)
(*                                                                         *)
(* Time is relative: the lease row carries the time left until expires_at, *)
(* so no clock grows without bound.  A replica's clock is off by a fixed   *)
(* Skew.  A claim reads the clock first and reaches the database later.    *)
(***************************************************************************)
EXTENDS Integers

CONSTANTS
    Replicas,
    TTL,            \* Manager.ttl
    RenewEvery,     \* the renewal ticker's period, ttl/3
    Skew,           \* how far each replica's clock is ahead
    MaxSkew,        \* bound on |Skew|
    MaxDelay,       \* bound on the time a statement is under way
    MaxFaults,      \* bound on errors, panics, crashes and shutdowns
    Gone            \* the holder name of a process that no longer exists

ASSUME LeaseAssumption ==
    /\ MaxSkew \in Nat /\ MaxDelay \in Nat /\ MaxFaults \in Nat
    /\ RenewEvery \in Nat \ {0}
    /\ TTL \in Nat /\ TTL > 2 * MaxSkew
    /\ Skew \in [Replicas -> (-MaxSkew)..MaxSkew]
    /\ Gone \notin Replicas

VARIABLES
    lease,      \* the worker_leases row: holder and time left (Gone: no row)
    main,       \* where each replica's RunAsLeader is
    stmt,       \* time since a claim under way read the clock, or NoStmt
    renewing,   \* the renewal goroutine is alive
    cancelled,  \* renewCtx is cancelled
    up,         \* the process context is not cancelled
    age,        \* time since the clock reading of the last successful claim
    faults

leaseVars == <<lease, main, stmt, renewing, cancelled, up, age, faults>>

NoStmt == -1
Floor  == -(MaxDelay + MaxSkew + 1)  \* expired for every replica
AgeCap == TTL + 1                    \* older ages are not told apart

Init ==
    /\ lease = [holder |-> Gone, left |-> Floor]
    /\ main = [r \in Replicas |-> "trying"]
    /\ stmt = [r \in Replicas |-> NoStmt]
    /\ renewing = [r \in Replicas |-> FALSE]
    /\ cancelled = [r \in Replicas |-> FALSE]
    /\ up = [r \in Replicas |-> TRUE]
    /\ age = [r \in Replicas |-> AgeCap]
    /\ faults = 0

-----------------------------------------------------------------------------
\* The upsert's WHERE clause, with the clock value the claim carries; mutants
\* that steal a lease before it expired, and that never steal one.
CanClaim_EarlySteal(r) == lease.left <= Skew[r] + 1 \/ lease.holder = r

CanClaim_NeverSteals(r) == lease.holder \in {Gone, r}

CanClaim(r) == lease.left < Skew[r] - stmt[r] \/ lease.holder = r

\* The row a claim writes, and a mutant that extends the previous expiry.
Claimed_Extends(r) == [holder |-> r, left |-> lease.left + TTL]

Claimed(r) == [holder |-> r, left |-> TTL + Skew[r] - stmt[r]]

Fault == faults < MaxFaults /\ faults' = faults + 1

\* now := time.Now().UnixMilli(), in the acquire loop.
StartAcquire(r) ==
    /\ main[r] = "trying" /\ stmt[r] = NoStmt
    /\ stmt' = [stmt EXCEPT ![r] = 0]
    /\ UNCHANGED <<lease, main, renewing, cancelled, up, age, faults>>

\* The upsert of the acquire loop; a winner starts fn and the renewal, a loser
\* pauses for ttl/6.
ExecAcquire(r) ==
    /\ main[r] = "trying" /\ stmt[r] # NoStmt
    /\ stmt' = [stmt EXCEPT ![r] = NoStmt]
    /\ IF CanClaim(r)
       THEN /\ lease' = Claimed(r)
            /\ main' = [main EXCEPT ![r] = "running"]
            /\ renewing' = [renewing EXCEPT ![r] = TRUE]
            /\ cancelled' = [cancelled EXCEPT ![r] = ~up[r]]
            /\ age' = [age EXCEPT ![r] = stmt[r]]
       ELSE /\ main' = [main EXCEPT ![r] = "pausing"]
            /\ UNCHANGED <<lease, renewing, cancelled, age>>
    /\ UNCHANGED <<up, faults>>

\* The claim fails, or succeeds and its answer is lost: the loop retries.
AcquireError(r) ==
    /\ main[r] = "trying" /\ stmt[r] # NoStmt
    /\ IF up[r] THEN Fault ELSE UNCHANGED faults
    /\ stmt' = [stmt EXCEPT ![r] = NoStmt]
    /\ \/ UNCHANGED lease
       \/ CanClaim(r) /\ lease' = Claimed(r)
    /\ main' = [main EXCEPT ![r] = "pausing"]
    /\ UNCHANGED <<renewing, cancelled, up, age>>

\* The select of the acquire loop sees ctx.Done.
Quit(r) ==
    /\ main[r] = "pausing" /\ ~up[r]
    /\ main' = [main EXCEPT ![r] = "done"]
    /\ UNCHANGED <<lease, stmt, renewing, cancelled, up, age, faults>>

-----------------------------------------------------------------------------
(* The renewal goroutine.                                                  *)

StartRenew(r) ==
    /\ renewing[r] /\ ~cancelled[r]
    /\ stmt[r] = NoStmt /\ age[r] >= RenewEvery
    /\ stmt' = [stmt EXCEPT ![r] = 0]
    /\ UNCHANGED <<lease, main, renewing, cancelled, up, age, faults>>

\* "lease lost mid-run; cancelling work" when the claim does not win.
ExecRenew(r) ==
    /\ renewing[r] /\ stmt[r] # NoStmt
    /\ stmt' = [stmt EXCEPT ![r] = NoStmt]
    /\ IF CanClaim(r)
       THEN /\ lease' = Claimed(r)
            /\ age' = [age EXCEPT ![r] = stmt[r]]
            /\ UNCHANGED <<renewing, cancelled>>
       ELSE /\ renewing' = [renewing EXCEPT ![r] = FALSE]
            /\ cancelled' = [cancelled EXCEPT ![r] = TRUE]
            /\ UNCHANGED <<lease, age>>
    /\ UNCHANGED <<main, up, faults>>

\* Any error cancels the work, whether the claim was applied or not.
RenewError(r) ==
    /\ renewing[r] /\ stmt[r] # NoStmt
    /\ IF cancelled[r] THEN UNCHANGED faults ELSE Fault
    /\ stmt' = [stmt EXCEPT ![r] = NoStmt]
    /\ \/ UNCHANGED lease
       \/ CanClaim(r) /\ lease' = Claimed(r)
    /\ renewing' = [renewing EXCEPT ![r] = FALSE]
    /\ cancelled' = [cancelled EXCEPT ![r] = TRUE]
    /\ UNCHANGED <<main, up, age>>

StopRenew(r) ==
    /\ renewing[r] /\ cancelled[r] /\ stmt[r] = NoStmt
    /\ renewing' = [renewing EXCEPT ![r] = FALSE]
    /\ UNCHANGED <<lease, main, stmt, cancelled, up, age, faults>>

-----------------------------------------------------------------------------
(* The main goroutine after the lease is won.                              *)

\* fn returns because its context was cancelled, or on its own or by a panic
\* that is recovered.
FnReturns(r) ==
    /\ main[r] = "running"
    /\ IF cancelled[r] THEN UNCHANGED faults ELSE Fault
    /\ main' = [main EXCEPT ![r] = "releasing"]
    /\ UNCHANGED <<lease, stmt, renewing, cancelled, up, age>>

\* The deferred Release, and a mutant that deletes whoever holds the lease.
Freed_AnyHolder(r) == [holder |-> Gone, left |-> Floor]

Freed(r) == IF lease.holder = r THEN [holder |-> Gone, left |-> Floor]
            ELSE lease

\* DELETE ... WHERE holder = us; on a database error the row stays.
Release(r) ==
    /\ main[r] = "releasing"
    /\ main' = [main EXCEPT ![r] = "released"]
    /\ \/ lease' = Freed(r) /\ UNCHANGED faults
       \/ Fault /\ UNCHANGED lease
    /\ UNCHANGED <<stmt, renewing, cancelled, up, age>>

\* The deferred cancelRenew runs after Release; RunAsLeader returns for good.
CancelRenew(r) ==
    /\ main[r] = "released"
    /\ main' = [main EXCEPT ![r] = "done"]
    /\ cancelled' = [cancelled EXCEPT ![r] = TRUE]
    /\ UNCHANGED <<lease, stmt, renewing, up, age, faults>>

-----------------------------------------------------------------------------
(* The process and the clock.                                              *)

\* SIGTERM: the process context is cancelled, and renewCtx with it.
Shutdown(r) ==
    /\ Fault
    /\ up[r]
    /\ up' = [up EXCEPT ![r] = FALSE]
    /\ cancelled' = [cancelled EXCEPT ![r] = TRUE]
    /\ UNCHANGED <<lease, main, stmt, renewing, age>>

\* The process dies and is started again, with a new pid in its holder name or
\* (a container restarted in place) with the old one.
Crash(r) ==
    /\ Fault
    /\ main' = [main EXCEPT ![r] = "trying"]
    /\ stmt' = [stmt EXCEPT ![r] = NoStmt]
    /\ renewing' = [renewing EXCEPT ![r] = FALSE]
    /\ cancelled' = [cancelled EXCEPT ![r] = FALSE]
    /\ up' = [up EXCEPT ![r] = TRUE]
    /\ age' = [age EXCEPT ![r] = AgeCap]
    /\ \/ UNCHANGED lease
       \/ lease.holder = r /\ lease' = [lease EXCEPT !.holder = Gone]

\* A unit of time, longer than the pause of the acquire loop.
Tick ==
    /\ \A r \in Replicas : stmt[r] < MaxDelay
    /\ lease' = [lease EXCEPT !.left = IF @ > Floor THEN @ - 1 ELSE @]
    /\ stmt' = [r \in Replicas |->
                  IF stmt[r] = NoStmt THEN NoStmt ELSE stmt[r] + 1]
    /\ age' = [r \in Replicas |->
                 IF age[r] < AgeCap THEN age[r] + 1 ELSE age[r]]
    /\ main' = [r \in Replicas |->
                  IF main[r] = "pausing" /\ up[r] THEN "trying" ELSE main[r]]
    /\ UNCHANGED <<renewing, cancelled, up, faults>>

-----------------------------------------------------------------------------
\* The two goroutines of a replica, and what may befall it.
MainLoop(r) ==
    StartAcquire(r) \/ ExecAcquire(r) \/ Quit(r) \/ Release(r) \/ CancelRenew(r)

RenewLoop(r) == StartRenew(r) \/ ExecRenew(r) \/ StopRenew(r)

Trouble(r) == AcquireError(r) \/ RenewError(r) \/ Shutdown(r) \/ Crash(r)

LeaseNext ==
    \/ Tick
    \/ \E r \in Replicas :
         MainLoop(r) \/ RenewLoop(r) \/ Trouble(r) \/ FnReturns(r)

Spec == Init /\ [][LeaseNext]_leaseVars

\* Goroutines are scheduled, statements finish, fn honours its context and
\* time passes (strongly: Tick waits for a statement that reached MaxDelay).
LeaseFairness ==
    /\ SF_leaseVars(Tick)
    /\ \A r \in Replicas :
         /\ WF_leaseVars(MainLoop(r)) /\ WF_leaseVars(RenewLoop(r))
         /\ WF_leaseVars(cancelled[r] /\ FnReturns(r))

FairSpec == Spec /\ LeaseFairness

-----------------------------------------------------------------------------
(* Properties.                                                             *)

\* The lease row, the goroutines and the timers keep their ranges.
LeaseTypeOK ==
    /\ lease \in [holder : Replicas \cup {Gone}, left : Floor..(TTL + MaxSkew)]
    /\ main \in [Replicas ->
                   {"trying", "pausing", "running", "releasing", "released",
                    "done"}]
    /\ stmt \in [Replicas -> NoStmt..MaxDelay]
    /\ renewing \in [Replicas -> BOOLEAN]
    /\ cancelled \in [Replicas -> BOOLEAN]
    /\ up \in [Replicas -> BOOLEAN]
    /\ age \in [Replicas -> Nat]
    /\ faults \in 0..MaxFaults

\* tryAcquire's promise: while a running replica's last claim is younger than
\* the TTL (less the clock error) nobody else has taken its lease, although
\* claims carry old clock readings and others release, crash and retry.
FreshHolderKeepsLease ==
    \A r \in Replicas :
        main[r] = "running" /\ age[r] <= TTL - 2 * MaxSkew => lease.holder = r

Waiting(r) == main[r] \in {"trying", "pausing"}

\* A lease nobody works under, after a crash, a failed release or a renewal
\* that landed after the release, does not keep the waiting replicas out.
WaiterTakesOver ==
    (\E r \in Replicas : Waiting(r))
        ~> ((\E r \in Replicas : main[r] = "running")
             \/ \A r \in Replicas : ~Waiting(r))

=============================================================================
