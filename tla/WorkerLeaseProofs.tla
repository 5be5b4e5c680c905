------------------------- MODULE WorkerLeaseProofs -------------------------
(***************************************************************************)
(* Proofs about WorkerLease for every fleet, TTL, clock error and statement*)
(* delay.                                                                  *)
(***************************************************************************)
EXTENDS WorkerLease, TLAPS

Fresh(r) == main[r] = "running" /\ age[r] <= TTL - 2 * MaxSkew

\* The row of a fresh runner carries its name and at least the time its last
\* claim bought.
FreshRow ==
    \A r \in Replicas :
        Fresh(r) => /\ lease.holder = r
                    /\ lease.left >= TTL + Skew[r] - age[r]

\* A renewal under way read the clock after the last successful claim did.
RenewalYounger ==
    \A r \in Replicas :
        renewing[r] /\ stmt[r] # NoStmt /\ age[r] <= TTL => stmt[r] <= age[r]

Inv == LeaseTypeOK /\ FreshRow /\ RenewalYounger

\* What LeaseAssumption says, with the clock errors one by one.
LEMMA Constants ==
    /\ MaxSkew \in Nat /\ MaxDelay \in Nat /\ MaxFaults \in Nat
    /\ TTL \in Nat /\ TTL > 2 * MaxSkew
    /\ \A r \in Replicas : /\ Skew[r] \in Int
                           /\ -MaxSkew <= Skew[r] /\ Skew[r] <= MaxSkew
    /\ Gone \notin Replicas
    /\ RenewEvery \in Nat \ {0}
  BY LeaseAssumption

\* The invariant holds when the fleet starts.
LEMMA InvInit == Init => Inv
  BY Constants
  DEF Init, Inv, LeaseTypeOK, FreshRow, RenewalYounger, Fresh,
      Floor, NoStmt, AgeCap

\* A claim that wins writes a row of the right shape.
LEMMA ClaimType ==
    ASSUME LeaseTypeOK, NEW r \in Replicas, stmt[r] # NoStmt
    PROVE  /\ Claimed(r) \in [holder : Replicas \cup {Gone},
                              left : Floor..(TTL + MaxSkew)]
           /\ Claimed(r).holder = r
           /\ Claimed(r).left = TTL + Skew[r] - stmt[r]
           /\ stmt[r] \in Nat /\ stmt[r] <= MaxDelay
<1>1. stmt[r] \in Nat /\ stmt[r] <= MaxDelay
  BY Constants DEF LeaseTypeOK, NoStmt
<1>2. TTL + Skew[r] - stmt[r] \in Floor..(TTL + MaxSkew)
  BY <1>1, Constants DEF Floor
<1> QED
  BY <1>1, <1>2 DEF Claimed

\* No claim of another replica wins against a fresh runner.
LEMMA FreshIsSafe ==
    ASSUME Inv, NEW r \in Replicas, NEW q \in Replicas, q # r, Fresh(q),
           stmt[r] # NoStmt
    PROVE  ~CanClaim(r)
<1>1. /\ lease.holder = q
      /\ lease.left >= TTL + Skew[q] - age[q]
      /\ age[q] <= TTL - 2 * MaxSkew
  BY DEF Inv, FreshRow, Fresh
<1>2. /\ stmt[r] \in Nat /\ lease.left \in Int /\ age[q] \in Nat
  BY ClaimType DEF Inv, LeaseTypeOK
<1>3. /\ Skew[r] \in Int /\ Skew[q] \in Int /\ MaxSkew \in Nat /\ TTL \in Nat
      /\ Skew[r] <= MaxSkew /\ -MaxSkew <= Skew[q]
  BY Constants
<1>4. lease.left >= MaxSkew
  BY <1>1, <1>2, <1>3
<1>5. ~(lease.left < Skew[r] - stmt[r])
  BY <1>2, <1>3, <1>4
<1> QED
  BY <1>1, <1>5 DEF CanClaim

\* Type correctness is inductive.
LEMMA TypeStep ==
    ASSUME LeaseTypeOK, LeaseNext
    PROVE  LeaseTypeOK'
<1> USE DEF LeaseTypeOK
<1>1. CASE Tick
  BY <1>1, Constants DEF Tick, Floor, NoStmt, AgeCap
<1>2. ASSUME NEW r \in Replicas, MainLoop(r) PROVE LeaseTypeOK'
  <2>1. CASE StartAcquire(r)
    BY <2>1, Constants DEF StartAcquire, NoStmt
  <2>2. CASE ExecAcquire(r)
    <3>1. stmt[r] \in Nat /\ stmt' = [stmt EXCEPT ![r] = NoStmt]
      BY <2>2, ClaimType DEF ExecAcquire
    <3>2. CASE CanClaim(r)
      <4>1. lease' \in [holder : Replicas \cup {Gone},
                        left : Floor..(TTL + MaxSkew)]
        <5>1. lease' = Claimed(r) /\ stmt[r] # NoStmt
          BY <2>2, <3>2 DEF ExecAcquire
        <5> QED
          BY <5>1, ClaimType
      <4>2. age' \in [Replicas -> Nat]
        BY <2>2, <3>1, <3>2 DEF ExecAcquire
      <4>3. stmt' \in [Replicas -> NoStmt..MaxDelay]
        BY <3>1, Constants DEF NoStmt
      <4> QED
        BY <2>2, <3>2, <4>1, <4>2, <4>3 DEF ExecAcquire
    <3>3. CASE ~CanClaim(r)
      BY <2>2, <3>1, <3>3, Constants DEF ExecAcquire, NoStmt
    <3> QED
      BY <3>2, <3>3
  <2>3. CASE Quit(r)
    BY <2>3 DEF Quit
  <2>4. CASE Release(r)
    BY <2>4, Constants DEF Release, Freed, Fault, Floor
  <2>5. CASE CancelRenew(r)
    BY <2>5 DEF CancelRenew
  <2> QED
    BY <1>2, <2>1, <2>2, <2>3, <2>4, <2>5 DEF MainLoop
<1>3. ASSUME NEW r \in Replicas, RenewLoop(r) PROVE LeaseTypeOK'
  <2>1. CASE StartRenew(r)
    BY <2>1, Constants DEF StartRenew, NoStmt
  <2>2. CASE ExecRenew(r)
    <3>1. stmt[r] \in Nat /\ stmt' = [stmt EXCEPT ![r] = NoStmt]
      BY <2>2, ClaimType DEF ExecRenew
    <3>2. CASE CanClaim(r)
      <4>1. lease' \in [holder : Replicas \cup {Gone},
                        left : Floor..(TTL + MaxSkew)]
        <5>1. lease' = Claimed(r) /\ stmt[r] # NoStmt
          BY <2>2, <3>2 DEF ExecRenew
        <5> QED
          BY <5>1, ClaimType
      <4>2. age' \in [Replicas -> Nat]
        BY <2>2, <3>1, <3>2 DEF ExecRenew
      <4>3. stmt' \in [Replicas -> NoStmt..MaxDelay]
        BY <3>1, Constants DEF NoStmt
      <4> QED
        BY <2>2, <3>2, <4>1, <4>2, <4>3 DEF ExecRenew
    <3>3. CASE ~CanClaim(r)
      <4>1. stmt' \in [Replicas -> NoStmt..MaxDelay]
        BY <3>1, Constants DEF NoStmt
      <4>2. renewing' \in [Replicas -> BOOLEAN]
        BY <2>2, <3>3 DEF ExecRenew
      <4>3. cancelled' \in [Replicas -> BOOLEAN]
        BY <2>2, <3>3 DEF ExecRenew
      <4>4. UNCHANGED <<lease, main, up, age, faults>>
        BY <2>2, <3>3 DEF ExecRenew
      <4> QED
        BY <4>1, <4>2, <4>3, <4>4
    <3> QED
      BY <3>2, <3>3
  <2>3. CASE StopRenew(r)
    BY <2>3 DEF StopRenew
  <2> QED
    BY <1>3, <2>1, <2>2, <2>3 DEF RenewLoop
<1>4. ASSUME NEW r \in Replicas, Trouble(r) PROVE LeaseTypeOK'
  <2>1. CASE AcquireError(r)
    BY <2>1, ClaimType, Constants DEF AcquireError, Fault, NoStmt
  <2>2. CASE RenewError(r)
    BY <2>2, ClaimType, Constants DEF RenewError, Fault, NoStmt
  <2>3. CASE Shutdown(r)
    BY <2>3, Constants DEF Shutdown, Fault
  <2>4. CASE Crash(r)
    BY <2>4, Constants DEF Crash, Fault, NoStmt, AgeCap
  <2> QED
    BY <1>4, <2>1, <2>2, <2>3, <2>4 DEF Trouble
<1>5. ASSUME NEW r \in Replicas, FnReturns(r) PROVE LeaseTypeOK'
  BY <1>5, Constants DEF FnReturns, Fault
<1> QED
  BY <1>1, <1>2, <1>3, <1>4, <1>5 DEF LeaseNext

-----------------------------------------------------------------------------
\* A claim under way is younger than the last successful one, also after the
\* clock moved.
LEMMA YoungerStep ==
    ASSUME Inv, LeaseNext
    PROVE  RenewalYounger'
<1> USE DEF Inv, LeaseTypeOK, RenewalYounger
<1>1. CASE Tick
  BY <1>1, Constants DEF Tick, NoStmt, AgeCap
<1>2. ASSUME NEW r \in Replicas, MainLoop(r) PROVE RenewalYounger'
  <2>1. CASE StartAcquire(r)
    BY <2>1 DEF StartAcquire
  <2>2. CASE ExecAcquire(r)
    BY <2>2 DEF ExecAcquire
  <2>3. CASE Quit(r) \/ Release(r) \/ CancelRenew(r)
    BY <2>3 DEF Quit, Release, CancelRenew
  <2> QED
    BY <1>2, <2>1, <2>2, <2>3 DEF MainLoop
<1>3. ASSUME NEW r \in Replicas, RenewLoop(r) PROVE RenewalYounger'
  <2>1. CASE StartRenew(r)
    BY <2>1 DEF StartRenew
  <2>2. CASE ExecRenew(r)
    BY <2>2 DEF ExecRenew
  <2>3. CASE StopRenew(r)
    BY <2>3 DEF StopRenew
  <2> QED
    BY <1>3, <2>1, <2>2, <2>3 DEF RenewLoop
<1>4. ASSUME NEW r \in Replicas, Trouble(r) PROVE RenewalYounger'
  BY <1>4 DEF Trouble, AcquireError, RenewError, Shutdown, Crash
<1>5. ASSUME NEW r \in Replicas, FnReturns(r) PROVE RenewalYounger'
  BY <1>5 DEF FnReturns
<1> QED
  BY <1>1, <1>2, <1>3, <1>4, <1>5 DEF LeaseNext

\* What the row must say of one runner, for the proofs that treat the acting
\* replica and the others apart.
RowOf(r) ==
    Fresh(r) => lease.holder = r /\ lease.left >= TTL + Skew[r] - age[r]

\* Time takes as much from the lease as it adds to the age of the claim.
LEMMA RowTick ==
    ASSUME Inv, Tick, NEW q \in Replicas
    PROVE  RowOf(q)'
<1> SUFFICES ASSUME Fresh(q)'
             PROVE  lease'.holder = q /\ lease'.left >= TTL + Skew[q] - age'[q]
  BY DEF RowOf
<1> USE DEF Inv, LeaseTypeOK
<1>1. main[q] = "running" /\ age'[q] = age[q] + 1
  BY Constants DEF Tick, Fresh, AgeCap
<1>2. /\ lease.holder = q /\ lease.left >= TTL + Skew[q] - age[q]
      /\ age[q] <= TTL - 2 * MaxSkew
  BY <1>1, Constants DEF FreshRow, Fresh
<1>3. lease.left > Floor /\ lease.left \in Int
  BY <1>2, Constants DEF Floor
<1>4. lease'.holder = lease.holder /\ lease'.left = lease.left - 1
  BY <1>3 DEF Tick
<1> QED
  BY <1>1, <1>2, <1>3, <1>4, Constants

\* A claim of r, won or lost, answered or not, leaves the row of a fresh q
\* alone: it cannot win.
LEMMA RowOther ==
    ASSUME Inv, NEW r \in Replicas, NEW q \in Replicas, q # r,
           stmt[r] # NoStmt, RowOf(q),
           main'[q] = main[q], age'[q] = age[q],
           lease' = lease \/ (CanClaim(r) /\ lease' = Claimed(r))
    PROVE  RowOf(q)'
<1> SUFFICES ASSUME Fresh(q)' PROVE RowOf(q)'
  BY DEF RowOf
<1>1. Fresh(q)
  BY DEF Fresh
<1>2. lease' = lease
  BY <1>1, FreshIsSafe
<1> QED
  BY <1>1, <1>2 DEF RowOf

\* The invariant about fresh runners is kept by every step.
LEMMA RowStep ==
    ASSUME Inv, LeaseNext, NEW q \in Replicas
    PROVE  RowOf(q)'
<1>0. RowOf(q)
  BY DEF Inv, FreshRow, RowOf
<1>1. CASE Tick
  BY <1>1, RowTick
<1>2. ASSUME NEW r \in Replicas, MainLoop(r) PROVE RowOf(q)'
  <2>1. CASE StartAcquire(r) \/ Quit(r) \/ CancelRenew(r)
    BY <2>1, <1>0 DEF StartAcquire, Quit, CancelRenew, RowOf, Fresh, Inv, LeaseTypeOK
  <2>2. CASE ExecAcquire(r)
    <3>1. CASE q # r
      <4>1. stmt[r] # NoStmt /\ main'[q] = main[q] /\ age'[q] = age[q]
        BY <2>2, <3>1 DEF ExecAcquire, Inv, LeaseTypeOK
      <4>2. lease' = lease \/ (CanClaim(r) /\ lease' = Claimed(r))
        BY <2>2 DEF ExecAcquire
      <4> QED
        BY <1>0, <3>1, <4>1, <4>2, RowOther
    <3>2. CASE q = r /\ CanClaim(r)
      <4>1. lease' = Claimed(r) /\ age'[r] = stmt[r] /\ stmt[r] # NoStmt
        BY <2>2, <3>2 DEF ExecAcquire, Inv, LeaseTypeOK
      <4>2. lease'.holder = r /\ lease'.left = TTL + Skew[r] - age'[r]
        BY <4>1, ClaimType DEF Inv
      <4>3. TTL + Skew[r] - age'[r] \in Int
        BY <4>1, ClaimType, Constants DEF Inv
      <4> QED
        BY <3>2, <4>2, <4>3 DEF RowOf
    <3>3. CASE q = r /\ ~CanClaim(r)
      BY <2>2, <3>3 DEF ExecAcquire, RowOf, Fresh, Inv, LeaseTypeOK
    <3> QED
      BY <3>1, <3>2, <3>3
  <2>3. CASE Release(r)
    BY <2>3, <1>0 DEF Release, Freed, RowOf, Fresh, Inv, LeaseTypeOK
  <2> QED
    BY <1>2, <2>1, <2>2, <2>3 DEF MainLoop
<1>3. ASSUME NEW r \in Replicas, RenewLoop(r) PROVE RowOf(q)'
  <2>1. CASE StartRenew(r) \/ StopRenew(r)
    BY <2>1, <1>0 DEF StartRenew, StopRenew, RowOf, Fresh
  <2>2. CASE ExecRenew(r)
    <3>1. CASE q # r
      <4>1. stmt[r] # NoStmt /\ main'[q] = main[q] /\ age'[q] = age[q]
        BY <2>2, <3>1 DEF ExecRenew, Inv, LeaseTypeOK
      <4>2. lease' = lease \/ (CanClaim(r) /\ lease' = Claimed(r))
        BY <2>2 DEF ExecRenew
      <4> QED
        BY <1>0, <3>1, <4>1, <4>2, RowOther
    <3>2. CASE q = r /\ CanClaim(r)
      <4>1. lease' = Claimed(r) /\ age'[r] = stmt[r] /\ stmt[r] # NoStmt
        BY <2>2, <3>2 DEF ExecRenew, Inv, LeaseTypeOK
      <4>2. lease'.holder = r /\ lease'.left = TTL + Skew[r] - age'[r]
        BY <4>1, ClaimType DEF Inv
      <4>3. TTL + Skew[r] - age'[r] \in Int
        BY <4>1, ClaimType, Constants DEF Inv
      <4> QED
        BY <3>2, <4>2, <4>3 DEF RowOf
    <3>3. CASE q = r /\ ~CanClaim(r)
      BY <2>2, <3>3, <1>0 DEF ExecRenew, RowOf, Fresh
    <3> QED
      BY <3>1, <3>2, <3>3
  <2> QED
    BY <1>3, <2>1, <2>2 DEF RenewLoop
<1>4. ASSUME NEW r \in Replicas, Trouble(r) PROVE RowOf(q)'
  <2>1. CASE AcquireError(r) \/ RenewError(r)
    <3>1. stmt[r] # NoStmt /\ age' = age
      BY <2>1 DEF AcquireError, RenewError
    <3>2. lease' = lease \/ (CanClaim(r) /\ lease' = Claimed(r))
      BY <2>1 DEF AcquireError, RenewError
    <3>3. CASE q # r
      <4>1. main'[q] = main[q]
        BY <2>1, <3>3 DEF AcquireError, RenewError, Inv, LeaseTypeOK
      <4> QED
        BY <1>0, <3>1, <3>2, <3>3, <4>1, RowOther
    <3>4. CASE q = r /\ AcquireError(r)
      BY <3>4 DEF AcquireError, RowOf, Fresh, Inv, LeaseTypeOK
    <3>5. CASE q = r /\ RenewError(r) /\ lease' = lease
      BY <1>0, <3>5 DEF RenewError, RowOf, Fresh
    <3>6. CASE q = r /\ RenewError(r) /\ lease' = Claimed(r)
      <4>1. lease'.holder = r /\ lease'.left = TTL + Skew[r] - stmt[r]
        BY <3>1, <3>6, ClaimType DEF Inv
      <4>2. age[r] <= TTL => stmt[r] <= age[r]
        BY <3>1, <3>6 DEF RenewError, Inv, RenewalYounger
      <4>3. stmt[r] \in Nat /\ age[r] \in Nat
        BY <3>1, ClaimType DEF Inv, LeaseTypeOK
      <4> QED
        BY <3>1, <3>6, <4>1, <4>2, <4>3, Constants DEF RowOf, Fresh
    <3> QED
      BY <2>1, <3>2, <3>3, <3>4, <3>5, <3>6
  <2>2. CASE Shutdown(r)
    BY <2>2, <1>0 DEF Shutdown, RowOf, Fresh
  <2>3. CASE Crash(r)
    BY <2>3, <1>0 DEF Crash, RowOf, Fresh, Inv, LeaseTypeOK
  <2> QED
    BY <1>4, <2>1, <2>2, <2>3 DEF Trouble
<1>5. ASSUME NEW r \in Replicas, FnReturns(r) PROVE RowOf(q)'
  BY <1>5, <1>0 DEF FnReturns, RowOf, Fresh, Inv, LeaseTypeOK
<1> QED
  BY <1>1, <1>2, <1>3, <1>4, <1>5 DEF LeaseNext

\* The invariant holds throughout.
LEMMA InvAlways == Spec => []Inv
<1>1. Inv /\ [LeaseNext]_leaseVars => Inv'
  <2> SUFFICES ASSUME Inv, [LeaseNext]_leaseVars PROVE Inv'
    OBVIOUS
  <2>1. CASE LeaseNext
    <3>1. FreshRow'
      BY <2>1, RowStep DEF FreshRow, RowOf
    <3> QED
      BY <2>1, <3>1, TypeStep, YoungerStep DEF Inv
  <2>2. CASE UNCHANGED leaseVars
    BY <2>2 DEF leaseVars, Inv, LeaseTypeOK, FreshRow, Fresh, RenewalYounger
  <2> QED
    BY <2>1, <2>2
<1> QED
  BY <1>1, InvInit, PTL DEF Spec

\* The row, the goroutines and the timers of the leader package keep their
\* ranges in every fleet.
THEOREM LeaseTypeCorrect == Spec => []LeaseTypeOK
  BY InvAlways, PTL DEF Inv

\* Nobody takes the lease of a runner whose last claim (tryAcquire) is younger
\* than the TTL less twice the clock error, whatever the delays, errors,
\* crashes and releases of the others.
THEOREM FreshHolderIsSafe == Spec => []FreshHolderKeepsLease
<1>1. Inv => FreshHolderKeepsLease
  BY DEF Inv, FreshRow, Fresh, FreshHolderKeepsLease
<1> QED
  BY <1>1, InvAlways, PTL

=============================================================================
