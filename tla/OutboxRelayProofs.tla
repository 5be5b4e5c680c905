------------------------- MODULE OutboxRelayProofs -------------------------
(***************************************************************************)
(* Proofs about OutboxRelay for every fleet, number of events, number of   *)
(* handlers and lease timing.                                              *)
(***************************************************************************)
EXTENDS OutboxRelay, WorkerLeaseProofs, TLAPS

RelayRow == [pc : {"off", "query", "loop", "publish", "wait"},
             todo : SUBSET Events, ev : Events \cup {NoEv},
             h : 1..(NumHandlers + 1), failed : BOOLEAN]

\* A loop works on committed events only, and a fan-out without an error so
\* far has reached every handler it passed.
LoopOK(j, rows, done) ==
    /\ j \in RelayRow
    /\ j.todo \subseteq rows
    /\ j.pc = "publish" =>
         /\ j.ev \in rows
         /\ ~j.failed => \A h \in Handlers : h < j.h => <<j.ev, h>> \in done

RelayInv ==
    /\ RelayTypeOK
    /\ PublishedWasHandled
    /\ \A r \in Replicas : LoopOK(relay[r], stored, handled)

\* A loop that is not publishing is a row of the right shape.
LEMMA LoopType ==
    ASSUME NEW pc \in {"off", "query", "loop", "publish", "wait"},
           NEW todo \in SUBSET Events
    PROVE  /\ Loop(pc, todo) \in RelayRow
           /\ Loop(pc, todo).pc = pc /\ Loop(pc, todo).todo = todo
           /\ Off \in RelayRow /\ Off.pc = "off" /\ Off.todo = {}
           /\ Loop(pc, todo).h = 1 /\ ~Loop(pc, todo).failed
  BY RelayAssumption DEF Loop, Off, RelayRow

\* The invariant holds when the process starts.
LEMMA RelayInvInit == RelayInit => RelayInv
<1> SUFFICES ASSUME RelayInit PROVE RelayInv
  OBVIOUS
<1>1. Off \in RelayRow /\ Off.pc = "off" /\ Off.todo = {}
  BY RelayAssumption DEF Off, Loop, RelayRow
<1>2. RelayTypeOK
  BY <1>1, RelayAssumption DEF RelayInit, RelayTypeOK, RelayRow, Handlers
<1> QED
  BY <1>1, <1>2 DEF RelayInit, RelayInv, LoopOK, PublishedWasHandled

\* markFailed keeps the bookkeeping of attempts in range.
LEMMA MarkFailedType ==
    ASSUME RelayTypeOK, NEW r \in Replicas, NEW e \in Events, MarkFailed(r, e)
    PROVE  /\ attempts' \in [Replicas -> [Events -> 0..(MaxAttempts - 1)]]
           /\ backoff' \in [Replicas -> SUBSET Events]
<1>0. attempts[r] \in [Events -> 0..(MaxAttempts - 1)]
  BY DEF RelayTypeOK
<1>1. CASE LastAttempt(r, e)
  <2>1. attempts' = [attempts EXCEPT ![r][e] = 0] /\ 0 \in 0..(MaxAttempts - 1)
    BY <1>1, RelayAssumption DEF MarkFailed
  <2>2. attempts' \in [Replicas -> [Events -> 0..(MaxAttempts - 1)]]
    BY <1>0, <2>1 DEF RelayTypeOK
  <2> QED
    BY <1>1, <2>2 DEF MarkFailed, RelayTypeOK
<1>2. CASE ~LastAttempt(r, e)
  <2>1. attempts[r][e] + 1 \in 0..(MaxAttempts - 1)
    BY <1>0, <1>2, RelayAssumption DEF LastAttempt
  <2>2. attempts' = [attempts EXCEPT ![r][e] = attempts[r][e] + 1]
    BY <1>2 DEF MarkFailed
  <2>3. attempts' \in [Replicas -> [Events -> 0..(MaxAttempts - 1)]]
    BY <1>0, <2>1, <2>2 DEF RelayTypeOK
  <2> QED
    BY <1>2, <2>3 DEF MarkFailed, RelayTypeOK
<1> QED
  BY <1>1, <1>2

-----------------------------------------------------------------------------
\* A loop that is not publishing and works on committed events is fine.
LEMMA LoopIsOK ==
    ASSUME stored \subseteq Events,
           NEW pc \in {"off", "query", "loop", "wait"},
           NEW todo \in SUBSET stored
    PROVE  \A done : /\ LoopOK(Loop(pc, todo), stored, done)
                    /\ LoopOK(Off, stored, done)
<1>1. todo \in SUBSET Events
  OBVIOUS
<1> QED
  BY <1>1, LoopType DEF LoopOK

\* Only the loop of r moves, and only published and handled may grow.
LEMMA LoopStep ==
    ASSUME RelayInv, NEW r \in Replicas, NEW j,
           relay' = [relay EXCEPT ![r] = j],
           LoopOK(j, stored', handled'), stored' = stored, handled \subseteq handled'
    PROVE  /\ relay' \in [Replicas -> RelayRow]
           /\ \A q \in Replicas : LoopOK(relay'[q], stored', handled')
<1>1. /\ relay \in [Replicas -> RelayRow]
      /\ \A q \in Replicas : LoopOK(relay[q], stored, handled)
  BY DEF RelayInv, RelayTypeOK, RelayRow
<1>2. relay' \in [Replicas -> RelayRow]
  BY <1>1 DEF LoopOK
<1>3. ASSUME NEW q \in Replicas PROVE LoopOK(relay'[q], stored', handled')
  <2>1. CASE q = r
    BY <1>1, <2>1
  <2>2. CASE q # r
    BY <1>1, <2>2 DEF LoopOK
  <2> QED
    BY <2>1, <2>2
<1> QED
  BY <1>2, <1>3

\* A commit with a new event.
LEMMA SaveStep ==
    ASSUME RelayInv, NEW e \in Events, SaveEvents(e)
    PROVE  RelayInv'
<1>1. /\ stored' = stored \cup {e}
      /\ UNCHANGED <<published, handled, relay, attempts, backoff, fails>>
  BY DEF SaveEvents
<1>2. RelayTypeOK' /\ PublishedWasHandled'
  BY <1>1 DEF RelayInv, RelayTypeOK, PublishedWasHandled
<1>3. \A r \in Replicas : LoopOK(relay'[r], stored', handled')
  BY <1>1 DEF RelayInv, LoopOK
<1> QED
  BY <1>2, <1>3 DEF RelayInv

\* A step of the lease starts and stops loops and touches no table.
LEMMA LeaseStep ==
    ASSUME RelayInv,
           relay' = [r \in Replicas |->
                       IF main'[r] # "running" THEN Off
                       ELSE IF main[r] = "running" THEN relay[r]
                       ELSE Loop("query", {})],
           attempts' = [r \in Replicas |->
                          IF main'[r] = "trying" THEN [e \in Events |-> 0]
                          ELSE attempts[r]],
           backoff' = [r \in Replicas |->
                         IF main'[r] = "trying" THEN {} ELSE backoff[r]],
           UNCHANGED <<stored, published, handled, fails>>
    PROVE  RelayInv'
<1>1. \A r \in Replicas : LoopOK(relay'[r], stored', handled')
  <2> TAKE r \in Replicas
  <2>1. /\ LoopOK(Off, stored, handled) /\ LoopOK(Loop("query", {}), stored, handled)
        /\ LoopOK(relay[r], stored, handled)
    BY LoopIsOK DEF RelayInv, RelayTypeOK
  <2> QED
    BY <2>1
<1>2. relay' \in [Replicas -> RelayRow]
  BY <1>1 DEF LoopOK
<1>3. attempts' \in [Replicas -> [Events -> 0..(MaxAttempts - 1)]]
  BY RelayAssumption DEF RelayInv, RelayTypeOK
<1>4. backoff' \in [Replicas -> SUBSET Events]
  BY DEF RelayInv, RelayTypeOK
<1>5. RelayTypeOK'
  BY <1>2, <1>3, <1>4 DEF RelayInv, RelayTypeOK, RelayRow
<1> QED
  BY <1>1, <1>5 DEF RelayInv, PublishedWasHandled

\* Every step of a relay loop keeps the invariant.
LEMMA RelayingStep ==
    ASSUME RelayInv, NEW r \in Replicas, Relaying(r) \/ NextRound(r)
    PROVE  RelayInv'
<1> DEFINE j == relay[r]
<1>0. /\ LoopOK(j, stored, handled) /\ stored \subseteq Events
      /\ published \subseteq stored
      /\ j.todo \in SUBSET stored /\ j \in RelayRow
  BY DEF RelayInv, RelayTypeOK, LoopOK
<1> HIDE DEF j
<1>1. CASE Query(r)
  <2>1. PICK n : /\ relay' = [relay EXCEPT ![r] = n]
                 /\ n \in {Loop("loop", stored \ published), Loop("wait", {})}
    BY <1>1 DEF Query
  <2>2. LoopOK(n, stored, handled)
    BY <1>0, <2>1, LoopIsOK
  <2>3. /\ UNCHANGED <<stored, published, handled, attempts, backoff>>
        /\ fails' \in 0..MaxFails
    BY <1>1, RelayAssumption DEF Query, Fails, RelayInv, RelayTypeOK
  <2>4. /\ relay' \in [Replicas -> RelayRow]
        /\ \A q \in Replicas : LoopOK(relay'[q], stored', handled')
    BY <2>1, <2>2, <2>3, LoopStep
  <2> QED
    BY <2>3, <2>4 DEF RelayInv, RelayTypeOK, RelayRow, PublishedWasHandled
<1>2. CASE PickEvent(r)
  <2>1. PICK n : /\ relay' = [relay EXCEPT ![r] = n]
                 /\ \/ n = Loop("wait", {})
                    \/ \E e \in j.todo :
                         \/ n = Loop("loop", j.todo \ {e})
                         \/ n = [Loop("publish", j.todo \ {e}) EXCEPT !.ev = e]
    BY <1>2 DEF PickEvent, j
  <2>2. LoopOK(n, stored, handled)
    <3>1. CASE n = Loop("wait", {})
      BY <1>0, <3>1, LoopIsOK
    <3>2. ASSUME NEW e \in j.todo, n = Loop("loop", j.todo \ {e})
          PROVE  LoopOK(n, stored, handled)
      BY <1>0, <3>2, LoopIsOK
    <3>3. ASSUME NEW e \in j.todo,
                 n = [Loop("publish", j.todo \ {e}) EXCEPT !.ev = e]
          PROVE  LoopOK(n, stored, handled)
      <4>1. n = [pc |-> "publish", todo |-> j.todo \ {e}, ev |-> e, h |-> 1,
                 failed |-> FALSE]
        BY <3>3 DEF Loop
      <4>2. e \in Events /\ j.todo \ {e} \in SUBSET Events
        BY <1>0
      <4>3. n \in RelayRow
        BY <4>1, <4>2, RelayAssumption DEF RelayRow
      <4> QED
        BY <1>0, <4>1, <4>3 DEF LoopOK, Handlers
    <3> QED
      BY <2>1, <3>1, <3>2, <3>3
  <2>3. UNCHANGED <<stored, published, handled, attempts, backoff, fails>>
    BY <1>2 DEF PickEvent
  <2>4. /\ relay' \in [Replicas -> RelayRow]
        /\ \A q \in Replicas : LoopOK(relay'[q], stored', handled')
    BY <2>1, <2>2, <2>3, LoopStep
  <2> QED
    BY <2>3, <2>4 DEF RelayInv, RelayTypeOK, RelayRow, PublishedWasHandled
<1>3. CASE CallHandler(r)
  <2>0. j.pc = "publish" /\ j.h \in Handlers /\ j.ev \in stored
    BY <1>0, <1>3 DEF CallHandler, Running, LoopOK, j
  <2>1. PICK n : /\ relay' = [relay EXCEPT ![r] = n]
                 /\ \/ /\ n = [j EXCEPT !.h = NumHandlers + 1, !.failed = TRUE]
                       /\ handled' = handled
                    \/ /\ n = AfterHandler(j, TRUE)
                       /\ handled' = handled \cup {<<j.ev, j.h>>}
                    \/ n = AfterHandler(j, FALSE) /\ handled' = handled
    BY <1>3 DEF CallHandler, j
  <2>2. LoopOK(n, stored, handled')
    <3>1. j.h + 1 \in 1..(NumHandlers + 1) /\ NumHandlers + 1 \in 1..(NumHandlers + 1)
      BY <2>0, RelayAssumption DEF Handlers
    <3>2. CASE n = [j EXCEPT !.h = NumHandlers + 1, !.failed = TRUE]
      BY <1>0, <3>1, <3>2 DEF LoopOK, RelayRow
    <3>3. CASE n = AfterHandler(j, FALSE)
      BY <1>0, <3>1, <3>3 DEF LoopOK, RelayRow, AfterHandler
    <3>4. CASE n = AfterHandler(j, TRUE) /\ handled' = handled \cup {<<j.ev, j.h>>}
      <4>1. n \in RelayRow /\ n.todo = j.todo /\ n.ev = j.ev /\ n.h = j.h + 1
        BY <1>0, <3>1, <3>4 DEF RelayRow, AfterHandler
      <4>2. ~n.failed => ~j.failed
        BY <1>0, <3>4 DEF RelayRow, AfterHandler
      <4>3. ASSUME ~n.failed, NEW h \in Handlers, h < n.h
            PROVE  <<n.ev, h>> \in handled'
        <5>1. h < j.h \/ h = j.h
          BY <4>1, <4>3, <2>0 DEF Handlers
        <5> QED
          BY <1>0, <2>0, <3>4, <4>1, <4>2, <4>3, <5>1 DEF LoopOK
      <4> QED
        BY <1>0, <2>0, <4>1, <4>3 DEF LoopOK
    <3> QED
      BY <2>1, <3>2, <3>3, <3>4
  <2>3. /\ UNCHANGED <<stored, published, attempts, backoff>>
        /\ fails' \in 0..MaxFails
    <3>1. UNCHANGED <<stored, published, attempts, backoff>>
      BY <1>3 DEF CallHandler
    <3>2. fails' = fails \/ Fails
      BY <1>3 DEF CallHandler
    <3> QED
      BY <3>1, <3>2, RelayAssumption DEF Fails, RelayInv, RelayTypeOK
  <2>4. handled \subseteq handled' /\ handled' \subseteq stored \X Handlers
    <3>1. handled' = handled \/ handled' = handled \cup {<<j.ev, j.h>>}
      BY <2>1
    <3>2. <<j.ev, j.h>> \in stored \X Handlers /\ handled \subseteq stored \X Handlers
      BY <2>0 DEF RelayInv, RelayTypeOK
    <3> QED
      BY <3>1, <3>2
  <2>5. /\ relay' \in [Replicas -> RelayRow]
        /\ \A q \in Replicas : LoopOK(relay'[q], stored', handled')
    BY <2>1, <2>2, <2>3, <2>4, LoopStep
  <2> QED
    BY <2>3, <2>4, <2>5 DEF RelayInv, RelayTypeOK, RelayRow, PublishedWasHandled
<1>4. CASE PublishFailed(r)
  <2>0. j.ev \in Events /\ MarkFailed(r, j.ev)
    BY <1>0, <1>4 DEF PublishFailed, Running, LoopOK, j
  <2>1. /\ relay' = [relay EXCEPT ![r] = Loop("loop", j.todo)]
        /\ UNCHANGED <<stored, published, handled, fails>>
    BY <1>4 DEF PublishFailed, j
  <2>2. LoopOK(Loop("loop", j.todo), stored, handled)
    BY <1>0, LoopIsOK
  <2>3. /\ relay' \in [Replicas -> RelayRow]
        /\ \A q \in Replicas : LoopOK(relay'[q], stored', handled')
    BY <2>1, <2>2, LoopStep
  <2> QED
    BY <2>0, <2>1, <2>3, MarkFailedType
    DEF RelayInv, RelayTypeOK, RelayRow, PublishedWasHandled
<1>5. CASE SetPublished(r)
  <2>0. j.ev \in stored /\ j.ev \in Events
    BY <1>0, <1>5 DEF SetPublished, Running, LoopOK, j
  <2>1. /\ relay' = [relay EXCEPT ![r] = Loop("loop", j.todo)]
        /\ UNCHANGED <<stored, handled>>
        /\ published' \in {published, published \cup {j.ev}}
    BY <1>5 DEF SetPublished, j
  <2>2. LoopOK(Loop("loop", j.todo), stored, handled)
    BY <1>0, LoopIsOK
  <2>3. /\ relay' \in [Replicas -> RelayRow]
        /\ \A q \in Replicas : LoopOK(relay'[q], stored', handled')
    BY <2>1, <2>2, LoopStep
  <2>4. \A h \in Handlers : <<j.ev, h>> \in handled
    <3>1. j.pc = "publish" /\ j.h \notin Handlers /\ ~j.failed
      BY <1>5 DEF SetPublished, Running, j
    <3>2. \A h \in Handlers : h < j.h
      BY <1>0, <3>1, RelayAssumption DEF RelayRow, Handlers
    <3> QED
      BY <1>0, <3>1, <3>2 DEF LoopOK
  <2>5. PublishedWasHandled'
    BY <2>1, <2>4 DEF RelayInv, PublishedWasHandled
  <2>6. /\ attempts' \in [Replicas -> [Events -> 0..(MaxAttempts - 1)]]
        /\ backoff' \in [Replicas -> SUBSET Events]
        /\ fails' \in 0..MaxFails
    <3>1. CASE MarkFailed(r, j.ev)
      <4>1. fails' \in 0..MaxFails
        BY <1>5, RelayAssumption DEF SetPublished, Fails, RelayInv, RelayTypeOK
      <4> QED
        BY <2>0, <3>1, <4>1, MarkFailedType DEF RelayInv
    <3>2. CASE /\ attempts' = [attempts EXCEPT ![r][j.ev] = 0]
               /\ backoff' = [backoff EXCEPT ![r] = @ \ {j.ev}]
               /\ UNCHANGED fails
      BY <2>0, <3>2, RelayAssumption DEF RelayInv, RelayTypeOK
    <3> QED
      BY <1>5, <3>1, <3>2 DEF SetPublished, j
  <2>7. published' \subseteq stored
    BY <1>0, <2>0, <2>1
  <2> QED
    BY <2>1, <2>3, <2>5, <2>6, <2>7 DEF RelayInv, RelayTypeOK, RelayRow
<1>6. CASE NextRound(r)
  <2>1. /\ relay' = [relay EXCEPT ![r] = Loop("query", {})]
        /\ UNCHANGED <<stored, published, handled, attempts, backoff, fails>>
    BY <1>6 DEF NextRound
  <2>2. LoopOK(Loop("query", {}), stored, handled)
    BY <1>0, LoopIsOK
  <2>3. /\ relay' \in [Replicas -> RelayRow]
        /\ \A q \in Replicas : LoopOK(relay'[q], stored', handled')
    BY <2>1, <2>2, LoopStep
  <2> QED
    BY <2>1, <2>3 DEF RelayInv, RelayTypeOK, RelayRow, PublishedWasHandled
<1> QED
  BY <1>1, <1>2, <1>3, <1>4, <1>5, <1>6 DEF Relaying

\* Run returns, or a back-off ends.
LEMMA RestStep ==
    ASSUME RelayInv, NEW r \in Replicas,
           RelayReturns(r) \/ \E e \in Events : BackoffEnds(r, e)
    PROVE  RelayInv'
<1>1. CASE RelayReturns(r)
  <2>1. /\ relay' = [relay EXCEPT ![r] = Off]
        /\ UNCHANGED <<stored, published, handled, attempts, backoff, fails>>
    BY <1>1 DEF RelayReturns
  <2>2. LoopOK(Off, stored, handled)
    BY LoopIsOK DEF RelayInv, RelayTypeOK
  <2>3. /\ relay' \in [Replicas -> RelayRow]
        /\ \A q \in Replicas : LoopOK(relay'[q], stored', handled')
    BY <2>1, <2>2, LoopStep
  <2> QED
    BY <2>1, <2>3 DEF RelayInv, RelayTypeOK, RelayRow, PublishedWasHandled
<1>2. ASSUME NEW e \in Events, BackoffEnds(r, e) PROVE RelayInv'
  BY <1>2 DEF BackoffEnds, RelayInv, RelayTypeOK, PublishedWasHandled
<1> QED
  BY <1>1, <1>2

\* The invariant holds throughout.
LEMMA RelayInvAlways == RelaySpec => []RelayInv
<1>1. RelayInv /\ [RelayNext]_vars => RelayInv'
  <2> SUFFICES ASSUME RelayInv, [RelayNext]_vars PROVE RelayInv'
    OBVIOUS
  <2>1. CASE UnderLease(Tick)
    BY <2>1, LeaseStep DEF UnderLease
  <2>2. ASSUME NEW r \in Replicas,
               \/ UnderLease(MainLoop(r)) \/ UnderLease(RenewLoop(r))
               \/ UnderLease(Trouble(r))
        PROVE  RelayInv'
    BY <2>2, LeaseStep DEF UnderLease
  <2>3. CASE UNCHANGED vars
    BY <2>3 DEF vars, relayVars, RelayInv, RelayTypeOK, PublishedWasHandled
  <2> QED
    BY <2>1, <2>2, <2>3, SaveStep, RelayingStep, RestStep DEF RelayNext
<1> QED
  BY <1>1, RelayInvInit, PTL DEF RelaySpec

\* The outbox tables and the relay's bookkeeping keep their shape; the attempt
\* counter stays below maxAttempts (markFailed).
THEOREM RelayTypeCorrect == RelaySpec => []RelayTypeOK
  BY RelayInvAlways, PTL DEF RelayInv

\* The relay never acknowledges a partial fan-out (publish): published_at
\* implies that every subscriber has succeeded, with any number of replicas
\* relaying at once and leases lost at any point.
THEOREM AcknowledgedWasDelivered == RelaySpec => []PublishedWasHandled
  BY RelayInvAlways, PTL DEF RelayInv

-----------------------------------------------------------------------------
(* The relay and the lease together.                                       *)

\* The steps of the relay are steps of the lease or leave it alone.
LEMMA ComposedStep == ASSUME [RelayNext]_vars PROVE [LeaseNext]_leaseVars
<1>1. CASE UnderLease(Tick)
  BY <1>1 DEF UnderLease, LeaseNext
<1>2. ASSUME NEW r \in Replicas,
             \/ UnderLease(MainLoop(r)) \/ UnderLease(RenewLoop(r))
             \/ UnderLease(Trouble(r))
      PROVE  LeaseNext
  BY <1>2 DEF UnderLease, LeaseNext
<1>3. ASSUME NEW r \in Replicas, RelayReturns(r) PROVE LeaseNext
  BY <1>3 DEF RelayReturns, LeaseNext
<1>4. ASSUME NEW r \in Replicas, Relaying(r) \/ NextRound(r) PROVE UNCHANGED leaseVars
  BY <1>4 DEF Relaying, Query, PickEvent, CallHandler, PublishFailed, SetPublished,
              NextRound
<1>5. ASSUME NEW e \in Events, \/ SaveEvents(e)
                               \/ \E r \in Replicas : BackoffEnds(r, e)
      PROVE  UNCHANGED leaseVars
  BY <1>5 DEF SaveEvents, BackoffEnds
<1>6. CASE UNCHANGED vars
  BY <1>6 DEF vars
<1> QED
  BY <1>1, <1>2, <1>3, <1>4, <1>5, <1>6 DEF RelayNext

\* The relay run as the worker function implements the lease specification:
\* what is proved of RunAsLeader alone holds with a worker inside it.
THEOREM RelayKeepsLeaseSpec == RelaySpec => Spec
<1>1. RelayInit => Init
  BY DEF RelayInit
<1>2. [RelayNext]_vars => [LeaseNext]_leaseVars
  BY ComposedStep
<1> QED
  BY <1>1, <1>2, PTL DEF RelaySpec, Spec

\* A relay loop runs inside RunAsLeader only.
RelayInside == \A r \in Replicas : relay[r].pc # "off" => main[r] = "running"

LEMMA RelayInsideAlways == RelaySpec => []RelayInside
<1>1. RelayInit => RelayInside
  BY DEF RelayInit, RelayInside, Off, Loop
<1>2. RelayInv /\ RelayInside /\ [RelayNext]_vars => RelayInside'
  <2> SUFFICES ASSUME RelayInv, RelayInside, [RelayNext]_vars PROVE RelayInside'
    OBVIOUS
  <2>0. Off.pc = "off" /\ relay \in [Replicas -> RelayRow]
    BY DEF Off, Loop, RelayInv, RelayTypeOK, RelayRow
  <2>1. ASSUME relay' = [r \in Replicas |->
                           IF main'[r] # "running" THEN Off
                           ELSE IF main[r] = "running" THEN relay[r]
                           ELSE Loop("query", {})]
        PROVE  RelayInside'
    BY <2>0, <2>1 DEF RelayInside
  <2>2. ASSUME NEW r \in Replicas, Relaying(r) \/ NextRound(r) PROVE RelayInside'
    <3>1. main[r] = "running" /\ main' = main
      BY <2>2 DEF Relaying, Query, PickEvent, CallHandler, PublishFailed,
                  SetPublished, NextRound, Running, leaseVars
    <3>2. PICK j : relay' = [relay EXCEPT ![r] = j]
      BY <2>0, <2>2 DEF Relaying, Query, PickEvent, CallHandler, PublishFailed,
                        SetPublished, NextRound
    <3> QED
      BY <2>0, <3>1, <3>2 DEF RelayInside
  <2>3. ASSUME NEW r \in Replicas, RelayReturns(r) PROVE RelayInside'
    <3>1. relay' = [relay EXCEPT ![r] = Off] /\ main' = [main EXCEPT ![r] = "releasing"]
      BY <2>3 DEF RelayReturns, FnReturns
    <3> QED
      BY <2>0, <3>1 DEF RelayInside
  <2>4. CASE UNCHANGED <<relay, main>>
    BY <2>4 DEF RelayInside
  <2>5. ASSUME NEW e \in Events, \/ SaveEvents(e)
                                 \/ \E r \in Replicas : BackoffEnds(r, e)
        PROVE  UNCHANGED <<relay, main>>
    BY <2>5 DEF SaveEvents, BackoffEnds, leaseVars
  <2>6. ASSUME UNCHANGED vars PROVE UNCHANGED <<relay, main>>
    BY <2>6 DEF vars, leaseVars, relayVars
  <2> QED
    BY <2>1, <2>2, <2>3, <2>4, <2>5, <2>6 DEF RelayNext, UnderLease
<1> QED
  BY <1>1, <1>2, RelayInvAlways, PTL DEF RelaySpec

\* Of the replicas whose relay is at work at most one holds a claim that is
\* younger than the TTL less twice the clock error: relays overlap only while
\* the earlier leader has not yet noticed that its renewal is late.
OneFreshRelay ==
    \A r, q \in Replicas :
        /\ relay[r].pc # "off" /\ age[r] <= TTL - 2 * MaxSkew
        /\ relay[q].pc # "off" /\ age[q] <= TTL - 2 * MaxSkew
        => r = q

\* "Exactly one replica across the fleet executes fn at a time" (leader.go), as
\* far as it holds: two relays run at once only if one of their claims is overdue.
THEOREM RelaysDoNotOverlap == RelaySpec => []OneFreshRelay
<1>1. RelayInside /\ FreshHolderKeepsLease => OneFreshRelay
  BY DEF RelayInside, FreshHolderKeepsLease, OneFreshRelay
<1> QED
  BY <1>1, RelayInsideAlways, RelayKeepsLeaseSpec, FreshHolderIsSafe, PTL

=============================================================================
