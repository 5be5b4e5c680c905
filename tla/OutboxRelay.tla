---------------------------- MODULE OutboxRelay ----------------------------
(***************************************************************************)
(* The transactional outbox (internal/shared/outbox) and the in-memory     *)
(* event bus (internal/events), run as the worker a WorkerLease elects:    *)
(* a replica relays while its RunAsLeader is "running".                    *)
(*                                                                         *)
(* A use case writes its events in its own transaction, so an event is     *)
(* either stored with the state change or not at all (SaveEvents).         *)
(***************************************************************************)
EXTENDS WorkerLease

CONSTANTS
    Events,         \* ids of outbox rows
    NumHandlers,    \* subscribers of the events' type, in order
    MaxAttempts,    \* relay.go: maxAttempts
    MaxFails,       \* bound on failing handlers and queries
    NoEv

ASSUME RelayAssumption ==
    /\ NumHandlers \in Nat /\ MaxAttempts \in Nat \ {0} /\ MaxFails \in Nat
    /\ NoEv \notin Events

VARIABLES
    stored,     \* outbox_events rows
    published,  \* rows with published_at set
    handled,    \* <<event, handler>> pairs that succeeded at least once
    relay,      \* the relay loop of each replica
    attempts,   \* Relay.attempts
    backoff,    \* events whose nextAttempt lies ahead
    fails

relayVars == <<stored, published, handled, relay, attempts, backoff, fails>>

vars == <<leaseVars, relayVars>>

Handlers == 1..NumHandlers

Loop(pc, todo) ==
    [pc |-> pc, todo |-> todo, ev |-> NoEv, h |-> 1, failed |-> FALSE]

Off == Loop("off", {})

RelayInit ==
    /\ Init
    /\ stored = {} /\ published = {} /\ handled = {}
    /\ relay = [r \in Replicas |-> Off]
    /\ attempts = [r \in Replicas |-> [e \in Events |-> 0]]
    /\ backoff = [r \in Replicas |-> {}]
    /\ fails = 0

-----------------------------------------------------------------------------
\* A use case commits with event e.
SaveEvents(e) ==
    /\ e \notin stored
    /\ stored' = stored \cup {e}
    /\ UNCHANGED <<leaseVars, published, handled, relay, attempts, backoff, fails>>

Running(r, pc) == main[r] = "running" /\ relay[r].pc = pc

Fails == fails < MaxFails /\ fails' = fails + 1

\* The SELECT of dispatch; a failed query ends this round.
Query(r) ==
    /\ Running(r, "query")
    /\ \/ /\ ~cancelled[r]
          /\ relay' = [relay EXCEPT ![r] = Loop("loop", stored \ published)]
          /\ UNCHANGED fails
       \/ /\ IF cancelled[r] THEN UNCHANGED fails ELSE Fails
          /\ relay' = [relay EXCEPT ![r] = Loop("wait", {})]
    /\ UNCHANGED <<leaseVars, stored, published, handled, attempts, backoff>>

\* shouldSkip, and a mutant that skips an event once it has failed.
ShouldSkip_Failed(r, e) == e \in backoff[r] \/ attempts[r][e] > 0

ShouldSkip(r, e) == e \in backoff[r]

\* The next pending event (the SELECT has no ORDER BY), unless shouldSkip.
PickEvent(r) ==
    /\ Running(r, "loop")
    /\ \/ /\ relay[r].todo = {}
          /\ relay' = [relay EXCEPT ![r] = Loop("wait", {})]
       \/ \E e \in relay[r].todo :
            relay' = [relay EXCEPT ![r] =
                        IF ShouldSkip(r, e)
                        THEN Loop("loop", relay[r].todo \ {e})
                        ELSE [Loop("publish", relay[r].todo \ {e})
                                EXCEPT !.ev = e]]
    /\ UNCHANGED <<leaseVars, stored, published, handled, attempts, backoff, fails>>

\* A failing handler does not stop its siblings; the mutant forgets earlier
\* errors when a later handler succeeds.
AfterHandler_LastWins(j, ok) == [j EXCEPT !.h = @ + 1, !.failed = ~ok]

AfterHandler(j, ok) == [j EXCEPT !.h = @ + 1, !.failed = @ \/ ~ok]

\* InMemoryBus.Publish: one handler, in this goroutine.
CallHandler(r) ==
    LET j == relay[r] IN
    /\ Running(r, "publish") /\ j.h \in Handlers
    /\ \/ /\ cancelled[r]
          /\ relay' = [relay EXCEPT ![r].h = NumHandlers + 1,
                                    ![r].failed = TRUE]
          /\ UNCHANGED <<handled, fails>>
       \/ /\ ~cancelled[r]
          /\ relay' = [relay EXCEPT ![r] = AfterHandler(j, TRUE)]
          /\ handled' = handled \cup {<<j.ev, j.h>>}
          /\ UNCHANGED fails
       \/ /\ ~cancelled[r]
          /\ relay' = [relay EXCEPT ![r] = AfterHandler(j, FALSE)]
          /\ Fails
          /\ UNCHANGED handled
    /\ UNCHANGED <<leaseVars, stored, published, attempts, backoff>>

\* markFailed gives up after MaxAttempts, and a mutant that is off by one.
LastAttempt_OffByOne(r, e) == attempts[r][e] >= MaxAttempts

LastAttempt(r, e) == attempts[r][e] + 1 >= MaxAttempts

\* markFailed: back off, or, after the last attempt, forget the failures.
MarkFailed(r, e) ==
    IF LastAttempt(r, e)
    THEN /\ attempts' = [attempts EXCEPT ![r][e] = 0]
         /\ backoff' = [backoff EXCEPT ![r] = @ \ {e}]
    ELSE /\ attempts' = [attempts EXCEPT ![r][e] = @ + 1]
         /\ backoff' = [backoff EXCEPT ![r] = @ \cup {e}]

\* The fan-out failed.
PublishFailed(r) ==
    LET j == relay[r] IN
    /\ Running(r, "publish") /\ j.h \notin Handlers
    /\ j.failed
    /\ MarkFailed(r, j.ev)
    /\ relay' = [relay EXCEPT ![r] = Loop("loop", j.todo)]
    /\ UNCHANGED <<leaseVars, stored, published, handled, fails>>

\* UPDATE ... SET published_at, then markPublished; an error counts as a
\* failed attempt, whether the update was applied or not.
SetPublished(r) ==
    LET j == relay[r] IN
    /\ Running(r, "publish") /\ j.h \notin Handlers
    /\ ~j.failed
    /\ \/ /\ ~cancelled[r]
          /\ published' = published \cup {j.ev}
          /\ attempts' = [attempts EXCEPT ![r][j.ev] = 0]
          /\ backoff' = [backoff EXCEPT ![r] = @ \ {j.ev}]
          /\ UNCHANGED fails
       \/ /\ IF cancelled[r] THEN UNCHANGED fails ELSE Fails
          /\ MarkFailed(r, j.ev)
          /\ published' \in {published, published \cup {j.ev}}
    /\ relay' = [relay EXCEPT ![r] = Loop("loop", j.todo)]
    /\ UNCHANGED <<leaseVars, stored, handled>>

\* The ticker fires, or nextAttempt passes.
NextRound(r) ==
    /\ Running(r, "wait")
    /\ relay' = [relay EXCEPT ![r] = Loop("query", {})]
    /\ UNCHANGED <<leaseVars, stored, published, handled, attempts, backoff, fails>>

BackoffEnds(r, e) ==
    /\ e \in backoff[r]
    /\ backoff' = [backoff EXCEPT ![r] = @ \ {e}]
    /\ UNCHANGED <<leaseVars, stored, published, handled, relay, attempts, fails>>

\* Run returns only from its select, when the context is done.
RelayReturns(r) ==
    /\ Running(r, "wait") /\ cancelled[r]
    /\ FnReturns(r)
    /\ relay' = [relay EXCEPT ![r] = Off]
    /\ UNCHANGED <<stored, published, handled, attempts, backoff, fails>>

\* A step A of the lease starts Run on the replica that wins; a crash ends it
\* and loses the in-memory attempts.
UnderLease(A) ==
    /\ A
    /\ relay' = [r \in Replicas |->
                   IF main'[r] # "running" THEN Off
                   ELSE IF main[r] = "running" THEN relay[r]
                   ELSE Loop("query", {})]
    /\ attempts' = [r \in Replicas |->
                      IF main'[r] = "trying" THEN [e \in Events |-> 0]
                      ELSE attempts[r]]
    /\ backoff' = [r \in Replicas |->
                     IF main'[r] = "trying" THEN {} ELSE backoff[r]]
    /\ UNCHANGED <<stored, published, handled, fails>>

Relaying(r) ==
    \/ Query(r) \/ PickEvent(r) \/ CallHandler(r)
    \/ PublishFailed(r) \/ SetPublished(r)

RelayNext ==
    \/ UnderLease(Tick)
    \/ \E e \in Events : SaveEvents(e)
    \/ \E r \in Replicas :
         \/ UnderLease(MainLoop(r)) \/ UnderLease(RenewLoop(r))
         \/ UnderLease(Trouble(r))
         \/ Relaying(r) \/ NextRound(r) \/ RelayReturns(r)
         \/ \E e \in Events : BackoffEnds(r, e)

RelaySpec == RelayInit /\ [][RelayNext]_vars

\* The goroutines and the clock make progress; a select that keeps finding the
\* context done takes that branch at some point.
RelayFairness ==
    /\ SF_vars(UnderLease(Tick))
    /\ \A r \in Replicas :
         /\ WF_vars(UnderLease(MainLoop(r))) /\ WF_vars(UnderLease(RenewLoop(r)))
         /\ WF_vars(Relaying(r) \/ NextRound(r))
         /\ SF_vars(RelayReturns(r))
         /\ \A e \in Events : WF_vars(BackoffEnds(r, e))

FairRelaySpec == RelaySpec /\ RelayFairness

-----------------------------------------------------------------------------
(* Properties.                                                             *)

\* The tables, the loop of each replica and its bookkeeping keep their shape.
RelayTypeOK ==
    /\ published \subseteq stored /\ stored \subseteq Events
    /\ handled \subseteq stored \X Handlers
    /\ relay \in [Replicas ->
         [pc : {"off", "query", "loop", "publish", "wait"},
          todo : SUBSET Events, ev : Events \cup {NoEv},
          h : 1..(NumHandlers + 1), failed : BOOLEAN]]
    /\ attempts \in [Replicas -> [Events -> 0..(MaxAttempts - 1)]]
    /\ backoff \in [Replicas -> SUBSET Events]
    /\ fails \in 0..MaxFails

\* "published_at is set ONLY after every subscriber reports success": no
\* partial fan-out is acknowledged, not even when the lease is lost half way
\* or two replicas relay the same event.
PublishedWasHandled ==
    \A e \in published : \A h \in Handlers : <<e, h>> \in handled

\* Every event a use case committed is published in the end, through handler
\* failures, back-off and a change of leader, as long as a relay is left.
StoredIsPublished ==
    \A e \in Events :
        e \in stored ~> (e \in published \/ \A r \in Replicas : main[r] = "done")

=============================================================================
