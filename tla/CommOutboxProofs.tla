-------------------------- MODULE CommOutboxProofs --------------------------
(***************************************************************************)
(* Proofs about CommOutbox for every fleet of workers, set of events,      *)
(* table size, number of attempts and timing of the reaper.                *)
(***************************************************************************)
EXTENDS CommOutbox, FiniteSetTheorems, TLAPS

RowRec == [ev : Events \cup {NoEvent}, ch : Channels,
           status : {"none", "pending", "sending", "sent", "failed", "dead"},
           attempts : Nat, due : BOOLEAN, age : 0..(StaleAfter + 1)]

LoopRec == [pc : {"off", "ended", "idle", "poll", "loop", "claim", "send",
                  "marksent", "markfailed"},
            todo : SUBSET Rows, id : Rows \cup {0}, seen : Nat, held : 0..MaxHold]

\* The workers that claimed row i and have not sent its message yet.
Senders(i) == {w \in Workers : At(w, "send") /\ worker[w].id = i}

\* Rows are filled in order, and a row that was never filled was never claimed.
Unused ==
    \A i \in Rows :
        /\ i > used => row[i].status = "none"
        /\ row[i].status = "none" => row[i].attempts = 0

\* A worker has a real row in hand; the row of one that keeps to its deadline
\* is still claimed and no older than the hold, hence not stale; and a message
\* about to be marked sent reached its recipient.
WorkerOK(w) ==
    /\ worker[w].pc \in {"claim", "send", "marksent", "markfailed"} =>
         worker[w].id \in Rows
    /\ Holding(w) => row[worker[w].id].status # "none"
    /\ HoldsTimed(w) => /\ row[worker[w].id].status = "sending"
                        /\ row[worker[w].id].age <= worker[w].held
    /\ At(w, "marksent") => delivered[worker[w].id] > 0

\* Every delivery, made or still to come, is paid for with an attempt.
Paid(i) ==
    /\ IsFiniteSet(Senders(i))
    /\ delivered[i] + Cardinality(Senders(i)) <= row[i].attempts

CommInv ==
    /\ CommTypeOK
    /\ Unused
    /\ \A w \in Workers : WorkerOK(w)
    /\ OneSender
    /\ \A i \in Rows : Paid(i)
    /\ \A i \in Rows : row[i].status = "sent" => delivered[i] > 0
    /\ AckedIsQueued

-----------------------------------------------------------------------------
\* The record constructors build records of the right shape.
LEMMA LoopType ==
    ASSUME NEW pc \in {"off", "ended", "idle", "poll", "loop", "claim"},
           NEW todo \in SUBSET Rows
    PROVE  /\ Loop(pc, todo) \in LoopRec
           /\ Loop(pc, todo).pc = pc
           /\ Loop(pc, todo).todo = todo
  BY CommAssumption DEF Loop, LoopRec

LEMMA RowType ==
    ASSUME NEW e \in Events \cup {NoEvent}, NEW c \in Channels
    PROVE  /\ Row(e, c) \in RowRec
           /\ Row(e, c).status = "pending" /\ Row(e, c).attempts = 0
           /\ Row(e, c).ev = e /\ Row(e, c).ch = c
<1>1. 0 \in 0..(StaleAfter + 1) /\ 0 \in Nat
  BY CommAssumption
<1> QED
  BY <1>1 DEF Row, RowRec

LEMMA NoRowType ==
    NoRow \in RowRec /\ NoRow.status = "none" /\ NoRow.attempts = 0
<1>1. Row(NoEvent, "email") \in RowRec /\ Row(NoEvent, "email").attempts = 0
  BY RowType DEF Channels
<1>2. NoRow = [Row(NoEvent, "email") EXCEPT !.status = "none"]
  BY DEF NoRow
<1> QED
  BY <1>1, <1>2 DEF RowRec

\* The invariant gives the shapes in terms of the two record sets.
LEMMA Shapes ==
    ASSUME CommTypeOK
    PROVE  /\ row \in [Rows -> RowRec]
           /\ worker \in [Workers -> LoopRec]
           /\ used \in 0..MaxRows /\ acked \subseteq Events
           /\ cancelled \subseteq Workers
           /\ delivered \in [Rows -> Nat]
           /\ faults \in 0..MaxFaults
  BY DEF CommTypeOK, RowRec, LoopRec

\* The invariant holds over an empty table and with every worker off.
LEMMA CommInvInit == Init => CommInv
<1> SUFFICES ASSUME Init PROVE CommInv
  OBVIOUS
<1>1. Loop("off", {}) \in LoopRec /\ Loop("off", {}).pc = "off"
  BY LoopType
<1>2. NoRow \in RowRec /\ NoRow.status = "none" /\ NoRow.attempts = 0
  BY NoRowType
<1>3. CommTypeOK
  BY <1>1, <1>2, CommAssumption DEF Init, CommTypeOK, RowRec, LoopRec
<1>4. Unused /\ AckedIsQueued /\ \A i \in Rows : row[i].status # "sent"
  BY <1>2 DEF Init, Unused, AckedIsQueued
<1>5. \A w \in Workers : worker[w].pc = "off"
  BY <1>1 DEF Init
<1>6. OneSender /\ \A w \in Workers : WorkerOK(w)
  BY <1>5 DEF OneSender, WorkerOK, HoldsTimed, Holding, At
<1>7. ASSUME NEW i \in Rows PROVE Paid(i)
  <2>1. Senders(i) = {}
    BY <1>5 DEF Senders, At
  <2>2. IsFiniteSet(Senders(i)) /\ Cardinality(Senders(i)) = 0
    BY <2>1, FS_EmptySet
  <2> QED
    BY <1>2, <2>2 DEF Init, Paid
<1> QED
  BY <1>3, <1>4, <1>6, <1>7 DEF CommInv

-----------------------------------------------------------------------------
(* Steps that leave no worker with a new claim.                            *)

\* What a statement may do to row i: its message, its channel and whether it
\* was filled stay, attempts only grow, and only a delivered row becomes sent.
Kept(i) ==
    /\ row'[i].ch = row[i].ch /\ row'[i].ev = row[i].ev
    /\ row[i].status = "none" => row'[i] = row[i]
    /\ row[i].status # "none" => row'[i].status # "none"
    /\ row'[i].attempts >= row[i].attempts
    /\ row'[i].status = "sent" => delivered[i] > 0

\* Worker w lets go of what it holds (or held nothing), and the statement it
\* ran touched no row another worker holds in time.
LEMMA LetGo ==
    ASSUME CommInv, NEW w \in Workers, NEW j \in LoopRec,
           worker' = [worker EXCEPT ![w] = j],
           j.pc \in {"off", "ended", "idle", "poll", "loop", "claim"},
           j.pc = "claim" => j.id \in Rows,
           row' \in [Rows -> RowRec],
           \A i \in Rows : Kept(i),
           \A v \in Workers \ {w} :
               HoldsTimed(v) => row'[worker[v].id] = row[worker[v].id],
           cancelled' \subseteq Workers, faults' \in 0..MaxFaults,
           UNCHANGED <<used, acked, delivered>>
    PROVE  CommInv'
<1>0. /\ row \in [Rows -> RowRec]
      /\ worker \in [Workers -> LoopRec]
      /\ used \in 0..MaxRows /\ acked \subseteq Events
      /\ delivered \in [Rows -> Nat]
  BY Shapes DEF CommInv
<1>1. worker' \in [Workers -> LoopRec] /\ worker'[w] = j
      /\ \A v \in Workers \ {w} : worker'[v] = worker[v]
  BY <1>0
<1>2. CommTypeOK'
  BY <1>0, <1>1 DEF CommTypeOK, RowRec, LoopRec
<1>3. Unused'
  BY <1>0 DEF CommInv, Unused, Kept
<1>4. ASSUME NEW v \in Workers PROVE WorkerOK(v)'
  <2>1. CASE v = w
    BY <1>1, <2>1 DEF WorkerOK, Holding, HoldsTimed, At
  <2>2. CASE v # w
    <3>1. worker'[v] = worker[v] /\ WorkerOK(v)
      BY <1>1, <2>2 DEF CommInv
    <3>2. HoldsTimed(v)' => HoldsTimed(v)
      BY <3>1 DEF HoldsTimed, Holding, WorkerOK, Kept
    <3>3. HoldsTimed(v) => row'[worker[v].id] = row[worker[v].id]
      BY <2>2
    <3>4. Holding(v)' => worker[v].id \in Rows /\ Holding(v)
      BY <3>1 DEF Holding, WorkerOK
    <3>5. Holding(v)' => row'[worker[v].id].status # "none"
      BY <3>1, <3>4 DEF WorkerOK, Kept
    <3> QED
      BY <3>1, <3>2, <3>3, <3>5 DEF WorkerOK, At
  <2> QED
    BY <2>1, <2>2
<1>5. ASSUME NEW v \in Workers PROVE HoldsTimed(v)' => v # w /\ HoldsTimed(v)
  <2>1. Holding(v)' => v # w /\ worker[v].id \in Rows /\ worker'[v] = worker[v]
    BY <1>1 DEF Holding, CommInv, WorkerOK
  <2> QED
    BY <2>1 DEF HoldsTimed, Holding, Kept
<1>6. OneSender'
  BY <1>1, <1>5 DEF CommInv, OneSender
<1>7. ASSUME NEW i \in Rows PROVE Paid(i)'
  <2>1. Senders(i)' \subseteq Senders(i)
    BY <1>1 DEF Senders, At
  <2>2. IsFiniteSet(Senders(i)) /\ delivered[i] + Cardinality(Senders(i)) <= row[i].attempts
    BY DEF CommInv, Paid
  <2>3. IsFiniteSet(Senders(i)') /\ Cardinality(Senders(i)') <= Cardinality(Senders(i))
    BY <2>1, <2>2, FS_Subset
  <2>4. Cardinality(Senders(i)) \in Nat /\ Cardinality(Senders(i)') \in Nat
    BY <2>2, <2>3, FS_CardinalityType
  <2>5. row[i].attempts \in Nat /\ row'[i].attempts \in Nat /\ delivered[i] \in Nat
        /\ row'[i].attempts >= row[i].attempts
    BY <1>0 DEF RowRec, Kept
  <2> QED
    BY <2>2, <2>3, <2>4, <2>5 DEF Paid
<1>8. \A i \in Rows : row'[i].status = "sent" => delivered'[i] > 0
  BY DEF Kept
<1>9. AckedIsQueued'
  BY DEF CommInv, AckedIsQueued, Queued, Kept
<1> QED
  BY <1>2, <1>3, <1>4, <1>6, <1>7, <1>8, <1>9 DEF CommInv

\* The same for a worker that runs no statement on the table, or one that failed.
LEMMA LetGoOnly ==
    ASSUME CommInv, NEW w \in Workers, NEW j \in LoopRec,
           worker' = [worker EXCEPT ![w] = j],
           j.pc \in {"off", "ended", "idle", "poll", "loop", "claim"},
           j.pc = "claim" => j.id \in Rows,
           cancelled' \subseteq Workers, faults' \in 0..MaxFaults,
           UNCHANGED <<row, used, acked, delivered>>
    PROVE  CommInv'
<1>1. row' \in [Rows -> RowRec]
  BY Shapes DEF CommInv
<1>2. \A i \in Rows : Kept(i)
  BY <1>1 DEF CommInv, Kept, RowRec
<1> QED
  BY <1>1, <1>2, LetGo

\* A statement that fails or works keeps the fault counter in range.
LEMMA FaultsType ==
    ASSUME CommTypeOK
    PROVE  /\ Fault => faults' \in 0..MaxFaults
           /\ UNCHANGED faults => faults' \in 0..MaxFaults
           /\ \A w : StatementFails(w) => faults' \in 0..MaxFaults
           /\ \A w : StatementWorks(w) => faults' \in 0..MaxFaults
  BY CommAssumption DEF CommTypeOK, Fault, StatementFails, StatementWorks

\* A loop that goes to pc with its tasks.
LEMMA GotoType ==
    ASSUME CommInv, NEW w \in Workers,
           NEW pc \in {"off", "ended", "idle", "poll", "loop", "claim"}
    PROVE  /\ Loop(pc, worker[w].todo) \in LoopRec
           /\ Loop(pc, worker[w].todo).pc = pc
<1>1. worker[w].todo \in SUBSET Rows
  BY Shapes DEF CommInv, LoopRec
<1> QED
  BY <1>1, LoopType

\* The steps that only move the worker's own loop.
LEMMA LoopStep ==
    ASSUME CommInv, NEW w \in Workers,
           \/ Start(w) \/ Poll(w) \/ ReadAttempts(w) \/ RoundEnds(w)
           \/ Stop(w) \/ Crash(w) \/ Restart(w)
    PROVE  CommInv'
<1>0. /\ row \in [Rows -> RowRec] /\ worker \in [Workers -> LoopRec]
      /\ cancelled \subseteq Workers /\ faults \in 0..MaxFaults /\ CommTypeOK
  BY Shapes DEF CommInv
<1>1. \A pc \in {"off", "ended", "idle", "poll", "loop"} :
        Loop(pc, {}) \in LoopRec /\ Loop(pc, {}).pc = pc
  BY LoopType
<1>2. CASE Start(w) \/ RoundEnds(w) \/ Stop(w) \/ Restart(w)
  <2>1. /\ \/ worker' = [worker EXCEPT ![w] = Loop("idle", {})]
           \/ worker' = [worker EXCEPT ![w] = Loop("off", {})]
           \/ worker' = [worker EXCEPT ![w] = Loop("ended", {})]
        /\ cancelled' \subseteq Workers
        /\ UNCHANGED <<row, used, acked, delivered, faults>>
    BY <1>0, <1>2 DEF Start, RoundEnds, Stop, Restart
  <2> QED
    BY <1>0, <1>1, <2>1, LetGoOnly
<1>3. CASE Crash(w)
  <2>1. /\ worker' = [worker EXCEPT ![w] = Loop("ended", {})]
        /\ faults' \in 0..MaxFaults
        /\ UNCHANGED <<row, used, acked, cancelled, delivered>>
    BY <1>0, <1>3, FaultsType DEF Crash
  <2> QED
    BY <1>0, <1>1, <2>1, LetGoOnly
<1>4. CASE Poll(w)
  <2>1. /\ \/ worker' = [worker EXCEPT ![w] = Loop("loop", {i \in Rows : Pollable(i)})]
           \/ worker' = [worker EXCEPT ![w] = Loop("idle", {})]
        /\ faults' \in 0..MaxFaults
        /\ UNCHANGED <<row, used, acked, cancelled, delivered>>
    BY <1>0, <1>4, FaultsType DEF Poll
  <2>2. /\ Loop("loop", {i \in Rows : Pollable(i)}) \in LoopRec
        /\ Loop("loop", {i \in Rows : Pollable(i)}).pc = "loop"
    BY LoopType
  <2> QED
    BY <1>0, <1>1, <2>1, <2>2, LetGoOnly
<1>5. CASE ReadAttempts(w)
  <2>1. PICK i \in worker[w].todo :
          /\ \/ worker' = [worker EXCEPT ![w] =
                             [Loop("claim", worker[w].todo \ {i})
                                EXCEPT !.id = i, !.seen = row[i].attempts]]
             \/ worker' = [worker EXCEPT ![w] = Loop("loop", worker[w].todo \ {i})]
          /\ faults' \in 0..MaxFaults
    BY <1>0, <1>5, FaultsType DEF ReadAttempts
  <2>2. UNCHANGED <<row, used, acked, cancelled, delivered>>
    BY <1>5 DEF ReadAttempts
  <2>3. worker[w].todo \subseteq Rows /\ i \in Rows /\ row[i].attempts \in Nat
    BY <1>0 DEF LoopRec, RowRec
  <2> DEFINE c == Loop("claim", worker[w].todo \ {i})
             l == Loop("loop", worker[w].todo \ {i})
             k == [c EXCEPT !.id = i, !.seen = row[i].attempts]
  <2>4. c \in LoopRec /\ c.pc = "claim" /\ l \in LoopRec /\ l.pc = "loop"
    BY <2>3, LoopType
  <2>5. k \in LoopRec /\ k.pc = "claim" /\ k.id = i
    BY <2>3, <2>4 DEF LoopRec
  <2> HIDE DEF c, l, k
  <2>6. worker' = [worker EXCEPT ![w] = k] \/ worker' = [worker EXCEPT ![w] = l]
    BY <2>1 DEF k, l, c
  <2> QED
    BY <1>0, <2>1, <2>2, <2>3, <2>4, <2>5, <2>6, LetGoOnly
<1> QED
  BY <1>2, <1>3, <1>4, <1>5

\* reapStale takes no claim whose worker is in time: it is not older than the
\* hold, and the hold is at most MaxHold.
LEMMA ReapStep ==
    ASSUME CommInv, NEW w \in Workers, ReapStale(w)
    PROVE  CommInv'
<1>0. /\ row \in [Rows -> RowRec] /\ worker \in [Workers -> LoopRec]
      /\ cancelled \subseteq Workers /\ CommTypeOK
  BY Shapes DEF CommInv
<1>1. /\ worker' = [worker EXCEPT ![w] = Loop("poll", worker[w].todo)]
      /\ faults' \in 0..MaxFaults
      /\ UNCHANGED <<used, acked, cancelled, delivered>>
  BY <1>0, FaultsType DEF ReapStale, Goto
<1>2. /\ Loop("poll", worker[w].todo) \in LoopRec
      /\ Loop("poll", worker[w].todo).pc = "poll"
  BY GotoType
<1>3. CASE row' = row
  BY <1>0, <1>1, <1>2, <1>3, LetGoOnly
<1>4. CASE row' = [i \in Rows |->
                     IF Stale(i) THEN [row[i] EXCEPT !.status = "failed", !.age = 0]
                     ELSE row[i]]
  <2>1. 0 \in 0..(StaleAfter + 1)
    BY CommAssumption
  <2>2. row' \in [Rows -> RowRec]
    BY <1>0, <1>4, <2>1 DEF RowRec
  <2>3. ASSUME NEW i \in Rows PROVE Kept(i)
    <3>1. row[i] \in RowRec /\ (row[i].status = "sent" => delivered[i] > 0)
      BY <1>0 DEF CommInv
    <3>2. CASE Stale(i)
      <4>1. row'[i] = [row[i] EXCEPT !.status = "failed", !.age = 0]
        BY <1>4, <3>2
      <4> QED
        BY <3>1, <3>2, <4>1 DEF Kept, Stale, RowRec
    <3>3. CASE ~Stale(i)
      <4>1. row'[i] = row[i]
        BY <1>4, <3>3
      <4> QED
        BY <3>1, <4>1 DEF Kept, RowRec
    <3> QED
      BY <3>2, <3>3
  <2>4. ASSUME NEW v \in Workers, HoldsTimed(v)
        PROVE  row'[worker[v].id] = row[worker[v].id]
    <3>1. worker[v].id \in Rows /\ row[worker[v].id].age <= worker[v].held
      BY <2>4 DEF CommInv, WorkerOK, HoldsTimed, Holding
    <3>2. worker[v].held \in 0..MaxHold /\ row[worker[v].id].age \in Nat
      BY <1>0, <3>1, CommAssumption DEF LoopRec, RowRec
    <3>3. ~Stale(worker[v].id)
      BY <3>1, <3>2, CommAssumption DEF Stale
    <3> QED
      BY <1>4, <3>1, <3>3
  <2> QED
    BY <1>0, <1>1, <1>2, <2>2, <2>3, <2>4, LetGo
<1> QED
  BY <1>3, <1>4 DEF ReapStale

\* The claim counts an attempt on an open row, which no worker holds in time.
LEMMA SetSendingKeeps ==
    ASSUME CommInv, NEW i \in Rows, Claimable(i), SetSending(i)
    PROVE  /\ row' \in [Rows -> RowRec]
           /\ \A j \in Rows : Kept(j)
           /\ row'[i].status = "sending" /\ row'[i].age = 0
           /\ row'[i].attempts = row[i].attempts + 1
           /\ \A v \in Workers : HoldsTimed(v) => worker[v].id # i
           /\ \A v \in Workers :
                HoldsTimed(v) => row'[worker[v].id] = row[worker[v].id]
<1>0. row \in [Rows -> RowRec] /\ worker \in [Workers -> LoopRec]
  BY Shapes DEF CommInv
<1>1. 0 \in 0..(StaleAfter + 1)
  BY CommAssumption
<1>2. row[i] \in RowRec /\ row[i].attempts \in Nat /\ row[i].status \in {"pending", "failed"}
  BY <1>0 DEF RowRec, Claimable, Open
<1>3. PICK a \in Nat : a = row[i].attempts + 1
  BY <1>2
<1>4. row' = [row EXCEPT ![i].status = "sending", ![i].attempts = a,
                         ![i].due = TRUE, ![i].age = 0]
  BY <1>3 DEF SetSending
<1>5. /\ row' \in [Rows -> RowRec]
      /\ \A j \in Rows \ {i} : row'[j] = row[j]
  <2>1. \A j \in Rows \ {i} : row'[j] = row[j]
    BY <1>0, <1>4
  <2>2. PICK r \in RowRec : r = row[i]
    BY <1>2
  <2>3. [r EXCEPT !.status = "sending", !.attempts = a, !.due = TRUE, !.age = 0] \in RowRec
    BY <1>1 DEF RowRec
  <2>4. PICK n \in RowRec :
          n = [r EXCEPT !.status = "sending", !.attempts = a, !.due = TRUE, !.age = 0]
    BY <2>3
  <2>5. row' = [row EXCEPT ![i] = n]
    BY <1>0, <1>4, <2>2, <2>4
  <2> QED
    BY <1>0, <2>1, <2>5
<1>6. /\ row'[i].status = "sending" /\ row'[i].age = 0 /\ row'[i].attempts = a
      /\ row'[i].ch = row[i].ch /\ row'[i].ev = row[i].ev
  BY <1>0, <1>4 DEF RowRec
<1>7. ASSUME NEW j \in Rows PROVE Kept(j)
  <2>1. CASE j = i
    BY <1>2, <1>3, <1>6, <2>1 DEF Kept
  <2>2. CASE j # i
    BY <1>0, <1>5, <2>2 DEF Kept, CommInv, RowRec
  <2> QED
    BY <2>1, <2>2
<1>8. \A v \in Workers : HoldsTimed(v) => worker[v].id # i /\ worker[v].id \in Rows
  BY <1>2 DEF CommInv, WorkerOK, HoldsTimed, Holding
<1> QED
  BY <1>3, <1>5, <1>6, <1>7, <1>8

\* A worker whose claim works holds the row alone, and has an attempt to spend.
LEMMA ClaimWorks ==
    ASSUME CommInv, NEW w \in Workers, At(w, "claim"),
           Claimable(worker[w].id), SetSending(worker[w].id),
           worker' = [worker EXCEPT ![w].pc = "send"],
           UNCHANGED <<used, acked, cancelled, delivered, faults>>
    PROVE  CommInv'
<1> DEFINE i == worker[w].id
<1>0. /\ row \in [Rows -> RowRec] /\ worker \in [Workers -> LoopRec]
      /\ used \in 0..MaxRows /\ acked \subseteq Events
      /\ cancelled \subseteq Workers /\ delivered \in [Rows -> Nat]
      /\ faults \in 0..MaxFaults
  BY Shapes DEF CommInv
<1>1. i \in Rows
  BY DEF CommInv, WorkerOK, At
<1>2. /\ row' \in [Rows -> RowRec]
      /\ \A j \in Rows : Kept(j)
      /\ row'[i].status = "sending" /\ row'[i].age = 0
      /\ row'[i].attempts = row[i].attempts + 1
      /\ \A v \in Workers : HoldsTimed(v) => worker[v].id # i
      /\ \A v \in Workers :
           HoldsTimed(v) => row'[worker[v].id] = row[worker[v].id]
  BY <1>1, SetSendingKeeps
<1>3. /\ worker' \in [Workers -> LoopRec]
      /\ worker'[w].pc = "send" /\ worker'[w].id = i
      /\ worker'[w].held = worker[w].held /\ worker[w].held \in 0..MaxHold
      /\ \A v \in Workers \ {w} : worker'[v] = worker[v]
  BY <1>0 DEF LoopRec
<1> HIDE DEF i
<1>4. CommTypeOK'
  BY <1>0, <1>2, <1>3 DEF CommTypeOK, RowRec, LoopRec
<1>5. Unused'
  BY <1>0, <1>2 DEF CommInv, Unused, Kept
<1>6. ASSUME NEW v \in Workers, v # w PROVE HoldsTimed(v)' => HoldsTimed(v)
  <2>1. Holding(v)' => worker[v].id \in Rows /\ worker'[v] = worker[v]
    BY <1>3, <1>6 DEF Holding, CommInv, WorkerOK
  <2> QED
    BY <1>2, <2>1 DEF HoldsTimed, Holding, Kept
<1>7. ASSUME NEW v \in Workers PROVE WorkerOK(v)'
  <2>1. CASE v = w
    <3>1. 0 <= worker[w].held
      BY <1>3, CommAssumption
    <3> QED
      BY <1>1, <1>2, <1>3, <2>1, <3>1 DEF WorkerOK, Holding, HoldsTimed, At
  <2>2. CASE v # w
    <3>1. worker'[v] = worker[v] /\ WorkerOK(v)
      BY <1>3, <2>2 DEF CommInv
    <3>2. HoldsTimed(v)' => HoldsTimed(v) /\ row'[worker[v].id] = row[worker[v].id]
      BY <1>2, <1>6, <2>2
    <3>3. Holding(v)' => Holding(v) /\ worker[v].id \in Rows
      BY <3>1 DEF Holding, WorkerOK
    <3>4. Holding(v)' => row'[worker[v].id].status # "none"
      BY <1>2, <3>1, <3>3 DEF WorkerOK, Kept
    <3> QED
      BY <3>1, <3>2, <3>4 DEF WorkerOK, At
  <2> QED
    BY <2>1, <2>2
<1>8. OneSender'
  BY <1>2, <1>3, <1>6 DEF CommInv, OneSender
<1>9. ASSUME NEW k \in Rows PROVE Paid(k)'
  <2>0. /\ IsFiniteSet(Senders(k)) /\ Cardinality(Senders(k)) \in Nat
        /\ delivered[k] + Cardinality(Senders(k)) <= row[k].attempts
        /\ delivered[k] \in Nat /\ row[k].attempts \in Nat
    BY <1>0, FS_CardinalityType DEF CommInv, Paid, RowRec
  <2>1. CASE k = i
    <3>1. Senders(k)' = Senders(k) \cup {w} /\ w \notin Senders(k)
      BY <1>3, <2>1 DEF Senders, At
    <3>2. IsFiniteSet(Senders(k)') /\ Cardinality(Senders(k)') = Cardinality(Senders(k)) + 1
      BY <2>0, <3>1, FS_AddElement
    <3> QED
      BY <1>2, <2>0, <2>1, <3>2 DEF Paid
  <2>2. CASE k # i
    <3>1. Senders(k)' = Senders(k)
      BY <1>3, <2>2 DEF Senders, At, i
    <3>2. row'[k].attempts \in Nat /\ row'[k].attempts >= row[k].attempts
      BY <1>2 DEF Kept, RowRec
    <3> QED
      BY <2>0, <3>1, <3>2 DEF Paid
  <2> QED
    BY <2>1, <2>2
<1>10. \A k \in Rows : row'[k].status = "sent" => delivered'[k] > 0
  BY <1>2 DEF Kept
<1>11. AckedIsQueued'
  BY <1>2 DEF CommInv, AckedIsQueued, Queued, Kept
<1> QED
  BY <1>4, <1>5, <1>7, <1>8, <1>9, <1>10, <1>11 DEF CommInv

\* The claim, in all its outcomes.
LEMMA ClaimStep ==
    ASSUME CommInv, NEW w \in Workers, Claim(w)
    PROVE  CommInv'
<1> DEFINE i == worker[w].id
<1>0. cancelled \subseteq Workers /\ CommTypeOK
  BY Shapes DEF CommInv
<1>1. /\ At(w, "claim") /\ i \in Rows /\ faults' \in 0..MaxFaults
      /\ UNCHANGED <<used, acked, cancelled, delivered>>
  BY <1>0, FaultsType DEF Claim, CommInv, WorkerOK, At
<1>2. /\ Loop("loop", worker[w].todo) \in LoopRec
      /\ Loop("loop", worker[w].todo).pc = "loop"
  BY GotoType
<1>3. CASE /\ StatementWorks(w) /\ Claimable(i) /\ SetSending(i)
           /\ worker' = [worker EXCEPT ![w].pc = "send"]
  BY <1>1, <1>3, ClaimWorks DEF StatementWorks
<1>4. CASE Goto(w, "loop") /\ UNCHANGED row
  BY <1>0, <1>1, <1>2, <1>4, LetGoOnly DEF Goto
<1>5. CASE Goto(w, "loop") /\ Claimable(i) /\ SetSending(i)
  <2>1. /\ row' \in [Rows -> RowRec]
        /\ \A j \in Rows : Kept(j)
        /\ \A v \in Workers :
             HoldsTimed(v) => row'[worker[v].id] = row[worker[v].id]
    BY <1>1, <1>5, SetSendingKeeps
  <2> QED
    BY <1>0, <1>1, <1>2, <1>5, <2>1, LetGo DEF Goto
<1> QED
  BY <1>3, <1>4, <1>5 DEF Claim

-----------------------------------------------------------------------------
\* The message goes out: the attempt is spent.
LEMMA SendStep ==
    ASSUME CommInv, NEW w \in Workers, Send(w)
    PROVE  CommInv'
<1> DEFINE i == worker[w].id
<1>0. /\ row \in [Rows -> RowRec] /\ worker \in [Workers -> LoopRec]
      /\ used \in 0..MaxRows /\ acked \subseteq Events
      /\ cancelled \subseteq Workers /\ delivered \in [Rows -> Nat]
      /\ faults \in 0..MaxFaults
  BY Shapes DEF CommInv
<1>1. /\ At(w, "send") /\ i \in Rows
      /\ UNCHANGED <<row, used, acked, cancelled, faults>>
  BY DEF Send, CommInv, WorkerOK, At
<1>2. PICK ok \in BOOLEAN, reached \in BOOLEAN :
        /\ ok => reached
        /\ worker' = [worker EXCEPT ![w].pc = IF ok THEN "marksent" ELSE "markfailed"]
        /\ delivered' = [delivered EXCEPT ![i] = IF reached THEN @ + 1 ELSE @]
  BY DEF Send
<1>3. /\ worker' \in [Workers -> LoopRec]
      /\ worker'[w].pc = IF ok THEN "marksent" ELSE "markfailed"
      /\ worker'[w].id = i /\ worker'[w].held = worker[w].held
      /\ \A v \in Workers \ {w} : worker'[v] = worker[v]
  BY <1>0, <1>2 DEF LoopRec
<1>4. /\ delivered' \in [Rows -> Nat]
      /\ \A k \in Rows : delivered'[k] >= delivered[k]
      /\ ok => delivered'[i] > 0
      /\ delivered'[i] <= delivered[i] + 1
      /\ \A k \in Rows \ {i} : delivered'[k] = delivered[k]
  BY <1>0, <1>1, <1>2
<1> HIDE DEF i
<1>5. CommTypeOK'
  BY <1>0, <1>1, <1>3, <1>4 DEF CommTypeOK, RowRec, LoopRec
<1>6. \A v \in Workers : worker'[v].id = worker[v].id /\ worker'[v].held = worker[v].held
                        /\ (Holding(v)' <=> Holding(v))
  BY <1>1, <1>3 DEF Holding, At, i
<1>7. \A v \in Workers : HoldsTimed(v)' <=> HoldsTimed(v)
  BY <1>1, <1>6 DEF HoldsTimed
<1>8. ASSUME NEW v \in Workers PROVE WorkerOK(v)'
  <2>0. WorkerOK(v)
    BY DEF CommInv
  <2>1. CASE v = w
    BY <1>1, <1>3, <1>4, <1>6, <1>7, <2>0, <2>1 DEF WorkerOK, At
  <2>2. CASE v # w
    <3>1. worker'[v] = worker[v]
      BY <1>3, <2>2
    <3>2. At(v, "marksent")' => worker[v].id \in Rows /\ delivered[worker[v].id] > 0
      BY <2>0, <3>1 DEF WorkerOK, At
    <3>3. At(v, "marksent")' => delivered'[worker[v].id] > 0
      BY <1>0, <1>4, <3>2
    <3> QED
      BY <1>1, <1>6, <1>7, <2>0, <3>1, <3>3 DEF WorkerOK
  <2> QED
    BY <2>1, <2>2
<1>9. OneSender' /\ Unused'
  BY <1>1, <1>6, <1>7 DEF CommInv, OneSender, Unused
<1>10. ASSUME NEW k \in Rows PROVE Paid(k)'
  <2>0. /\ IsFiniteSet(Senders(k)) /\ Cardinality(Senders(k)) \in Nat
        /\ delivered[k] + Cardinality(Senders(k)) <= row[k].attempts
        /\ delivered[k] \in Nat /\ row[k].attempts \in Nat
        /\ delivered'[k] \in Nat
    BY <1>0, <1>4, FS_CardinalityType DEF CommInv, Paid, RowRec
  <2>1. CASE k = i
    <3>1. Senders(k)' = Senders(k) \ {w} /\ w \in Senders(k)
      BY <1>1, <1>3, <2>1 DEF Senders, At, i
    <3>2. /\ IsFiniteSet(Senders(k)')
          /\ Cardinality(Senders(k)') = Cardinality(Senders(k)) - 1
      BY <2>0, <3>1, FS_RemoveElement
    <3> QED
      BY <1>1, <1>4, <2>0, <2>1, <3>2 DEF Paid
  <2>2. CASE k # i
    <3>1. Senders(k)' = Senders(k)
      BY <1>3, <2>2 DEF Senders, At, i
    <3> QED
      BY <1>1, <1>4, <2>0, <2>2, <3>1 DEF Paid
  <2> QED
    BY <2>1, <2>2
<1>11. \A k \in Rows : row'[k].status = "sent" => delivered'[k] > 0
  BY <1>0, <1>1, <1>4 DEF CommInv
<1>12. AckedIsQueued'
  BY <1>1 DEF CommInv, AckedIsQueued, Queued
<1> QED
  BY <1>5, <1>8, <1>9, <1>10, <1>11, <1>12 DEF CommInv

\* Marking the row sent, and the push-back of the rows that wait.
LEMMA MarkSentStep ==
    ASSUME CommInv, NEW w \in Workers, MarkSent(w)
    PROVE  CommInv'
<1> DEFINE i == worker[w].id
<1>0. /\ row \in [Rows -> RowRec] /\ worker \in [Workers -> LoopRec]
      /\ cancelled \subseteq Workers /\ CommTypeOK
  BY Shapes DEF CommInv
<1>1. /\ At(w, "marksent") /\ i \in Rows /\ delivered[i] > 0
      /\ faults' \in 0..MaxFaults
      /\ worker' = [worker EXCEPT ![w] = Loop("loop", worker[w].todo)]
      /\ UNCHANGED <<used, acked, cancelled, delivered>>
  BY <1>0, FaultsType DEF MarkSent, Goto, CommInv, WorkerOK, At
<1>2. /\ Loop("loop", worker[w].todo) \in LoopRec
      /\ Loop("loop", worker[w].todo).pc = "loop"
  BY GotoType
<1>3. CASE row' = row
  BY <1>0, <1>1, <1>2, <1>3, LetGoOnly
<1>4. ASSUME NEW pushed \in {{}, {j \in Rows : PushBack(i, j)}},
             row' = [j \in Rows |->
                       IF j = i /\ StillSending(i)
                       THEN [row[j] EXCEPT !.status = "sent", !.age = 0]
                       ELSE IF j \in pushed THEN [row[j] EXCEPT !.due = FALSE]
                       ELSE row[j]]
      PROVE  CommInv'
  <2>1. 0 \in 0..(StaleAfter + 1)
    BY CommAssumption
  <2>2. row' \in [Rows -> RowRec]
    BY <1>0, <1>4, <2>1 DEF RowRec
  <2>3. \A j \in pushed : Open(j)
    BY <1>4 DEF PushBack
  <2>4. ASSUME NEW j \in Rows PROVE Kept(j)
    <3>1. row[j] \in RowRec /\ (row[j].status = "sent" => delivered[j] > 0)
      BY <1>0 DEF CommInv
    <3>2. CASE j = i /\ StillSending(i)
      <4>1. row'[j] = [row[j] EXCEPT !.status = "sent", !.age = 0]
        BY <1>4, <3>2
      <4> QED
        BY <1>1, <3>1, <3>2, <4>1 DEF Kept, StillSending, RowRec
    <3>3. CASE ~(j = i /\ StillSending(i)) /\ j \in pushed
      <4>1. row'[j] = [row[j] EXCEPT !.due = FALSE]
        BY <1>4, <3>3
      <4> QED
        BY <2>3, <3>1, <3>3, <4>1 DEF Kept, Open, RowRec
    <3>4. CASE ~(j = i /\ StillSending(i)) /\ j \notin pushed
      <4>1. row'[j] = row[j]
        BY <1>4, <3>4
      <4> QED
        BY <3>1, <4>1 DEF Kept, RowRec
    <3> QED
      BY <3>2, <3>3, <3>4
  <2>5. ASSUME NEW v \in Workers \ {w}, HoldsTimed(v)
        PROVE  row'[worker[v].id] = row[worker[v].id]
    <3>1. worker[v].id \in Rows /\ row[worker[v].id].status = "sending"
      BY <2>5 DEF CommInv, WorkerOK, HoldsTimed, Holding
    <3>2. worker[v].id \notin pushed
      BY <2>3, <3>1 DEF Open
    <3>3. worker[v].id # i
      BY <1>1, <2>5 DEF CommInv, OneSender, HoldsTimed, Holding, At
    <3> QED
      BY <1>4, <3>1, <3>2, <3>3
  <2> QED
    BY <1>0, <1>1, <1>2, <2>2, <2>4, <2>5, LetGo
<1> QED
  BY <1>3, <1>4 DEF MarkSent

\* Marking the row failed or dead.
LEMMA MarkFailedStep ==
    ASSUME CommInv, NEW w \in Workers, MarkFailed(w)
    PROVE  CommInv'
<1> DEFINE i == worker[w].id
<1>0. /\ row \in [Rows -> RowRec] /\ worker \in [Workers -> LoopRec]
      /\ cancelled \subseteq Workers /\ CommTypeOK
  BY Shapes DEF CommInv
<1>1. /\ At(w, "markfailed") /\ i \in Rows
      /\ faults' \in 0..MaxFaults
      /\ worker' = [worker EXCEPT ![w] = Loop("loop", worker[w].todo)]
      /\ UNCHANGED <<used, acked, cancelled, delivered>>
  BY <1>0, FaultsType DEF MarkFailed, Goto, CommInv, WorkerOK, At
<1>2. /\ Loop("loop", worker[w].todo) \in LoopRec
      /\ Loop("loop", worker[w].todo).pc = "loop"
  BY GotoType
<1>3. CASE row' = row
  BY <1>0, <1>1, <1>2, <1>3, LetGoOnly
<1>4. CASE /\ StillSending(i)
           /\ row' = [row EXCEPT ![i].status = IF Dead(w) THEN "dead" ELSE "failed",
                                 ![i].due = Dead(w), ![i].age = 0]
  <2>1. 0 \in 0..(StaleAfter + 1) /\ Dead(w) \in BOOLEAN
    BY CommAssumption DEF Dead
  <2>2. PICK s \in {"dead", "failed"}, d \in BOOLEAN :
          row' = [row EXCEPT ![i].status = s, ![i].due = d, ![i].age = 0]
    BY <1>4, <2>1
  <2>3. PICK r \in RowRec : r = row[i]
    BY <1>0, <1>1
  <2>4. PICK n \in RowRec :
          /\ n = [r EXCEPT !.status = s, !.due = d, !.age = 0]
          /\ n.status = s /\ n.ch = r.ch /\ n.ev = r.ev /\ n.attempts = r.attempts
    <3>1. [r EXCEPT !.status = s, !.due = d, !.age = 0] \in RowRec
      BY <2>1 DEF RowRec
    <3> QED
      BY <3>1 DEF RowRec
  <2>5. row' = [row EXCEPT ![i] = n]
    BY <1>0, <1>1, <2>2, <2>3, <2>4
  <2>6. row' \in [Rows -> RowRec] /\ row'[i] = n /\ \A j \in Rows \ {i} : row'[j] = row[j]
    BY <1>0, <1>1, <2>5
  <2>7. ASSUME NEW j \in Rows PROVE Kept(j)
    <3>1. row[j] \in RowRec /\ row[j].attempts \in Nat
          /\ (row[j].status = "sent" => delivered[j] > 0)
      BY <1>0 DEF CommInv, RowRec
    <3>2. CASE j = i
      BY <1>4, <2>3, <2>4, <2>6, <3>1, <3>2 DEF Kept, StillSending
    <3>3. CASE j # i
      BY <2>6, <3>1, <3>3 DEF Kept
    <3> QED
      BY <3>2, <3>3
  <2>8. ASSUME NEW v \in Workers \ {w}, HoldsTimed(v)
        PROVE  row'[worker[v].id] = row[worker[v].id]
    <3>1. worker[v].id \in Rows
      BY <2>8 DEF CommInv, WorkerOK, HoldsTimed, Holding
    <3>2. worker[v].id # i
      BY <1>1, <2>8 DEF CommInv, OneSender, HoldsTimed, Holding, At
    <3> QED
      BY <2>6, <3>1, <3>2
  <2> QED
    BY <1>0, <1>1, <1>2, <2>6, <2>7, <2>8, LetGo
<1> QED
  BY <1>3, <1>4 DEF MarkFailed

-----------------------------------------------------------------------------
(* Steps of no worker.                                                     *)

\* Time passes for claims and for the workers that hold them alike.
LEMMA TickStep ==
    ASSUME CommInv, Tick
    PROVE  CommInv'
<1>0. /\ row \in [Rows -> RowRec] /\ worker \in [Workers -> LoopRec]
      /\ used \in 0..MaxRows /\ acked \subseteq Events
      /\ cancelled \subseteq Workers /\ delivered \in [Rows -> Nat]
      /\ faults \in 0..MaxFaults
  BY Shapes DEF CommInv
<1>1. UNCHANGED <<used, acked, cancelled, delivered, faults>>
  BY DEF Tick
<1>2. ASSUME NEW i \in Rows
      PROVE  /\ row'[i] \in RowRec
             /\ row'[i].ch = row[i].ch /\ row'[i].ev = row[i].ev
             /\ row'[i].status = row[i].status /\ row'[i].attempts = row[i].attempts
             /\ row'[i].age <= row[i].age + 1
  <2>0. row[i] \in RowRec /\ row[i].age \in 0..(StaleAfter + 1)
    BY <1>0 DEF RowRec
  <2>1. CASE row[i].status = "sending" /\ row[i].age <= StaleAfter
    <3>1. PICK r \in RowRec : r = row[i]
      BY <2>0
    <3>2. PICK g \in 0..(StaleAfter + 1) : g = row[i].age + 1
      BY <2>0, <2>1, CommAssumption
    <3>3. row'[i] = [r EXCEPT !.age = g]
      BY <2>1, <3>1, <3>2 DEF Tick
    <3>4. /\ [r EXCEPT !.age = g] \in RowRec
          /\ [r EXCEPT !.age = g].age = g /\ [r EXCEPT !.age = g].ch = r.ch
          /\ [r EXCEPT !.age = g].ev = r.ev /\ [r EXCEPT !.age = g].status = r.status
          /\ [r EXCEPT !.age = g].attempts = r.attempts
      BY DEF RowRec
    <3> QED
      BY <3>1, <3>2, <3>3, <3>4
  <2>2. CASE ~(row[i].status = "sending" /\ row[i].age <= StaleAfter)
    <3>1. row'[i] = row[i]
      BY <2>2 DEF Tick
    <3> QED
      BY <2>0, <3>1, CommAssumption
  <2> QED
    BY <2>1, <2>2
<1>3. row' \in [Rows -> RowRec]
  <2>1. row' = [i \in Rows |-> row'[i]]
    BY DEF Tick
  <2> QED
    BY <1>2, <2>1
<1>4. ASSUME NEW w \in Workers
      PROVE  /\ worker'[w] \in LoopRec
             /\ worker'[w].pc = worker[w].pc /\ worker'[w].id = worker[w].id
             /\ HoldsTimed(w) => worker'[w].held = worker[w].held + 1
  <2>0. worker[w] \in LoopRec /\ worker[w].held \in 0..MaxHold
    BY <1>0 DEF LoopRec
  <2>1. CASE HoldsTimed(w)
    <3>1. PICK r \in LoopRec : r = worker[w]
      BY <2>0
    <3>2. PICK g \in 0..MaxHold : g = worker[w].held + 1
      BY <2>0, <2>1, CommAssumption DEF Tick
    <3>3. worker'[w] = [r EXCEPT !.held = g]
      BY <2>1, <3>1, <3>2 DEF Tick
    <3>4. /\ [r EXCEPT !.held = g] \in LoopRec
          /\ [r EXCEPT !.held = g].held = g /\ [r EXCEPT !.held = g].pc = r.pc
          /\ [r EXCEPT !.held = g].id = r.id
      BY DEF LoopRec
    <3> QED
      BY <3>1, <3>2, <3>3, <3>4
  <2>2. CASE ~HoldsTimed(w)
    BY <2>0, <2>2 DEF Tick
  <2> QED
    BY <2>1, <2>2
<1>5. worker' \in [Workers -> LoopRec]
  <2>1. worker' = [w \in Workers |-> worker'[w]]
    BY DEF Tick
  <2> QED
    BY <1>4, <2>1
<1>6. CommTypeOK'
  BY <1>0, <1>1, <1>3, <1>5 DEF CommTypeOK, RowRec, LoopRec
<1>7. Unused'
  BY <1>1, <1>2 DEF CommInv, Unused
<1>8. ASSUME NEW w \in Workers PROVE HoldsTimed(w)' <=> HoldsTimed(w)
  <2>1. Holding(w) => worker[w].id \in Rows
    BY DEF CommInv, WorkerOK, Holding
  <2> QED
    BY <1>2, <1>4, <2>1 DEF HoldsTimed, Holding
<1>9. ASSUME NEW w \in Workers PROVE WorkerOK(w)'
  <2>0. WorkerOK(w)
    BY DEF CommInv
  <2>1. worker'[w].pc = worker[w].pc /\ worker'[w].id = worker[w].id
    BY <1>4
  <2>2. Holding(w)' => worker[w].id \in Rows /\ row'[worker[w].id].status # "none"
    BY <1>2, <2>0, <2>1 DEF WorkerOK, Holding
  <2>3. HoldsTimed(w)' => /\ row'[worker[w].id].status = "sending"
                          /\ row'[worker[w].id].age <= worker'[w].held
    <3> SUFFICES ASSUME HoldsTimed(w)' PROVE /\ row'[worker[w].id].status = "sending"
                                            /\ row'[worker[w].id].age <= worker'[w].held
      OBVIOUS
    <3>1. HoldsTimed(w) /\ worker[w].id \in Rows
      BY <1>8, <2>2 DEF HoldsTimed
    <3>2. row[worker[w].id].status = "sending" /\ row[worker[w].id].age <= worker[w].held
      BY <2>0, <3>1 DEF WorkerOK
    <3>3. row[worker[w].id].age \in Nat /\ row'[worker[w].id].age \in Nat
          /\ worker[w].held \in Nat
      BY <1>0, <1>3, <3>1, CommAssumption DEF RowRec, LoopRec
    <3> QED
      BY <1>2, <1>4, <3>1, <3>2, <3>3
  <2> QED
    BY <1>1, <2>0, <2>1, <2>2, <2>3 DEF WorkerOK, At
<1>10. OneSender'
  BY <1>4, <1>8 DEF CommInv, OneSender
<1>11. ASSUME NEW i \in Rows PROVE Paid(i)'
  <2>1. Senders(i)' = Senders(i)
    BY <1>4 DEF Senders, At
  <2> QED
    BY <1>1, <1>2, <2>1 DEF CommInv, Paid
<1>12. \A i \in Rows : row'[i].status = "sent" => delivered'[i] > 0
  BY <1>1, <1>2 DEF CommInv
<1>13. AckedIsQueued'
  BY <1>1, <1>2 DEF CommInv, AckedIsQueued, Queued
<1> QED
  BY <1>6, <1>7, <1>9, <1>10, <1>11, <1>12, <1>13 DEF CommInv

\* A row is filled that no worker can have in hand.
LEMMA EnqueueStep ==
    ASSUME CommInv, NEW e \in Events, NEW c \in Channels, Enqueue(e, c),
           \/ acked' = acked
           \/ acked' = acked \cup {e} /\ \A d \in Recipients[e] : d = c,
           UNCHANGED <<worker, cancelled, delivered, faults>>
    PROVE  CommInv'
<1> DEFINE u == used + 1
<1>0. /\ row \in [Rows -> RowRec] /\ worker \in [Workers -> LoopRec]
      /\ used \in 0..MaxRows /\ acked \subseteq Events
      /\ cancelled \subseteq Workers /\ delivered \in [Rows -> Nat]
      /\ faults \in 0..MaxFaults
  BY Shapes DEF CommInv
<1>1. u \in Rows /\ u > used /\ used' = u /\ used' \in 0..MaxRows
  BY <1>0, CommAssumption DEF Enqueue, Rows
<1>2. PICK n \in RowRec : /\ n = Row(e, c) /\ n.status = "pending"
                          /\ n.attempts = 0 /\ n.ev = e /\ n.ch = c
  BY RowType
<1>3. row' = [row EXCEPT ![u] = n]
  BY <1>2 DEF Enqueue
<1> HIDE DEF u
<1>4. /\ row' \in [Rows -> RowRec] /\ row'[u] = n
      /\ \A j \in Rows \ {u} : row'[j] = row[j]
  BY <1>0, <1>1, <1>3
<1>5. row[u].status = "none" /\ row[u].attempts = 0
  BY <1>1 DEF CommInv, Unused
<1>6. CommTypeOK'
  <2>1. acked' \subseteq Events
    BY <1>0
  <2> QED
    BY <1>0, <1>1, <1>4, <2>1 DEF CommTypeOK, RowRec, LoopRec
<1>7. Unused'
  <2>1. ASSUME NEW j \in Rows
        PROVE  /\ j > used' => row'[j].status = "none"
               /\ row'[j].status = "none" => row'[j].attempts = 0
    <3>1. j > used' => j # u /\ j > used
      BY <1>0, <1>1 DEF Rows
    <3> QED
      BY <1>2, <1>4, <3>1 DEF CommInv, Unused
  <2> QED
    BY <2>1 DEF Unused
<1>8. ASSUME NEW w \in Workers, Holding(w)
      PROVE  worker[w].id \in Rows /\ worker[w].id # u
             /\ row'[worker[w].id] = row[worker[w].id]
  BY <1>4, <1>5, <1>8 DEF CommInv, WorkerOK, Holding
<1>9. ASSUME NEW w \in Workers
      PROVE  (Holding(w)' <=> Holding(w)) /\ (HoldsTimed(w)' <=> HoldsTimed(w))
  <2>1. Holding(w)' <=> Holding(w)
    BY DEF Holding
  <2> QED
    BY <1>8, <2>1 DEF HoldsTimed
<1>10. ASSUME NEW w \in Workers PROVE WorkerOK(w)'
  <2>1. WorkerOK(w)
    BY DEF CommInv
  <2>2. HoldsTimed(w) => Holding(w)
    BY DEF HoldsTimed
  <2> QED
    BY <1>8, <1>9, <2>1, <2>2 DEF WorkerOK, At
<1>11. OneSender'
  BY <1>9 DEF CommInv, OneSender
<1>12. ASSUME NEW i \in Rows PROVE Paid(i)' /\ (row'[i].status = "sent" => delivered'[i] > 0)
  <2>1. Senders(i)' = Senders(i)
    BY DEF Senders, At
  <2>2. IsFiniteSet(Senders(i)) /\ Cardinality(Senders(i)) \in Nat
        /\ delivered[i] + Cardinality(Senders(i)) <= row[i].attempts
    BY FS_CardinalityType DEF CommInv, Paid
  <2>3. CASE i = u
    BY <1>2, <1>4, <1>5, <2>1, <2>2, <2>3 DEF Paid
  <2>4. CASE i # u
    BY <1>4, <2>1, <2>2, <2>4 DEF Paid, CommInv
  <2> QED
    BY <2>3, <2>4
<1>13. AckedIsQueued'
  <2> SUFFICES ASSUME NEW f \in acked' \ (PodEvents \cup Looked), NEW d \in Recipients[f]
               PROVE  Queued(f, d)'
    BY DEF AckedIsQueued
  <2>1. CASE f \in acked
    <3>1. PICK i \in Rows : row[i].status # "none" /\ row[i].ev = f /\ row[i].ch = d
      BY <2>1 DEF CommInv, AckedIsQueued, Queued
    <3>2. i # u
      BY <1>5, <3>1
    <3> QED
      BY <1>4, <3>1, <3>2 DEF Queued
  <2>2. CASE f \notin acked
    <3>1. f = e /\ d = c
      BY <2>2
    <3> QED
      BY <1>1, <1>2, <1>4, <3>1 DEF Queued
  <2> QED
    BY <2>1, <2>2
<1> QED
  BY <1>6, <1>7, <1>10, <1>11, <1>12, <1>13 DEF CommInv

\* A handler that stores nothing reports a failure, or swallows it.
LEMMA NothingQueued ==
    ASSUME CommInv, NEW e \in Events, faults' \in 0..MaxFaults,
           \/ acked' = acked
           \/ acked' = acked \cup {e} /\ e \in PodEvents \cup Looked,
           UNCHANGED <<row, used, worker, cancelled, delivered>>
    PROVE  CommInv'
<1>1. CommTypeOK' /\ acked' \ (PodEvents \cup Looked) \subseteq acked \ (PodEvents \cup Looked)
  BY DEF CommInv, CommTypeOK
<1>2. AckedIsQueued'
  BY <1>1 DEF CommInv, AckedIsQueued, Queued
<1> QED
  BY <1>1, <1>2 DEF CommInv, Unused, WorkerOK, Holding, HoldsTimed, At,
                    OneSender, Paid, Senders

\* The event handlers.
LEMMA HandlerStep ==
    ASSUME CommInv, NEW e \in Events, HandleEvent(e) \/ HandlePODEvent(e)
    PROVE  CommInv'
<1>0. Recipients[e] \subseteq Channels /\ CommTypeOK
  BY CommAssumption DEF CommInv
<1>1. CASE HandlePODEvent(e)
  <2>1. CASE /\ \E c \in Recipients[e] : Enqueue(e, c)
             /\ UNCHANGED <<acked, worker, cancelled, delivered, faults>>
    BY <1>0, <2>1, EnqueueStep
  <2>2. CASE /\ acked' = acked \cup {e}
             /\ Fault \/ UNCHANGED faults
             /\ UNCHANGED <<row, used, worker, cancelled, delivered>>
    <3>1. faults' \in 0..MaxFaults /\ e \in PodEvents
      BY <1>0, <1>1, <2>2, FaultsType DEF HandlePODEvent
    <3> QED
      BY <2>2, <3>1, NothingQueued
  <2> QED
    BY <1>1, <2>1, <2>2 DEF HandlePODEvent
<1>2. CASE HandleEvent(e)
  <2>1. CASE /\ \E c \in Recipients[e] : Enqueue(e, c)
             /\ acked' = acked \cup {e}
             /\ UNCHANGED <<worker, cancelled, delivered, faults>>
    <3>1. PICK c \in Recipients[e] : Enqueue(e, c)
      BY <2>1
    <3>2. e \notin PodEvents
      BY <1>2 DEF HandleEvent
    <3>3. c \in Channels /\ \A d \in Recipients[e] : d = c
      BY <1>0, <3>2, CommAssumption
    <3> QED
      BY <2>1, <3>1, <3>3, EnqueueStep
  <2>2. CASE /\ acked' = acked \/ (acked' = acked \cup {e} /\ e \in Looked)
             /\ Fault
             /\ UNCHANGED <<row, used, worker, cancelled, delivered>>
    <3>1. faults' \in 0..MaxFaults
      BY <1>0, <2>2, FaultsType
    <3> QED
      BY <2>2, <3>1, NothingQueued
  <2> QED
    BY <1>2, <2>1, <2>2 DEF HandleEvent, EnqueueFailed
<1> QED
  BY <1>1, <1>2

\* A context is cancelled.
LEMMA CancelStep ==
    ASSUME CommInv, NEW w \in Workers, Cancel(w)
    PROVE  CommInv'
<1>1. faults' \in 0..MaxFaults /\ cancelled' \subseteq Workers
      /\ UNCHANGED <<row, used, acked, worker, delivered>>
  BY FaultsType DEF CommInv, CommTypeOK, Cancel
<1> QED
  BY <1>1 DEF CommInv, CommTypeOK, Unused, WorkerOK, Holding, HoldsTimed, At,
              OneSender, Paid, Senders, AckedIsQueued, Queued

\* next_attempt_at passes: nothing the invariant speaks of changes.
LEMMA DueStep ==
    ASSUME CommInv, NEW i \in Rows, BecomesDue(i)
    PROVE  CommInv'
<1>0. row \in [Rows -> RowRec]
  BY Shapes DEF CommInv
<1>1. row' = [row EXCEPT ![i].due = TRUE]
      /\ UNCHANGED <<used, acked, worker, cancelled, delivered, faults>>
  BY DEF BecomesDue
<1>2. row' \in [Rows -> RowRec]
  BY <1>0, <1>1 DEF RowRec
<1>3. \A j \in Rows : /\ row'[j].ch = row[j].ch /\ row'[j].ev = row[j].ev
                      /\ row'[j].status = row[j].status /\ row'[j].age = row[j].age
                      /\ row'[j].attempts = row[j].attempts
  BY <1>0, <1>1 DEF RowRec
<1>4. CommTypeOK'
  BY <1>1, <1>2 DEF CommInv, CommTypeOK, RowRec
<1>5. ASSUME NEW w \in Workers
      PROVE  WorkerOK(w)' /\ (HoldsTimed(w)' <=> HoldsTimed(w))
  <2>1. WorkerOK(w) /\ (Holding(w)' <=> Holding(w)) /\ (Holding(w) => worker[w].id \in Rows)
    BY <1>1 DEF CommInv, WorkerOK, Holding
  <2>2. HoldsTimed(w)' <=> HoldsTimed(w)
    BY <1>1, <1>3, <2>1 DEF HoldsTimed
  <2>3. HoldsTimed(w) => Holding(w)
    BY DEF HoldsTimed
  <2> QED
    BY <1>1, <1>3, <2>1, <2>2, <2>3 DEF WorkerOK, At
<1>6. \A j \in Rows : Senders(j)' = Senders(j)
  BY <1>1 DEF Senders, At
<1> QED
  BY <1>1, <1>3, <1>4, <1>5, <1>6 DEF CommInv, Unused, OneSender, Paid, AckedIsQueued, Queued

-----------------------------------------------------------------------------
\* Every step keeps the invariant.
LEMMA CommInvStep == CommInv /\ [Next]_vars => CommInv'
<1> SUFFICES ASSUME CommInv, [Next]_vars PROVE CommInv'
  OBVIOUS
<1>1. CASE UNCHANGED vars
  BY <1>1 DEF vars, CommInv, CommTypeOK, Unused, WorkerOK, Holding, HoldsTimed, At,
              OneSender, Paid, Senders, AckedIsQueued, Queued
<1>2. CASE \E e \in Events : HandleEvent(e) \/ HandlePODEvent(e)
  BY <1>2, HandlerStep
<1>3. ASSUME NEW w \in Workers,
             \/ Start(w) \/ ReapStale(w) \/ Poll(w) \/ ReadAttempts(w) \/ RoundEnds(w)
             \/ Claim(w) \/ Send(w) \/ MarkSent(w) \/ MarkFailed(w) \/ Stop(w)
             \/ Cancel(w) \/ Crash(w) \/ Restart(w)
      PROVE  CommInv'
  BY <1>3, LoopStep, ReapStep, ClaimStep, SendStep, MarkSentStep, MarkFailedStep,
     CancelStep
<1>4. CASE Tick
  BY <1>4, TickStep
<1>5. CASE \E i \in Rows : BecomesDue(i)
  BY <1>5, DueStep
<1> QED
  BY <1>1, <1>2, <1>3, <1>4, <1>5 DEF Next

\* The invariant holds in every state.
LEMMA CommInvAlways == Spec => []CommInv
<1>1. Init => CommInv
  BY CommInvInit
<1>2. CommInv /\ [Next]_vars => CommInv'
  BY CommInvStep
<1> QED
  BY <1>1, <1>2, PTL DEF Spec

\* The table and the loops keep their shape, whatever fails.
THEOREM CommTypeTheorem == Spec => []CommTypeOK
<1>1. CommInv => CommTypeOK
  BY DEF CommInv
<1> QED
  BY <1>1, CommInvAlways, PTL

\* No two workers send the same row at a time, however many leases overlap,
\* as long as the sender keeps to a deadline no longer than the reaper's.
THEOREM OneSenderTheorem == Spec => []OneSender
<1>1. CommInv => OneSender
  BY DEF CommInv
<1> QED
  BY <1>1, CommInvAlways, PTL

\* A row marked sent was delivered, and a row is delivered no more often than
\* it was claimed.
THEOREM SentWasDeliveredTheorem == Spec => []SentWasDelivered
<1>1. CommInv => SentWasDelivered
  <2> SUFFICES ASSUME CommInv, NEW i \in Rows PROVE delivered[i] <= row[i].attempts
    BY DEF CommInv, SentWasDelivered
  <2>1. delivered[i] \in Nat /\ row[i].attempts \in Nat
    BY Shapes DEF CommInv, RowRec
  <2>2. /\ Cardinality(Senders(i)) \in Nat
        /\ delivered[i] + Cardinality(Senders(i)) <= row[i].attempts
    BY FS_CardinalityType DEF CommInv, Paid
  <2> QED
    BY <2>1, <2>2
<1> QED
  BY <1>1, CommInvAlways, PTL

\* An event that carries its tenant and recipient, and whose handler reported
\* success, has its message in the queue.
THEOREM AckedIsQueuedTheorem == Spec => []AckedIsQueued
<1>1. CommInv => AckedIsQueued
  BY DEF CommInv
<1> QED
  BY <1>1, CommInvAlways, PTL

\* No statement of a step changes the status of a row that was sent or given up.
LEMMA FinalStep ==
    ASSUME CommInv, [Next]_vars, NEW i \in Rows, Final(i)
    PROVE  row'[i].status = row[i].status
<1>0. /\ row \in [Rows -> RowRec] /\ row[i].status \in {"sent", "dead"}
      /\ ~Open(i) /\ ~StillSending(i) /\ ~Stale(i)
  BY Shapes DEF CommInv, Final, Open, StillSending, Stale
<1>1. CASE UNCHANGED row
  BY <1>1
<1>2. ASSUME NEW e \in Events, HandleEvent(e) \/ HandlePODEvent(e)
      PROVE  row'[i].status = row[i].status
  <2>1. i # used + 1
    BY <1>0 DEF CommInv, CommTypeOK, Unused, Rows
  <2> QED
    BY <1>0, <1>2, <2>1 DEF HandleEvent, HandlePODEvent, Enqueue
<1>3. ASSUME NEW w \in Workers, ReapStale(w) PROVE row'[i].status = row[i].status
  BY <1>0, <1>3 DEF ReapStale
<1>4. ASSUME NEW w \in Workers, Claim(w) PROVE row'[i].status = row[i].status
  <2>1. CASE Claimable(worker[w].id) /\ SetSending(worker[w].id)
    <3>1. i # worker[w].id
      BY <1>0, <2>1 DEF Claimable
    <3> QED
      BY <1>0, <2>1, <3>1 DEF SetSending
  <2> QED
    BY <1>4, <2>1 DEF Claim
<1>5. ASSUME NEW w \in Workers, MarkSent(w) PROVE row'[i].status = row[i].status
  <2>1. CASE UNCHANGED row
    BY <2>1
  <2>2. ASSUME NEW pushed \in {{}, {j \in Rows : PushBack(worker[w].id, j)}},
               row' = [j \in Rows |->
                         IF j = worker[w].id /\ StillSending(worker[w].id)
                         THEN [row[j] EXCEPT !.status = "sent", !.age = 0]
                         ELSE IF j \in pushed THEN [row[j] EXCEPT !.due = FALSE]
                         ELSE row[j]]
        PROVE  row'[i].status = row[i].status
    <3>1. i \notin pushed /\ ~(i = worker[w].id /\ StillSending(worker[w].id))
      BY <1>0, <2>2 DEF PushBack
    <3> QED
      BY <2>2, <3>1
  <2> QED
    BY <1>5, <2>1, <2>2 DEF MarkSent
<1>6. ASSUME NEW w \in Workers, MarkFailed(w) PROVE row'[i].status = row[i].status
  <2>1. ~StillSending(worker[w].id) \/ i # worker[w].id
    BY <1>0
  <2> QED
    BY <1>0, <1>6, <2>1 DEF MarkFailed
<1>7. CASE Tick
  BY <1>0, <1>7 DEF Tick
<1>8. ASSUME NEW j \in Rows, BecomesDue(j) PROVE row'[i].status = row[i].status
  <2>1. i # j
    BY <1>0, <1>8 DEF BecomesDue
  <2> QED
    BY <1>0, <1>8, <2>1 DEF BecomesDue
<1>9. ASSUME NEW w \in Workers,
             \/ Start(w) \/ Poll(w) \/ ReadAttempts(w) \/ RoundEnds(w) \/ Send(w)
             \/ Stop(w) \/ Cancel(w) \/ Crash(w) \/ Restart(w)
      PROVE  UNCHANGED row
  BY <1>9 DEF Start, Poll, ReadAttempts, RoundEnds, Send, Stop, Cancel, Crash, Restart
<1>10. CASE UNCHANGED vars
  BY <1>10 DEF vars
<1> QED
  BY <1>1, <1>2, <1>3, <1>4, <1>5, <1>6, <1>7, <1>8, <1>9, <1>10 DEF Next

\* A message that was sent or given up stays so: no late worker, reaper or
\* claim opens its row again.
THEOREM FinalTheorem == Spec => FinalStaysFinal
<1>1. CommInv /\ [Next]_vars =>
        [\A i \in Rows : Final(i) => row'[i].status = row[i].status]_vars
  BY FinalStep
<1> QED
  BY <1>1, CommInvAlways, PTL DEF Spec, FinalStaysFinal

=============================================================================
