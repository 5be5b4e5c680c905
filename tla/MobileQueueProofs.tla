-------------------------- MODULE MobileQueueProofs --------------------------
(***************************************************************************)
(* Proofs about MobileQueue for every set of accounts, claims and PODs,    *)
(* any number of concurrent flushes and server requests, and every order   *)
(* of sign-outs, lost connections, restarts and expiries.                  *)
(***************************************************************************)
EXTENDS MobileQueue, SequenceTheorems, TLAPS

\* What the server has of item i.
Known(i) == (i \in Claims /\ InExpenses(i)) \/ (i \in Pods /\ i \in delivered)

HandlerRec(row) ==
  [st : {"free", "check", "insert", "ok", "error"},
   from : Flushes \cup Items \cup {NoOne}, row : {row}, acct : Owners]

\* A request of a screen is about that screen's item, only claims are inserted,
\* and a request is answered with success once the server has its item.
HandlerOK(j) ==
  /\ j \in HandlerRec(j.row)
  /\ j.from \in Items => j.row.item = j.from
  /\ j.st = "insert" => j.row.item \in Claims
  /\ j.st = "ok" => Known(j.row.item)

RowsOK(q) ==
  /\ q = [t \in Tables |-> q[t]]
  /\ \A r \in q["pods"] : r.item \in Pods /\ r.owner \in Owners
  /\ \A r \in q["expenses"] : r.item \in Claims /\ r.owner \in Owners

MobileInv ==
  /\ session \in Owners
  /\ RowsOK(queue)
  /\ handler = [h \in Handlers |-> handler[h]]
  /\ \A h \in Handlers : HandlerOK(handler[h])
  /\ \E S : expenses \in Seq(S)
  /\ RecordedOnce

-----------------------------------------------------------------------------
LEMMA FreeOK ==
  Free.st = "free" /\ Free.from = NoOne /\ HandlerOK(Free)
<1>1. Free \in HandlerRec(Free.row) /\ Free.st = "free" /\ Free.from = NoOne
  BY DEF Free, HandlerRec, Owners
<1> QED
  BY <1>1, MobileAssumption DEF HandlerOK, Items

LEMMA MobileInit == Init => MobileInv
<1> SUFFICES ASSUME Init PROVE MobileInv
  OBVIOUS
<1>1. RowsOK(queue)
  BY DEF Init, RowsOK, Tables
<1>2. expenses \in Seq({}) /\ RecordedOnce
  BY DEF Init, RecordedOnce
<1> QED
  BY <1>1, <1>2, FreeOK DEF Init, MobileInv

\* Items are claims or PODs, and a row is in the table of its item.
LEMMA Places ==
  /\ Claims \cap Pods = {} /\ Items = Claims \cup Pods
  /\ \A i \in Claims : TableOf(i) = "expenses"
  /\ \A i \in Pods : TableOf(i) = "pods"
  BY MobileAssumption DEF Items, TableOf

\* Recording one more claim loses none.
LEMMA Recorded ==
  ASSUME NEW S, expenses \in Seq(S), NEW c, NEW a,
         expenses' = InsertedExpense(c, a)
  PROVE  /\ \E T : expenses' \in Seq(T)
         /\ \A d : InExpenses(d) => InExpenses(d)'
         /\ InExpenses(c)'
         /\ RecordedOnce => RecordedOnce'
<1>1. CASE InExpenses(c)
  BY <1>1 DEF InsertedExpense, InExpenses, RecordedOnce
<1>2. CASE ~InExpenses(c)
  <2> DEFINE x == [item |-> c, acct |-> a]
             T == S \cup {x}
  <2>1. x.item = c
    OBVIOUS
  <2> HIDE DEF x
  <2>2. expenses' = Append(expenses, x)
    BY <1>2 DEF InsertedExpense, x
  <2>3. expenses \in Seq(T) /\ x \in T
    BY SeqMonotonic
  <2> HIDE DEF T
  <2>4. /\ expenses' \in Seq(T) /\ Len(expenses) \in Nat
        /\ DOMAIN expenses = 1..Len(expenses)
        /\ DOMAIN expenses' = 1..(Len(expenses) + 1)
        /\ expenses'[Len(expenses) + 1] = x
        /\ \A n \in 1..Len(expenses) : expenses'[n] = expenses[n]
    BY <2>2, <2>3
  <2>5. \A d : InExpenses(d) => InExpenses(d)'
    BY <2>4 DEF InExpenses
  <2>6. InExpenses(c)'
    BY <2>1, <2>4 DEF InExpenses
  <2>7. RecordedOnce => RecordedOnce'
    <3> SUFFICES ASSUME RecordedOnce,
                        NEW m \in DOMAIN expenses', NEW n \in DOMAIN expenses',
                        expenses'[m].item = expenses'[n].item
                 PROVE  m = n
      BY DEF RecordedOnce
    <3>1. \A k \in 1..Len(expenses) : expenses'[k].item # c
      BY <1>2, <2>4 DEF InExpenses
    <3>2. CASE m = Len(expenses) + 1 \/ n = Len(expenses) + 1
      BY <2>1, <2>4, <3>1, <3>2
    <3>3. CASE m \in 1..Len(expenses) /\ n \in 1..Len(expenses)
      BY <2>4, <3>3 DEF RecordedOnce
    <3> QED
      BY <2>4, <3>2, <3>3
  <2> QED
    BY <2>4, <2>5, <2>6, <2>7
<1> QED
  BY <1>1, <1>2

-----------------------------------------------------------------------------
(* What a step may do.                                                     *)

\* What the server has and what has expired is never taken back.
Grows ==
  /\ \A d : InExpenses(d) => InExpenses(d)'
  /\ delivered \subseteq delivered' /\ expired \subseteq expired'

\* A request of the right shape after the step.
Sound(j) ==
  /\ j \in HandlerRec(j.row)
  /\ j.from \in Items => j.row.item = j.from
  /\ j.st = "insert" => j.row.item \in Claims
  /\ j.st = "ok" => \/ j.row.item \in Claims /\ InExpenses(j.row.item)'
                    \/ j.row.item \in Pods /\ j.row.item \in delivered'

\* One request moves.
LEMMA OneHandler ==
  ASSUME MobileInv, Grows, NEW h \in Handlers, NEW j, Sound(j),
         handler' = [handler EXCEPT ![h] = j]
  PROVE  /\ handler' = [k \in Handlers |-> handler'[k]]
         /\ \A k \in Handlers : HandlerOK(handler[k])'
<1>1. handler = [k \in Handlers |-> handler[k]] /\ \A k \in Handlers : HandlerOK(handler[k])
  BY DEF MobileInv
<1>2. handler'[h] = j /\ \A k \in Handlers \ {h} : handler'[k] = handler[k]
  BY <1>1
<1>3. handler' = [k \in Handlers |-> handler'[k]]
  BY <1>1
<1>4. ASSUME NEW k \in Handlers PROVE HandlerOK(handler[k])'
  <2>1. CASE k = h
    BY <1>2, <2>1 DEF HandlerOK, HandlerRec, Known, Sound
  <2>2. CASE k # h
    BY <1>1, <1>2, <2>2 DEF HandlerOK, HandlerRec, Known, Grows
  <2> QED
    BY <2>1, <2>2
<1> QED
  BY <1>3, <1>4

\* No request moves.
LEMMA NoHandler ==
  ASSUME MobileInv, Grows, UNCHANGED handler
  PROVE  /\ handler' = [k \in Handlers |-> handler'[k]]
         /\ \A k \in Handlers : HandlerOK(handler[k])'
  BY DEF MobileInv, HandlerOK, HandlerRec, Known, Grows

\* A request is done; when it succeeded, the server has the item.
LEMMA DoneSound ==
  ASSUME MobileInv, Grows, NEW h \in Handlers, NEW st \in {"ok", "error"}, Done(h, st),
         NEW i, i = handler[h].row.item,
         st = "ok" => (i \in Claims /\ InExpenses(i)') \/ (i \in Pods /\ i \in delivered')
  PROVE  /\ handler' = [k \in Handlers |-> handler'[k]]
         /\ \A k \in Handlers : HandlerOK(handler[k])'
<1>1. handler = [k \in Handlers |-> handler[k]] /\ HandlerOK(handler[h])
  BY DEF MobileInv
<1>2. CASE handler[h].from = NoOne
  <2>1. handler' = [handler EXCEPT ![h] = Free]
    BY <1>1, <1>2 DEF Done
  <2>2. Sound(Free)
    BY FreeOK DEF HandlerOK, Sound
  <2> QED
    BY <2>1, <2>2, OneHandler
<1>3. CASE handler[h].from # NoOne
  <2>1. PICK k : k = handler[h] /\ HandlerOK(k) /\ k.from # NoOne /\ k.row.item = i
    BY <1>1, <1>3
  <2> DEFINE j == [k EXCEPT !.st = st]
  <2>2. /\ j \in HandlerRec(k.row) /\ j.st = st /\ j.from = k.from /\ j.row = k.row
    BY <2>1 DEF HandlerOK, HandlerRec
  <2>3. handler' = [handler EXCEPT ![h] = j]
    BY <1>1, <1>3, <2>1 DEF Done
  <2> HIDE DEF j
  <2>4. Sound(j)
    BY <2>1, <2>2 DEF Sound, HandlerOK
  <2> QED
    BY <2>3, <2>4, OneHandler
<1> QED
  BY <1>2, <1>3

\* A request is given to a free handler.
LEMMA RequestSound ==
  ASSUME MobileInv, Grows, NEW from \in Flushes \cup Items, NEW row,
         from \in Items => row.item = from, Request(from, row)
  PROVE  /\ handler' = [k \in Handlers |-> handler'[k]]
         /\ \A k \in Handlers : HandlerOK(handler[k])'
<1> DEFINE j == [st |-> "check", from |-> from, row |-> row, acct |-> session]
<1>1. PICK h \in Handlers : handler' = [handler EXCEPT ![h] = j]
  BY DEF Request
<1>2. Sound(j)
  BY DEF Sound, HandlerRec, MobileInv
<1> HIDE DEF j
<1> QED
  BY <1>1, <1>2, OneHandler

\* What may happen to row r of a claim: it stays, its claim is queued in another
\* row or gone with the 7 days, or the server has it.
RowKept(r) ==
  \/ \E s \in queue'["expenses"] : s.item = r.item /\ s.owner \in Owners
  \/ r.item \in expired'
  \/ InExpenses(r.item)'

\* What QueuedIsKept says of a step.
ClaimsKept ==
  \A c \in Claims : OnPhone(c) => OnPhone(c)' \/ InExpenses(c)' \/ c \in expired'

Keeps == MobileInv' /\ ClaimsKept

\* What a step keeps, in parts.
LEMMA Combine ==
  ASSUME MobileInv, session' \in Owners, RowsOK(queue'),
         handler' = [k \in Handlers |-> handler'[k]],
         \A k \in Handlers : HandlerOK(handler[k])',
         \E S : expenses' \in Seq(S), RecordedOnce',
         \A r \in queue["expenses"] : RowKept(r)
  PROVE  Keeps
<1>1. RowsOK(queue)'
  BY DEF RowsOK
<1>2. ASSUME NEW c \in Claims, OnPhone(c)
      PROVE  OnPhone(c)' \/ InExpenses(c)' \/ c \in expired'
  <2>1. PICK r \in queue["expenses"] : r.item = c
    BY <1>2, Places DEF OnPhone, Queued
  <2>2. RowKept(r)
    BY <2>1
  <2>3. CASE \E s \in queue'["expenses"] : s.item = c /\ s.owner \in Owners
    BY <2>3, Places DEF OnPhone, Queued, TableOf
  <2> QED
    BY <2>1, <2>2, <2>3 DEF RowKept
<1> QED
  BY <1>1, <1>2 DEF MobileInv, Keeps, ClaimsKept

\* Rows that stay are kept.
LEMMA RowsStay ==
  ASSUME MobileInv, queue["expenses"] \subseteq queue'["expenses"]
  PROVE  \A r \in queue["expenses"] : RowKept(r)
  BY DEF MobileInv, RowsOK, RowKept

\* A step that leaves the tables on the phone alone.
LEMMA QueueStays ==
  ASSUME MobileInv, UNCHANGED queue
  PROVE  RowsOK(queue') /\ \A r \in queue["expenses"] : RowKept(r)
  BY RowsStay DEF MobileInv

\* A step that records nothing.
LEMMA ServerStays ==
  ASSUME MobileInv, UNCHANGED <<expenses, delivered>>, expired \subseteq expired'
  PROVE  Grows /\ (\E S : expenses' \in Seq(S)) /\ RecordedOnce'
  BY DEF MobileInv, Grows, InExpenses, RecordedOnce

\* Storing an item on the phone, or failing to.
LEMMA EnqueueKeeps ==
  ASSUME MobileInv, NEW i \in Items, Enqueue(i) \/ EnqueueFails(i)
  PROVE  RowsOK(queue') /\ \A r \in queue["expenses"] : RowKept(r)
<1>0. RowsOK(queue) /\ session \in Owners
  BY DEF MobileInv
<1>1. CASE queue' = queue
  BY <1>1, QueueStays
<1>2. CASE queue' = [queue EXCEPT ![TableOf(i)] = @ \cup {Row(i, session, @)}]
  <2> DEFINE x == Row(i, session, queue[TableOf(i)])
  <2>1. x.item = i /\ x.owner = session
    BY DEF Row
  <2>2. queue' = [queue EXCEPT ![TableOf(i)] = queue[TableOf(i)] \cup {x}]
    BY <1>2
  <2> HIDE DEF x
  <2>3. TableOf(i) \in Tables
    BY DEF TableOf, Tables
  <2>4. /\ \A t \in Tables : queue[t] \subseteq queue'[t]
        /\ queue'[TableOf(i)] = queue[TableOf(i)] \cup {x}
        /\ \A t \in Tables \ {TableOf(i)} : queue'[t] = queue[t]
        /\ queue' = [t \in Tables |-> queue'[t]]
    BY <1>0, <2>2, <2>3 DEF RowsOK
  <2>5. RowsOK(queue')
    BY <1>0, <2>1, <2>4, Places DEF RowsOK, Tables
  <2> QED
    BY <2>4, <2>5, RowsStay DEF Tables
<1> QED
  BY <1>1, <1>2 DEF Enqueue, EnqueueFails

\* Clearing the rows of an item the server has.
LEMMA WithoutRowKeeps ==
  ASSUME MobileInv, Grows, NEW i,
         (i \in Claims /\ InExpenses(i)') \/ (i \in Pods /\ i \in delivered'),
         queue' = WithoutRow(i)
  PROVE  /\ RowsOK(queue')
         /\ \A r \in queue["expenses"] : RowKept(r)
<1>0. RowsOK(queue)
  BY DEF MobileInv
<1>1. CASE i \in Claims
  <2>0. i \notin Pods
    BY <1>1, Places
  <2>1. queue' = [queue EXCEPT !["expenses"] = {r \in queue["expenses"] : r.item # i}]
    BY <1>1 DEF WithoutRow
  <2>2. /\ queue'["expenses"] = {r \in queue["expenses"] : r.item # i}
        /\ queue'["pods"] = queue["pods"]
        /\ queue' = [t \in Tables |-> queue'[t]]
    BY <1>0, <2>1 DEF RowsOK, Tables
  <2>3. RowsOK(queue')
    BY <1>0, <2>2 DEF RowsOK
  <2>4. \A r \in queue["expenses"] : RowKept(r)
    BY <1>0, <1>1, <2>0, <2>2 DEF RowsOK, RowKept
  <2> QED
    BY <2>3, <2>4
<1>2. CASE i \in Pods
  <2>0. i \notin Claims
    BY <1>2, Places
  <2>1. queue' = [queue EXCEPT !["pods"] = {r \in queue["pods"] : ~ClearedBy(i, r.item)}]
    BY <2>0 DEF WithoutRow
  <2>2. /\ queue'["pods"] = {r \in queue["pods"] : ~ClearedBy(i, r.item)}
        /\ queue'["expenses"] = queue["expenses"]
        /\ queue' = [t \in Tables |-> queue'[t]]
    BY <1>0, <2>1 DEF RowsOK, Tables
  <2>3. RowsOK(queue')
    BY <1>0, <2>2 DEF RowsOK
  <2> QED
    BY <2>2, <2>3, RowsStay
<1> QED
  BY <1>1, <1>2

-----------------------------------------------------------------------------
(* One lemma per group of actions.                                         *)

\* The session and the flushes change nothing that is recorded or stored.
LEMMA ClientStep ==
  ASSUME MobileInv, session' \in Owners,
         UNCHANGED <<queue, handler, expenses, delivered, expired>>
  PROVE  Keeps
<1>1. /\ Grows /\ (\E S : expenses' \in Seq(S)) /\ RecordedOnce'
  BY ServerStays
<1> QED
  BY <1>1, QueueStays, NoHandler, Combine

LEMMA SendItemStep ==
  ASSUME MobileInv, NEW f \in Flushes, SendItem(f) PROVE Keeps
<1>1. /\ UNCHANGED <<session, queue, expenses, delivered, expired>>
      /\ session' \in Owners
  BY DEF SendItem, MobileInv
<1>2. /\ Grows /\ (\E S : expenses' \in Seq(S)) /\ RecordedOnce'
  BY <1>1, ServerStays
<1>3. CASE UNCHANGED handler
  BY <1>1, <1>3, ClientStep
<1>4. CASE Request(f, Oldest(flush[f].batch))
  <2>1. /\ handler' = [k \in Handlers |-> handler'[k]]
        /\ \A k \in Handlers : HandlerOK(handler[k])'
    BY <1>2, <1>4, RequestSound, MobileAssumption
  <2> QED
    BY <1>1, <1>2, <2>1, QueueStays, Combine
<1> QED
  BY <1>3, <1>4 DEF SendItem

LEMMA FlushAnswerStep ==
  ASSUME MobileInv, NEW f \in Flushes, NEW h \in Handlers, FlushAnswer(f, h)
  PROVE  Keeps
<1>1. /\ UNCHANGED <<session, expenses, delivered, expired>>
      /\ session' \in Owners
  BY DEF FlushAnswer, MobileInv
<1>2. /\ Grows /\ (\E S : expenses' \in Seq(S)) /\ RecordedOnce'
  BY <1>1, ServerStays
<1>3. /\ handler' = [k \in Handlers |-> handler'[k]]
      /\ \A k \in Handlers : HandlerOK(handler[k])'
  <2>1. Sound(Free) /\ handler' = [handler EXCEPT ![h] = Free]
    BY FreeOK DEF HandlerOK, Sound, FlushAnswer
  <2> QED
    BY <1>2, <2>1, OneHandler
<1>4. CASE ~Accepted(handler[h].st)
  <2>1. UNCHANGED queue
    BY <1>4 DEF FlushAnswer
  <2> QED
    BY <1>1, <1>2, <1>3, <2>1, QueueStays, Combine
<1>5. CASE Accepted(handler[h].st)
  <2>1. PICK i : i = handler[h].row.item
    OBVIOUS
  <2>2. queue' = WithoutRow(i)
    BY <1>5, <2>1 DEF FlushAnswer
  <2>3. (i \in Claims /\ InExpenses(i)) \/ (i \in Pods /\ i \in delivered)
    BY <1>5, <2>1 DEF MobileInv, HandlerOK, Known, Accepted
  <2>4. (i \in Claims /\ InExpenses(i)') \/ (i \in Pods /\ i \in delivered')
    BY <1>2, <2>3 DEF Grows
  <2>5. RowsOK(queue') /\ \A r \in queue["expenses"] : RowKept(r)
    BY <1>2, <2>2, <2>4, WithoutRowKeeps
  <2> QED
    BY <1>1, <1>2, <1>3, <2>5, Combine
<1> QED
  BY <1>4, <1>5

\* The server: what it answers with success it has.
LEMMA CheckExpenseStep ==
  ASSUME MobileInv, NEW h \in Handlers, CheckExpense(h) PROVE Keeps
<1>1. /\ UNCHANGED <<session, queue, expenses, delivered, expired>>
      /\ session' \in Owners
  BY DEF CheckExpense, MobileInv
<1>2. /\ Grows /\ (\E S : expenses' \in Seq(S)) /\ RecordedOnce'
  BY <1>1, ServerStays
<1>3. PICK c : c = handler[h].row.item
  OBVIOUS
<1>4. c \in Claims /\ handler[h].st = "check"
  BY <1>3 DEF CheckExpense
<1>5. /\ handler' = [k \in Handlers |-> handler'[k]]
      /\ \A k \in Handlers : HandlerOK(handler[k])'
  <2>1. CASE Done(h, "error")
    BY <1>2, <1>3, <2>1, DoneSound
  <2>2. CASE InExpenses(c) /\ Done(h, "ok")
    <3>1. InExpenses(c)'
      BY <1>2, <2>2 DEF Grows
    <3> QED
      BY <1>2, <1>3, <1>4, <2>2, <3>1, DoneSound
  <2>3. CASE handler' = [handler EXCEPT ![h].st = "insert"]
    <3>1. PICK k : k = handler[h] /\ HandlerOK(k) /\ k.row.item = c
      BY <1>3 DEF MobileInv
    <3> DEFINE j == [k EXCEPT !.st = "insert"]
    <3>2. j \in HandlerRec(k.row) /\ j.st = "insert" /\ j.from = k.from /\ j.row = k.row
      BY <3>1 DEF HandlerOK, HandlerRec
    <3>3. handler' = [handler EXCEPT ![h] = j]
      BY <2>3, <3>1
    <3> HIDE DEF j
    <3>4. Sound(j)
      BY <1>4, <3>1, <3>2 DEF Sound, HandlerOK
    <3> QED
      BY <1>2, <3>3, <3>4, OneHandler
  <2> QED
    BY <1>3, <2>1, <2>2, <2>3 DEF CheckExpense
<1> QED
  BY <1>1, <1>2, <1>5, QueueStays, Combine

LEMMA InsertExpenseStep ==
  ASSUME MobileInv, NEW h \in Handlers, InsertExpense(h) PROVE Keeps
<1>1. /\ UNCHANGED <<session, queue, delivered, expired>>
      /\ session' \in Owners
  BY DEF InsertExpense, MobileInv
<1>2. PICK c : c = handler[h].row.item
  OBVIOUS
<1>3. c \in Claims
  BY <1>2 DEF InsertExpense, MobileInv, HandlerOK
<1>4. PICK S : expenses \in Seq(S)
  BY DEF MobileInv
<1>5. /\ \E T : expenses' \in Seq(T)
      /\ \A d : InExpenses(d) => InExpenses(d)'
      /\ InExpenses(c)'
      /\ RecordedOnce'
  BY <1>2, <1>4, Recorded DEF InsertExpense, MobileInv
<1>6. Grows
  BY <1>1, <1>5 DEF Grows
<1>7. /\ handler' = [k \in Handlers |-> handler'[k]]
      /\ \A k \in Handlers : HandlerOK(handler[k])'
  BY <1>2, <1>3, <1>5, <1>6, DoneSound DEF InsertExpense
<1> QED
  BY <1>1, <1>5, <1>6, <1>7, QueueStays, Combine

LEMMA InsertFailsStep ==
  ASSUME MobileInv, NEW h \in Handlers, InsertFails(h) PROVE Keeps
<1>1. /\ UNCHANGED <<session, queue, expenses, delivered, expired>>
      /\ session' \in Owners
  BY DEF InsertFails, MobileInv
<1>2. /\ Grows /\ (\E S : expenses' \in Seq(S)) /\ RecordedOnce'
  BY <1>1, ServerStays
<1>3. PICK c : c = handler[h].row.item
  OBVIOUS
<1>4. /\ handler' = [k \in Handlers |-> handler'[k]]
      /\ \A k \in Handlers : HandlerOK(handler[k])'
  BY <1>2, <1>3, DoneSound DEF InsertFails
<1> QED
  BY <1>1, <1>2, <1>4, QueueStays, Combine

LEMMA SubmitPODStep ==
  ASSUME MobileInv, NEW h \in Handlers, SubmitPOD(h) PROVE Keeps
<1>1. /\ UNCHANGED <<session, queue, expenses, expired>>
      /\ session' \in Owners
  BY DEF SubmitPOD, MobileInv
<1>2. PICK p : p = handler[h].row.item
  OBVIOUS
<1>3. p \in Pods
  BY <1>2 DEF SubmitPOD
<1>4. \/ delivered' = delivered \cup {p} /\ Done(h, "ok")
      \/ delivered' = delivered /\ Done(h, "error")
  BY <1>2 DEF SubmitPOD
<1>5. Grows /\ (\E S : expenses' \in Seq(S)) /\ RecordedOnce'
  BY <1>1, <1>4 DEF Grows, MobileInv, InExpenses, RecordedOnce
<1>6. /\ handler' = [k \in Handlers |-> handler'[k]]
      /\ \A k \in Handlers : HandlerOK(handler[k])'
  BY <1>2, <1>3, <1>4, <1>5, DoneSound
<1> QED
  BY <1>1, <1>5, <1>6, QueueStays, Combine

\* The screens.
LEMMA SubmitLiveStep ==
  ASSUME MobileInv, NEW i \in Items, SubmitLive(i) PROVE Keeps
<1>1. /\ UNCHANGED <<session, queue, expenses, delivered, expired>>
      /\ session' \in Owners
  BY DEF SubmitLive, MobileInv
<1>2. /\ Grows /\ (\E S : expenses' \in Seq(S)) /\ RecordedOnce'
  BY <1>1, ServerStays
<1>3. /\ handler' = [k \in Handlers |-> handler'[k]]
      /\ \A k \in Handlers : HandlerOK(handler[k])'
  <2> DEFINE row == [item |-> i, owner |-> session, at |-> 0]
  <2>1. row.item = i /\ Request(i, row)
    BY DEF SubmitLive
  <2> HIDE DEF row
  <2> QED
    BY <1>2, <2>1, RequestSound
<1> QED
  BY <1>1, <1>2, <1>3, QueueStays, Combine

LEMMA SubmitVoiceStep ==
  ASSUME MobileInv, NEW c \in Claims, SubmitVoice(c) PROVE Keeps
<1>1. /\ UNCHANGED <<session, handler, expenses, delivered, expired>>
      /\ session' \in Owners /\ c \in Items /\ Enqueue(c)
  BY DEF SubmitVoice, MobileInv, Items
<1>2. /\ Grows /\ (\E S : expenses' \in Seq(S)) /\ RecordedOnce'
  BY <1>1, ServerStays
<1> QED
  BY <1>1, <1>2, NoHandler, EnqueueKeeps, Combine

LEMMA ScreenAnswerStep ==
  ASSUME MobileInv, NEW i \in Items, NEW h \in Handlers, ScreenAnswer(i, h)
  PROVE  Keeps
<1>1. /\ UNCHANGED <<session, expenses, delivered, expired>>
      /\ session' \in Owners
  BY DEF ScreenAnswer, MobileInv
<1>2. /\ Grows /\ (\E S : expenses' \in Seq(S)) /\ RecordedOnce'
  BY <1>1, ServerStays
<1>3. /\ handler' = [k \in Handlers |-> handler'[k]]
      /\ \A k \in Handlers : HandlerOK(handler[k])'
  <2>1. Sound(Free) /\ handler' = [handler EXCEPT ![h] = Free]
    BY FreeOK DEF HandlerOK, Sound, ScreenAnswer
  <2> QED
    BY <1>2, <2>1, OneHandler
<1>4. CASE Enqueue(i) \/ EnqueueFails(i)
  BY <1>1, <1>2, <1>3, <1>4, EnqueueKeeps, Combine
<1>5. CASE /\ handler[h].st = "ok"
           /\ queue' = IF i \in Pods THEN WithoutRow(i) ELSE queue
  <2>1. (i \in Claims /\ InExpenses(i)) \/ (i \in Pods /\ i \in delivered)
    BY <1>5 DEF ScreenAnswer, MobileInv, HandlerOK, Known
  <2>2. (i \in Claims /\ InExpenses(i)') \/ (i \in Pods /\ i \in delivered')
    BY <1>2, <2>1 DEF Grows
  <2>3. CASE i \in Pods
    <3>1. RowsOK(queue') /\ \A r \in queue["expenses"] : RowKept(r)
      BY <1>2, <1>5, <2>2, <2>3, WithoutRowKeeps
    <3> QED
      BY <1>1, <1>2, <1>3, <3>1, Combine
  <2>4. CASE i \notin Pods
    BY <1>1, <1>2, <1>3, <1>5, <2>4, QueueStays, Combine
  <2> QED
    BY <2>3, <2>4
<1> QED
  BY <1>4, <1>5 DEF ScreenAnswer

\* Faults.
LEMMA ConnectionLostStep ==
  ASSUME MobileInv, NEW h \in Handlers, ConnectionLost(h) PROVE Keeps
<1>1. /\ UNCHANGED <<session, expenses, delivered, expired>>
      /\ session' \in Owners
  BY DEF ConnectionLost, MobileInv
<1>2. /\ Grows /\ (\E S : expenses' \in Seq(S)) /\ RecordedOnce'
  BY <1>1, ServerStays
<1>3. /\ handler' = [k \in Handlers |-> handler'[k]]
      /\ \A k \in Handlers : HandlerOK(handler[k])'
  <2>1. CASE handler' = [handler EXCEPT ![h] = Free]
    <3>1. Sound(Free)
      BY FreeOK DEF HandlerOK, Sound
    <3> QED
      BY <1>2, <2>1, <3>1, OneHandler
  <2>2. CASE /\ handler[h].st \in {"check", "insert"}
             /\ handler' = [handler EXCEPT ![h].from = NoOne]
    <3>1. PICK k : k = handler[h] /\ HandlerOK(k) /\ k.st \in {"check", "insert"}
      BY <2>2 DEF MobileInv
    <3> DEFINE j == [k EXCEPT !.from = NoOne]
    <3>2. j \in HandlerRec(k.row) /\ j.st = k.st /\ j.from = NoOne /\ j.row = k.row
      BY <3>1 DEF HandlerOK, HandlerRec
    <3>3. handler' = [handler EXCEPT ![h] = j]
      BY <2>2, <3>1
    <3> HIDE DEF j
    <3>4. Sound(j)
      BY <3>1, <3>2, MobileAssumption DEF Sound, HandlerOK
    <3> QED
      BY <1>2, <3>3, <3>4, OneHandler
  <2> QED
    BY <2>1, <2>2 DEF ConnectionLost
<1>4. PICK from : from = handler[h].from /\ ClientFails(from)
  BY DEF ConnectionLost
<1>5. CASE UNCHANGED queue
  BY <1>1, <1>2, <1>3, <1>5, QueueStays, Combine
<1>6. CASE from \in Items /\ (Enqueue(from) \/ EnqueueFails(from))
  BY <1>1, <1>2, <1>3, <1>6, EnqueueKeeps, Combine
<1> QED
  BY <1>4, <1>5, <1>6 DEF ClientFails

\* A restart keeps some rows; the items of the others have expired or are
\* queued in another row, and the requests go on with nobody listening.
LEMMA RestartStep ==
  ASSUME MobileInv, NEW p, NEW e, p \subseteq queue["pods"], e \subseteq queue["expenses"],
         Restart([t \in Tables |-> IF t = "pods" THEN p ELSE e])
  PROVE  Keeps
<1> DEFINE kept == [t \in Tables |-> IF t = "pods" THEN p ELSE e]
<1>0. RowsOK(queue)
  BY DEF MobileInv
<1>1. /\ UNCHANGED <<session, expenses, delivered>>
      /\ session' \in Owners /\ queue' = kept
      /\ expired' = expired \cup (QueuedItems(queue) \ QueuedItems(kept))
  BY DEF Restart, MobileInv
<1>2. /\ Grows /\ (\E S : expenses' \in Seq(S)) /\ RecordedOnce'
  BY <1>1, ServerStays
<1>3. /\ handler' = [k \in Handlers |-> handler'[k]]
      /\ \A k \in Handlers : HandlerOK(handler[k])'
  <2>1. handler' = [k \in Handlers |->
                     IF handler[k].st \in {"check", "insert"}
                       THEN [handler[k] EXCEPT !.from = NoOne] ELSE Free]
    BY DEF Restart
  <2>2. ASSUME NEW k \in Handlers PROVE HandlerOK(handler[k])'
    <3>1. CASE handler[k].st \in {"check", "insert"}
      <4>1. PICK g : g = handler[k] /\ HandlerOK(g) /\ g.st \in {"check", "insert"}
        BY <3>1 DEF MobileInv
      <4> DEFINE j == [g EXCEPT !.from = NoOne]
      <4>2. j \in HandlerRec(g.row) /\ j.st = g.st /\ j.from = NoOne /\ j.row = g.row
        BY <4>1 DEF HandlerOK, HandlerRec
      <4>3. handler'[k] = j
        BY <2>1, <3>1, <4>1
      <4> HIDE DEF j
      <4> QED
        BY <4>1, <4>2, <4>3, MobileAssumption DEF HandlerOK, HandlerRec
    <3>2. CASE handler[k].st \notin {"check", "insert"}
      <4>1. handler'[k] = Free
        BY <2>1, <3>2
      <4>2. Free \in HandlerRec(Free.row) /\ Free.st = "free" /\ Free.from \notin Items
        BY FreeOK, MobileAssumption DEF HandlerOK
      <4> QED
        BY <4>1, <4>2 DEF HandlerOK, HandlerRec
    <3> QED
      BY <3>1, <3>2
  <2> QED
    BY <2>1, <2>2
<1>4. /\ queue'["pods"] = p /\ queue'["expenses"] = e
      /\ queue' = [t \in Tables |-> queue'[t]]
  BY <1>1 DEF Tables
<1>5. RowsOK(queue')
  BY <1>0, <1>4 DEF RowsOK
<1>6. ASSUME NEW r \in queue["expenses"] PROVE RowKept(r)
  <2>1. r.item \in QueuedItems(queue) /\ r.item \in Claims
    BY <1>0 DEF QueuedItems, RowsOK, Tables
  <2>2. CASE r.item \in QueuedItems(kept)
    <3>1. PICK u \in Tables : \E s \in queue'[u] : s.item = r.item
      BY <1>1, <2>2 DEF QueuedItems
    <3>2. PICK s \in queue'[u] : s.item = r.item
      BY <3>1
    <3>3. u = "expenses" /\ s.owner \in Owners
      BY <1>5, <2>1, <3>2, Places DEF RowsOK, Tables
    <3> QED
      BY <3>2, <3>3 DEF RowKept
  <2>3. CASE r.item \notin QueuedItems(kept)
    BY <1>1, <2>1, <2>3 DEF RowKept
  <2> QED
    BY <2>2, <2>3
<1> QED
  BY <1>1, <1>2, <1>3, <1>5, <1>6, Combine

-----------------------------------------------------------------------------
\* Every step keeps the invariant, and every claim on the phone.
LEMMA EveryStep ==
  ASSUME MobileInv, [Next]_vars PROVE Keeps
<1>0. session \in Owners
  BY DEF MobileInv
<1>1. ASSUME NEW a \in Accounts, SignIn(a) PROVE Keeps
  BY <1>1, ClientStep DEF SignIn, Owners
<1>2. CASE SignOut
  BY <1>2, ClientStep DEF SignOut, Owners
<1>3. ASSUME NEW f \in Flushes, StartFlush(f) \/ StartSync(f) \/ FlushStep(f)
      PROVE  Keeps
  <2>1. CASE StartFlush(f) \/ StartSync(f) \/ SyncFlush(f) \/ NextTable(f) \/ EndFlush(f)
    BY <1>0, <2>1, ClientStep DEF StartFlush, StartSync, SyncFlush, NextTable, EndFlush
  <2>2. CASE SendItem(f)
    BY <2>2, SendItemStep
  <2>3. CASE \E h \in Handlers : FlushAnswer(f, h)
    BY <2>3, FlushAnswerStep
  <2> QED
    BY <1>3, <2>1, <2>2, <2>3 DEF FlushStep
<1>4. ASSUME NEW h \in Handlers, HandlerStep(h) \/ InsertFails(h) \/ ConnectionLost(h)
      PROVE  Keeps
  BY <1>4, CheckExpenseStep, InsertExpenseStep, SubmitPODStep, InsertFailsStep,
     ConnectionLostStep DEF HandlerStep
<1>5. ASSUME NEW i \in Items, SubmitLive(i) \/ \E h \in Handlers : ScreenAnswer(i, h)
      PROVE  Keeps
  BY <1>5, SubmitLiveStep, ScreenAnswerStep
<1>6. ASSUME NEW c \in Claims, SubmitVoice(c) PROVE Keeps
  BY <1>6, SubmitVoiceStep
<1>7. ASSUME NEW p \in Suffixes(queue["pods"]), NEW e \in Suffixes(queue["expenses"]),
             Restart([t \in Tables |-> IF t = "pods" THEN p ELSE e])
      PROVE  Keeps
  <2>1. p \subseteq queue["pods"] /\ e \subseteq queue["expenses"]
    BY DEF Suffixes
  <2> QED
    BY <1>7, <2>1, RestartStep
<1>8. CASE UNCHANGED vars
  BY <1>0, <1>8, ClientStep DEF vars
<1> QED
  BY <1>1, <1>2, <1>3, <1>4, <1>5, <1>6, <1>7, <1>8 DEF Next

LEMMA MobileInvAlways == Spec => []MobileInv
<1>1. MobileInv /\ [Next]_vars => MobileInv'
  BY EveryStep DEF Keeps
<1> QED
  BY <1>1, MobileInit, PTL DEF Spec

\* A claim is recorded at most once, for any number of concurrent flushes,
\* repeated requests, lost answers and restarts: the look-up of the key before
\* the insert may be stale, the unique index decides at the insert.
THEOREM RecordedOnceTheorem == Spec => []RecordedOnce
<1>1. MobileInv => RecordedOnce
  BY DEF MobileInv
<1> QED
  BY <1>1, MobileInvAlways, PTL

\* A claim that is on the phone stays there until the server has it or it has
\* expired, whoever signs in and out, whichever flushes run at once and whatever
\* answers are lost: its row is cleared only on an answer that says the server
\* has this very claim.
THEOREM QueuedIsKeptTheorem == Spec => QueuedIsKept
<1>1. MobileInv /\ [Next]_vars =>
        [\A c \in Claims : OnPhone(c) => OnPhone(c)' \/ InExpenses(c)' \/ c \in expired']_vars
  BY EveryStep DEF Keeps, ClaimsKept
<1> QED
  BY <1>1, MobileInvAlways, PTL DEF Spec, QueuedIsKept

=============================================================================
