--------------------------- MODULE PartitionProofs ---------------------------
(***************************************************************************)
(* TLAPS proofs about module Partition, for every value of its constants.   *)
(***************************************************************************)
EXTENDS Partition, SequenceTheorems, TLAPS

-----------------------------------------------------------------------------
(* Facts about sequences.                                                   *)

(* What std::deque::erase of an element that occurs once leaves behind: the *)
(* other elements, each still once and in their order, and not the erased   *)
(* one.                                                                     *)
LEMMA RemoveFirstProps ==
  ASSUME NEW S, NEW s \in Seq(S), NEW e,
         \A i, j \in DOMAIN s : s[i] = s[j] => i = j
  PROVE  /\ RemoveFirst(s, e) \in Seq(S)
         /\ \A i \in DOMAIN RemoveFirst(s, e) :
              \E k \in DOMAIN s : RemoveFirst(s, e)[i] = s[k]
         /\ \A i \in DOMAIN RemoveFirst(s, e) : RemoveFirst(s, e)[i] # e
         /\ \A i, j \in DOMAIN RemoveFirst(s, e) :
              RemoveFirst(s, e)[i] = RemoveFirst(s, e)[j] => i = j
         /\ \A i, j \in DOMAIN RemoveFirst(s, e) : \A m, n \in DOMAIN s :
              RemoveFirst(s, e)[i] = s[m] /\ RemoveFirst(s, e)[j] = s[n] /\ m < n => i < j
<1> DEFINE r == RemoveFirst(s, e)
<1>0. DOMAIN s = 1..Len(s) /\ Len(s) \in Nat
  BY LenProperties
<1>1. CASE ~\E i \in 1..Len(s) : s[i] = e
  <2>1. r = s
    BY <1>1 DEF RemoveFirst
  <2> HIDE DEF r
  <2>2. \A i, j, m, n \in DOMAIN s : s[i] = s[m] /\ s[j] = s[n] /\ m < n => i < j
    OBVIOUS
  <2>3. QED
    BY <1>0, <1>1, <2>1, <2>2 DEF r
<1>2. CASE \E i \in 1..Len(s) : s[i] = e
  <2>1. PICK k \in 1..Len(s) : s[k] = e
    BY <1>2
  <2>2. {i \in 1..Len(s) : s[i] = e} = {k}
    BY <1>0, <2>1
  <2>3. Min({k}) = k
    BY <2>1, <1>0 DEF Min
  <2>4. SelectInSeq(s, LAMBDA v : v = e) = k
    BY <2>2, <2>3 DEF SelectInSeq
  <2>5. r = SubSeq(s, 1, k - 1) \o SubSeq(s, k + 1, Len(s))
    BY <1>2, <2>4 DEF RemoveFirst, RemoveAt
  <2> DEFINE a == SubSeq(s, 1, k - 1)
             b == SubSeq(s, k + 1, Len(s))
  <2>6. /\ a \in Seq(S) /\ Len(a) = k - 1
        /\ \A i \in 1..(k - 1) : a[i] = s[i]
    <3>1. \A i \in 1..(k - 1) : s[i] \in S
      BY <1>0, <2>1, ElementOfSeq
    <3>2. QED
      BY <1>0, <2>1, <3>1, SubSeqProperties
  <2>7. /\ b \in Seq(S) /\ Len(b) = Len(s) - k
        /\ \A i \in 1..(Len(s) - k) : b[i] = s[k + i]
    <3>1. \A i \in (k + 1)..Len(s) : s[i] \in S
      BY <1>0, <2>1, ElementOfSeq
    <3>2. /\ b \in Seq(S)
          /\ Len(b) = IF k + 1 <= Len(s) THEN Len(s) - (k + 1) + 1 ELSE 0
          /\ \A i \in 1..(Len(s) - (k + 1) + 1) : b[i] = s[(k + 1) + i - 1]
      <4>1. k + 1 \in Int /\ Len(s) \in Int
        BY <1>0, <2>1
      <4>2. QED
        BY <3>1, <4>1, SubSeqProperties
    <3> HIDE DEF b
    <3>3. Len(b) = Len(s) - k
      <4>1. CASE k + 1 <= Len(s)
        <5>1. Len(b) = Len(s) - (k + 1) + 1
          BY <3>2, <4>1
        <5>2. QED
          BY <1>0, <2>1, <5>1
      <4>2. CASE ~(k + 1 <= Len(s))
        <5>1. Len(b) = 0
          BY <3>2, <4>2
        <5>2. Len(s) - k = 0
          <6>1. Len(s) \in Nat
            BY <1>0
          <6>2. QED
            BY <4>2, <6>1
        <5>3. QED
          BY <5>1, <5>2
      <4>3. QED
        BY <4>1, <4>2
    <3>4. ASSUME NEW i \in 1..(Len(s) - k) PROVE b[i] = s[k + i]
      <4>1. i \in 1..(Len(s) - (k + 1) + 1) /\ (k + 1) + i - 1 = k + i
        BY <1>0, <2>1
      <4>2. b[i] = s[(k + 1) + i - 1]
        BY <3>2, <4>1
      <4>3. QED
        BY <4>1, <4>2
    <3>5. QED
      BY <3>2, <3>3, <3>4
  <2> HIDE DEF a, b
  <2>8. /\ r \in Seq(S) /\ Len(r) = Len(s) - 1
        /\ \A i \in 1..(Len(s) - 1) :
             r[i] = IF i <= k - 1 THEN a[i] ELSE b[i - (k - 1)]
    <3>1. r = a \o b
      BY <2>5 DEF a, b
    <3>2. /\ a \o b \in Seq(S) /\ Len(a \o b) = Len(a) + Len(b)
          /\ \A i \in 1..(Len(a) + Len(b)) :
               (a \o b)[i] = IF i <= Len(a) THEN a[i] ELSE b[i - Len(a)]
      BY <2>6, <2>7, ConcatProperties
    <3>3. Len(a) + Len(b) = Len(s) - 1 /\ Len(a) = k - 1
      BY <1>0, <2>1, <2>6, <2>7
    <3> HIDE DEF r
    <3>4. QED
      BY <3>1, <3>2, <3>3
  <2>9. DOMAIN r = 1..(Len(s) - 1)
    BY <2>8, LenProperties
  <2> HIDE DEF r
  <2>10. ASSUME NEW i \in 1..(Len(s) - 1)
         PROVE  r[i] = IF i < k THEN s[i] ELSE s[i + 1]
    <3>1. CASE i < k
      BY <1>0, <2>1, <2>6, <2>8, <3>1
    <3>2. CASE ~(i < k)
      <4>1. i - (k - 1) \in 1..(Len(s) - k) /\ k + (i - (k - 1)) = i + 1
        BY <1>0, <2>1, <3>2
      <4>2. b[i - (k - 1)] = s[k + (i - (k - 1))]
        BY <2>7, <4>1
      <4>3. QED
        BY <1>0, <2>1, <2>8, <3>2, <4>1, <4>2
    <3>3. QED
      BY <3>1, <3>2
  <2>11. \A i \in DOMAIN r : \E k1 \in DOMAIN s : r[i] = s[k1]
    BY <1>0, <2>1, <2>9, <2>10
  <2>12. ASSUME NEW i \in DOMAIN r PROVE r[i] # e
    <3>1. CASE i < k
      BY <1>0, <2>1, <2>9, <2>10, <3>1
    <3>2. CASE ~(i < k)
      BY <1>0, <2>1, <2>9, <2>10, <3>2
    <3>3. QED
      BY <3>1, <3>2
  <2>13. ASSUME NEW i \in DOMAIN r, NEW j \in DOMAIN r, r[i] = r[j] PROVE i = j
    <3> DEFINE f(n) == IF n < k THEN n ELSE n + 1
    <3>1. f(i) \in DOMAIN s /\ f(j) \in DOMAIN s
      BY <1>0, <2>1, <2>9
    <3>2. r[i] = s[f(i)] /\ r[j] = s[f(j)]
      BY <2>9, <2>10
    <3>3. f(i) = f(j)
      BY <2>13, <3>1, <3>2
    <3>4. QED
      BY <3>3, <2>1, <2>9, <1>0
  <2>14. ASSUME NEW i \in DOMAIN r, NEW j \in DOMAIN r, NEW m \in DOMAIN s, NEW n \in DOMAIN s,
                r[i] = s[m], r[j] = s[n], m < n
         PROVE  i < j
    <3> DEFINE f(l) == IF l < k THEN l ELSE l + 1
    <3>1. f(i) \in DOMAIN s /\ f(j) \in DOMAIN s
      BY <1>0, <2>1, <2>9
    <3>2. r[i] = s[f(i)] /\ r[j] = s[f(j)]
      BY <2>9, <2>10
    <3>3. f(i) = m /\ f(j) = n
      BY <2>14, <3>1, <3>2
    <3>4. QED
      BY <2>14, <3>3, <2>1, <2>9, <1>0
  <2>15. QED
    BY <2>8, <2>11, <2>12, <2>13, <2>14 DEF r
<1>3. QED
  BY <1>1, <1>2

-----------------------------------------------------------------------------
(* The commands and fills a step works on are well typed.                   *)

(* What popping the next command of the batch yields.                       *)
LEMMA CmdType ==
  ASSUME TypeOK, batch # << >>
  PROVE  /\ Cmd \in Command
         /\ Cmd.id \in OrderId
         /\ Cmd.kind = "New" => Cmd.order \in Order
         /\ Cmd.kind = "Modify" => Cmd.price \in Prices /\ Cmd.qty \in Quantities
         /\ Tail(batch) \in Seq(Command)
<1>1. Cmd \in Command /\ Tail(batch) \in Seq(Command)
  BY HeadTailProperties DEF TypeOK, Cmd
<1>2. QED
  BY <1>1 DEF Command

(* The invariant contains the part that does not depend on the reports.     *)
LEMMA CoreOf ==
  ASSUME IndInv
  PROVE  CoreInv
BY DEF IndInv, CoreInv, NewIdsFresh, IdsFree, WorkerInv, WorkerHolds, OrdersInv, OrdersKnown

LEMMA HoldsOf ==
  ASSUME WorkerInv
  PROVE  WorkerHolds
BY DEF WorkerInv, WorkerHolds

(* The facts about one iteration of the matching loop: the front of the     *)
(* best level is another, live order, and the fill takes no more than       *)
(* either has.                                                              *)
LEMMA CoreFillFacts ==
  ASSUME TypeOK, PointersLive, WorkerHolds, NEW p \in Prices, CanFillAt(p)
  PROVE  LET side == Opposite(Incoming.side)
             resting == Head(book[side][p])
             qty == FillQty(Incoming, orders[resting])
         IN /\ side \in Side
            /\ book[side][p] \in Seq(OrderId) /\ book[side][p] # << >>
            /\ resting \in OrderId /\ resting = book[side][p][1]
            /\ 1 \in DOMAIN book[side][p]
            /\ worker.id \in OrderId /\ resting # worker.id
            /\ Incoming \in Order /\ orders[resting] \in Order
            /\ orders[resting].side = side /\ orders[resting].price = p
            /\ qty \in Nat /\ qty > 0
            /\ qty <= Incoming.rem /\ qty <= orders[resting].rem
            /\ Incoming.rem - qty \in Nat /\ orders[resting].rem - qty \in Nat
<1> DEFINE side == Opposite(Incoming.side)
           level == book[side][p]
           resting == Head(level)
<1>1. worker.id \in OrderId /\ Live(worker.id) /\ Incoming \in Order
  BY DEF CanFillAt, WorkerHolds, Live, TypeOK, Incoming
<1>2. side \in Side
  BY DEF Opposite, Side
<1>3. level \in Seq(OrderId) /\ level # << >>
  BY <1>2 DEF CanFillAt, IsBest, Levels, TypeOK, Book
<1>4. resting \in OrderId /\ resting = level[1] /\ 1 \in DOMAIN level
  BY <1>3, HeadTailProperties, LenProperties, EmptySeq
<1>5. /\ orders[resting] \in Order
      /\ orders[resting].side = side /\ orders[resting].price = p
      /\ orders[resting].rem > 0
  BY <1>2, <1>4 DEF PointersLive, Live, TypeOK
<1>6. resting # worker.id
  <2>1. Contains(level, resting)
    BY <1>3, <1>4, LenProperties DEF Contains
  <2>2. Resting(book, resting)
    BY <1>2, <2>1 DEF Resting
  <2>3. QED
    BY <2>2 DEF CanFillAt, WorkerHolds
<1>7. Incoming.rem \in Nat /\ Incoming.rem > 0 /\ orders[resting].rem \in Nat
  BY <1>1, <1>5 DEF CanFillAt, Order
<1>8. QED
  BY <1>1, <1>2, <1>3, <1>4, <1>5, <1>6, <1>7 DEF FillQty

LEMMA FillFacts ==
  ASSUME TypeOK, PointersLive, WorkerInv, NEW p \in Prices, CanFillAt(p)
  PROVE  LET side == Opposite(Incoming.side)
             resting == Head(book[side][p])
             qty == FillQty(Incoming, orders[resting])
         IN /\ side \in Side
            /\ book[side][p] \in Seq(OrderId) /\ book[side][p] # << >>
            /\ resting \in OrderId /\ resting = book[side][p][1]
            /\ 1 \in DOMAIN book[side][p]
            /\ worker.id \in OrderId /\ resting # worker.id
            /\ Incoming \in Order /\ orders[resting] \in Order
            /\ orders[resting].side = side /\ orders[resting].price = p
            /\ qty \in Nat /\ qty > 0
            /\ qty <= Incoming.rem /\ qty <= orders[resting].rem
            /\ Incoming.rem - qty \in Nat /\ orders[resting].rem - qty \in Nat
BY HoldsOf, CoreFillFacts

-----------------------------------------------------------------------------
(* The commands on their way to the worker: Pending under each kind of step. *)

LEMMA PendingType ==
  ASSUME TypeOK
  PROVE  /\ Pending \in Seq(Command)
         /\ Len(Pending) \in Nat
         /\ DOMAIN Pending = 1..Len(Pending)
         /\ \A i \in DOMAIN Pending :
              Pending[i] \in Command /\ Pending[i].id \in OrderId
<1>1. Pending \in Seq(Command)
  BY ConcatProperties DEF TypeOK, Pending
<1>2. DOMAIN Pending = 1..Len(Pending) /\ Len(Pending) \in Nat
  BY <1>1, LenProperties
<1>3. \A i \in DOMAIN Pending : Pending[i] \in Command
  BY <1>1, <1>2, ElementOfSeq
<1>4. \A c \in Command : c.id \in OrderId
  BY DEF Command
<1>5. QED
  BY <1>1, <1>2, <1>3, <1>4

(* Taking a command removes the first pending one.                          *)
LEMMA PendingTake ==
  ASSUME TypeOK, batch # << >>, batch' = Tail(batch), queue' = queue
  PROVE  /\ 1 \in DOMAIN Pending /\ Pending[1] = Cmd
         /\ DOMAIN Pending' = 1..(Len(Pending) - 1)
         /\ \A i \in 1..(Len(Pending) - 1) : Pending'[i] = Pending[i + 1]
<1> DEFINE b == batch
           q == queue
           t == Tail(batch)
<1>1. b \in Seq(Command) /\ q \in Seq(Command) /\ b # << >>
  BY DEF TypeOK
<1>2. /\ t \in Seq(Command) /\ Len(t) = Len(b) - 1
      /\ \A i \in 1..Len(t) : t[i] = b[i + 1]
      /\ Head(b) = b[1]
  BY <1>1, HeadTailProperties
<1>3. Len(b) \in Nat /\ Len(b) > 0 /\ Len(q) \in Nat
  BY <1>1, LenProperties, EmptySeq
<1>4. /\ Len(b \o q) = Len(b) + Len(q)
      /\ \A i \in 1..(Len(b) + Len(q)) :
           (b \o q)[i] = IF i <= Len(b) THEN b[i] ELSE q[i - Len(b)]
  BY <1>1, ConcatProperties
<1>5. /\ t \o q \in Seq(Command)
      /\ Len(t \o q) = Len(t) + Len(q)
      /\ \A i \in 1..(Len(t) + Len(q)) :
           (t \o q)[i] = IF i <= Len(t) THEN t[i] ELSE q[i - Len(t)]
  BY <1>1, <1>2, ConcatProperties
<1>6. Pending = b \o q /\ Pending' = t \o q
  BY DEF Pending
<1>7. 1 \in DOMAIN Pending /\ Pending[1] = Cmd
  <2>1. DOMAIN Pending = 1..Len(Pending)
    BY PendingType
  <2>2. 1 \in 1..(Len(b) + Len(q)) /\ 1 <= Len(b)
    BY <1>3
  <2>3. QED
    BY <1>2, <1>4, <1>6, <2>1, <2>2 DEF Cmd
<1>8. DOMAIN Pending' = 1..(Len(Pending) - 1)
  <2>1. DOMAIN (t \o q) = 1..Len(t \o q)
    BY <1>5, LenProperties
  <2>2. Len(t \o q) = Len(b \o q) - 1
    <3> HIDE DEF b, t, q
    <3>1. QED
      BY <1>2, <1>3, <1>4, <1>5
  <2>3. QED
    BY <1>6, <2>1, <2>2
<1>9. ASSUME NEW i \in 1..(Len(Pending) - 1) PROVE Pending'[i] = Pending[i + 1]
  <2>0. Len(Pending) = Len(b) + Len(q)
    BY <1>4, <1>6
  <2> HIDE DEF b, t, q
  <2>1. i \in 1..(Len(t) + Len(q)) /\ i + 1 \in 1..(Len(b) + Len(q))
    BY <1>2, <1>3, <2>0
  <2>2. CASE i <= Len(t)
    <3>1. i \in 1..Len(t) /\ i + 1 <= Len(b)
      BY <1>2, <1>3, <2>1, <2>2
    <3>2. (t \o q)[i] = b[i + 1] /\ (b \o q)[i + 1] = b[i + 1]
      BY <1>2, <1>4, <1>5, <2>1, <2>2, <3>1
    <3>3. QED
      BY <1>6, <3>2
  <2>3. CASE ~(i <= Len(t))
    <3>1. ~(i + 1 <= Len(b)) /\ i - Len(t) = (i + 1) - Len(b)
      BY <1>2, <1>3, <2>1, <2>3
    <3>2. (t \o q)[i] = q[i - Len(t)] /\ (b \o q)[i + 1] = q[(i + 1) - Len(b)]
      BY <1>4, <1>5, <2>1, <2>3, <3>1
    <3>3. QED
      BY <1>6, <3>1, <3>2
  <2>4. QED
    BY <2>2, <2>3
<1>10. QED
  BY <1>7, <1>8, <1>9

(* A submitter adds its command at the end, or loses it to a full queue.    *)
LEMMA PendingEnqueue ==
  ASSUME TypeOK, NEW c \in Command, Enqueue(c), batch' = batch
  PROVE  /\ queue' \in Seq(Command)
         /\ \/ Pending' = Pending
            \/ /\ DOMAIN Pending' = 1..(Len(Pending) + 1)
               /\ \A i \in 1..Len(Pending) : Pending'[i] = Pending[i]
               /\ Pending'[Len(Pending) + 1] = c
<1>1. CASE queue' = queue
  BY <1>1 DEF TypeOK, Pending
<1>2. CASE queue' = Append(queue, c)
  <2>1. queue' \in Seq(Command)
    BY <1>2, AppendProperties DEF TypeOK
  <2>2. Pending' = Append(Pending, c)
    BY <1>2, AppendIsConcat, ConcatAssociative, ConcatProperties, SMTT(30)
    DEF TypeOK, Pending
  <2>3. Pending \in Seq(Command)
    BY PendingType
  <2>4. QED
    BY <2>1, <2>2, <2>3, AppendProperties, LenProperties
<1>3. QED
  BY <1>1, <1>2 DEF Enqueue

(* Moving commands from the queue to the batch reorders nothing.            *)
LEMMA PendingFetch ==
  ASSUME TypeOK, FetchBatch
  PROVE  /\ batch' \in Seq(Command) /\ queue' \in Seq(Command)
         /\ Pending' = Pending
<1> DEFINE n == IF Len(queue) < BatchSize THEN Len(queue) ELSE BatchSize
<1>1. queue \in Seq(Command) /\ Len(queue) \in Nat
  BY LenProperties DEF TypeOK
<1>2. n \in 0..Len(queue)
  BY <1>1, PartitionAssumption
<1>3. /\ batch' = SubSeq(queue, 1, n)
      /\ queue' = SubSeq(queue, n + 1, Len(queue))
      /\ batch = << >>
  BY DEF FetchBatch
<1> HIDE DEF n
<1>4. SubSeq(queue, 1, n) \o SubSeq(queue, n + 1, Len(queue)) = queue
  <2>1. 1 \in 1..Len(queue) + 1 /\ n \in 1-1..Len(queue) /\ Len(queue) \in n..Len(queue)
    BY <1>1, <1>2
  <2>2. SubSeq(queue, 1, n) \o SubSeq(queue, n + 1, Len(queue))
          = SubSeq(queue, 1, Len(queue))
    BY <1>1, <2>1, ConcatAdjacentSubSeq
  <2>3. QED
    BY <1>1, <2>2, SubSeqFull
<1>5. \A i \in 1..Len(queue) : queue[i] \in Command
  BY <1>1, ElementOfSeq
<1>6. batch' \in Seq(Command)
  <2>1. 1 \in Int /\ n \in Int /\ \A i \in 1..n : queue[i] \in Command
    BY <1>1, <1>2, <1>5
  <2>2. QED
    BY <1>3, <2>1, SubSeqProperties
<1>7. queue' \in Seq(Command)
  <2>1. /\ n + 1 \in Int /\ Len(queue) \in Int
        /\ \A i \in n + 1..Len(queue) : queue[i] \in Command
    BY <1>1, <1>2, <1>5
  <2>2. QED
    BY <1>3, <2>1, SubSeqProperties
<1>8. QED
  BY <1>1, <1>3, <1>4, <1>6, <1>7, ConcatEmptySeq DEF Pending

-----------------------------------------------------------------------------
(* Types.                                                                   *)

LEMMA PersistType ==
  ASSUME TypeOK, NEW tasks \in Seq(Task), Persist(tasks)
  PROVE  dbQueue' \in Seq(Task) /\ dbOrders' = dbOrders /\ dbTrades' = dbTrades
BY ConcatProperties DEF TypeOK, Persist

LEMMA TaskType ==
  ASSUME NEW id \in OrderId
  PROVE  /\ removeOrder(id) \in Task
         /\ \A o \in Order : saveOrder(id, o) \in Task /\ updateOrder(id, o) \in Task
BY DEF Task, removeOrder, saveOrder, updateOrder

(* The row an order task leaves is a row.                                   *)
LEMMA OrderRowType ==
  ASSUME NEW row \in Order \cup {NoOrder}, NEW task \in Task, task.op # "trade"
  PROVE  task.id \in OrderId /\ OrderRow(row, task) \in Order \cup {NoOrder}
<1>1. CASE task \in [op : {"save", "update"}, id : OrderId, order : Order]
  <2>1. CASE task.op = "save"
    BY <1>1, <2>1 DEF OrderRow
  <2>2. CASE task.op = "update"
    <3>1. CASE row = NoOrder
      BY <1>1, <2>2, <3>1 DEF OrderRow
    <3>2. CASE row # NoOrder
      BY <1>1, <2>2, <3>2 DEF OrderRow, Order
    <3>3. QED
      BY <3>1, <3>2
  <2>3. QED
    BY <1>1, <2>1, <2>2
<1>2. CASE task \in [op : {"remove"}, id : OrderId]
  BY <1>2 DEF OrderRow
<1>3. QED
  BY <1>1, <1>2 DEF Task

(* A report on an order repeats its quantity.                                *)
LEMMA ReportType ==
  ASSUME NEW t \in Told, NEW o \in Order
  PROVE  /\ ReportNew(t, o) \in Told /\ ReportReplace(t, o) \in Told
         /\ ReportCancel(t, o) \in Told /\ ReportFill(t, o) \in Told
         /\ ReportNew(t, o).state = "open" /\ ReportNew(t, o).leaves = o.rem
<1>1. o.rem \in Nat /\ t.answers + 1 \in Nat
  BY DEF Order, Told
<1>2. ReportNew(t, o) \in Told /\ ReportNew(t, o).state = "open" /\ ReportNew(t, o).leaves = o.rem
  BY <1>1 DEF ReportNew, Told
<1>3. ReportFill(t, o) \in Told
  BY <1>1 DEF ReportFill, Told
<1>4. ASSUME NEW state \in {"open", "closed"}
      PROVE  [t EXCEPT !.state = state, !.leaves = o.rem, !.answers = @ + 1] \in Told
  <2>1. [t EXCEPT !.state = state, !.leaves = o.rem] \in Told
    BY <1>1 DEF Told
  <2>2. [t EXCEPT !.state = state, !.leaves = o.rem].answers = t.answers
    BY DEF Told
  <2>3. \A u \in Told, n \in Nat : [u EXCEPT !.answers = n] \in Told
    BY DEF Told
  <2>4. QED
    BY <1>1, <2>1, <2>2, <2>3
<1>5. ReportReplace(t, o) \in Told /\ ReportCancel(t, o) \in Told
  BY <1>4 DEF ReportReplace, ReportCancel
<1>6. QED
  BY <1>2, <1>3, <1>5

(* A rejection leaves the quantity, a refusal the state as well.             *)
LEMMA RefusalType ==
  ASSUME NEW t \in Told
  PROVE  /\ ReportReject(t) \in Told /\ ReportRefuse(t) \in Told
         /\ ReportRefuse(t).state = t.state /\ ReportRefuse(t).leaves = t.leaves
BY DEF ReportReject, ReportRefuse, Told

(* The worker's locals after it takes a New or Modify.                      *)
LEMMA MatchingType ==
  ASSUME NEW kind \in {"New", "Modify"}, NEW id \in OrderId
  PROVE  Matching(kind, id) \in Worker
<1>1. id \in 0..MaxOrders
  BY OrdersAssumption DEF OrderId
<1>2. << >> \in Seq(Trade)
  BY EmptySeq
<1>3. QED
  BY <1>1, <1>2 DEF Matching, Worker

LEMMA IdleType == IdleState \in Worker
<1>1. 0 \in 0..MaxOrders /\ << >> \in Seq(Trade)
  BY EmptySeq, OrdersAssumption
<1>2. QED
  BY <1>1 DEF IdleState, Worker

(* cancelOrder yields a book.                                               *)
LEMMA CancelType ==
  ASSUME TypeOK, RestsOnce, NEW id
  PROVE  cancelOrder(book, id) \in Book
<1>1. ASSUME NEW s \in Side, NEW p \in Prices
      PROVE  RemoveFirst(book[s][p], id) \in Seq(OrderId)
  <2>1. book[s][p] \in Seq(OrderId)
    BY DEF TypeOK, Book
  <2>2. \A i, j \in DOMAIN book[s][p] : book[s][p][i] = book[s][p][j] => i = j
    BY DEF RestsOnce
  <2>3. QED
    BY <2>1, <2>2, RemoveFirstProps
<1>2. QED
  BY <1>1 DEF cancelOrder, Book

(* The trade of a fill is well typed.                                       *)
LEMMA NewTradeType ==
  ASSUME TypeOK, NEW r \in OrderId, orders[r] \in Order, worker.id \in OrderId,
         NEW q \in Nat
  PROVE  NewTrade(r, q) \in Trade
BY DEF TypeOK, NewTrade, Trade, Order

(* Every step keeps the types.  The other invariants are needed where a     *)
(* step dereferences an order: the front of a level, a trade's two parties. *)
LEMMA CoreTypeStep ==
  ASSUME CoreInv, [Next]_vars
  PROVE  TypeOK'
<1> USE DEF CoreInv
<1>0. TypeOK
  OBVIOUS
<1>1. CASE SubmitNew
  <2>1. PICK o \in ClientOrders :
          Enqueue([kind |-> "New", id |-> orderId + 1, order |-> o])
    BY <1>1 DEF SubmitNew
  <2>2. orderId + 1 \in OrderId
    BY <1>0, <1>1, OrdersAssumption DEF SubmitNew, TypeOK, OrderId
  <2>3. [kind |-> "New", id |-> orderId + 1, order |-> o] \in Command
    BY <2>2, PartitionAssumption DEF Command
  <2>4. batch' = batch
    BY <1>1 DEF SubmitNew, workerVars
  <2>5. queue' \in Seq(Command)
    BY <1>0, <2>1, <2>3, <2>4, PendingEnqueue
  <2>6. orderId' \in 0..MaxOrders
    BY <1>0, <1>1, OrdersAssumption DEF SubmitNew, TypeOK
  <2>7. QED
    BY <1>0, <1>1, <2>5, <2>6 DEF SubmitNew, TypeOK, workerVars, dbVars
<1>2. CASE SubmitAmend
  <2>1. PICK c \in [kind : AmendKinds \cap {"Cancel"}, id : 1..orderId]
                   \cup [kind : AmendKinds \cap {"Modify"}, id : 1..orderId,
                         price : Prices, qty : Quantities] : Enqueue(c)
    BY <1>2 DEF SubmitAmend
  <2>2. 1..orderId \subseteq OrderId
    BY <1>0, OrdersAssumption DEF TypeOK, OrderId
  <2>3. c \in Command
    BY <2>1, <2>2 DEF Command
  <2>4. batch' = batch
    BY <1>2 DEF SubmitAmend, workerVars
  <2>5. queue' \in Seq(Command)
    BY <1>0, <2>1, <2>3, <2>4, PendingEnqueue
  <2>6. amends' \in 0..MaxAmends
    BY <1>0, <1>2, PartitionAssumption DEF SubmitAmend, TypeOK
  <2>7. QED
    BY <1>0, <1>2, <2>5, <2>6 DEF SubmitAmend, TypeOK, workerVars, dbVars
<1>3. CASE FetchBatch
  BY <1>0, <1>3, PendingFetch DEF FetchBatch, TypeOK, dbVars
<1>4. CASE RejectNew \/ RejectUnknown \/ RejectCancel
  <2>1. batch # << >> /\ batch' = Tail(batch)
    BY <1>4 DEF RejectNew, RejectUnknown, RejectCancel, Take
  <2>2. Tail(batch) \in Seq(Command) /\ Cmd.id \in OrderId
    BY <1>0, <2>1, CmdType
  <2>3. told' = [told EXCEPT ![Cmd.id] = ReportReject(@)]
          \/ told' = [told EXCEPT ![Cmd.id] = ReportRefuse(@)]
    BY <1>4 DEF RejectNew, RejectUnknown, RejectCancel
  <2>4. told' \in [OrderId -> Told]
    <3>1. ReportReject(told[Cmd.id]) \in Told /\ ReportRefuse(told[Cmd.id]) \in Told
      BY <1>0, <2>2, RefusalType DEF TypeOK
    <3>2. QED
      BY <1>0, <2>2, <2>3, <3>1 DEF TypeOK
  <2>5. UNCHANGED <<orders, book, worker, queue, tradeId, orderId, amends,
                    dbQueue, dbOrders, dbTrades>>
    BY <1>4 DEF RejectNew, RejectUnknown, RejectCancel, Take, dbVars
  <2>6. QED
    BY <1>0, <2>1, <2>2, <2>4, <2>5 DEF TypeOK
<1>5. CASE AcceptNew
  <2>1. batch # << >> /\ Cmd.kind = "New"
    BY <1>5 DEF AcceptNew, Take
  <2>2. Tail(batch) \in Seq(Command) /\ Cmd.id \in OrderId /\ Cmd.order \in Order
    BY <1>0, <2>1, CmdType
  <2>3. <<saveOrder(Cmd.id, Cmd.order)>> \in Seq(Task)
    BY <2>2, TaskType
  <2>4. dbQueue' \in Seq(Task) /\ dbOrders' = dbOrders /\ dbTrades' = dbTrades
    BY <1>0, <1>5, <2>3, PersistType DEF AcceptNew
  <2>5. told' \in [OrderId -> Told]
    BY <1>0, <1>5, <2>2, ReportType DEF AcceptNew, TypeOK
  <2>6. worker' \in Worker
    BY <1>5, <2>2, MatchingType DEF AcceptNew
  <2>7. orders' \in [OrderId -> Order \cup {NoOrder}]
    BY <1>0, <1>5, <2>2 DEF AcceptNew, TypeOK
  <2>8. QED
    BY <1>0, <1>5, <2>2, <2>4, <2>5, <2>6, <2>7 DEF AcceptNew, Take, TypeOK
<1>6. CASE CancelResting
  <2>1. batch # << >>
    BY <1>6 DEF CancelResting, Take
  <2>2. Tail(batch) \in Seq(Command) /\ Cmd.id \in OrderId
    BY <1>0, <2>1, CmdType
  <2>3. <<removeOrder(Cmd.id)>> \in Seq(Task)
    BY <2>2, TaskType
  <2>4. dbQueue' \in Seq(Task) /\ dbOrders' = dbOrders /\ dbTrades' = dbTrades
    BY <1>0, <1>6, <2>3, PersistType DEF CancelResting
  <2>5. orders[Cmd.id] \in Order
    BY <1>0, <1>6, <2>2 DEF CancelResting, TypeOK, Live
  <2>6. told' \in [OrderId -> Told]
    BY <1>0, <1>6, <2>2, <2>5, ReportType DEF CancelResting, TypeOK
  <2>7. book' \in Book
    BY <1>0, <1>6, CancelType DEF CancelResting
  <2>8. orders' \in [OrderId -> Order \cup {NoOrder}]
    BY <1>0, <1>6, <2>2 DEF CancelResting, TypeOK
  <2>9. QED
    BY <1>0, <1>6, <2>2, <2>4, <2>6, <2>7, <2>8 DEF CancelResting, Take, TypeOK
<1>7. CASE StartModify
  <2> DEFINE o == Replaced(orders[Cmd.id], Cmd)
  <2>1. batch # << >> /\ Cmd.kind = "Modify"
    BY <1>7 DEF StartModify, Take
  <2>2. /\ Tail(batch) \in Seq(Command) /\ Cmd.id \in OrderId
        /\ Cmd.price \in Prices /\ Cmd.qty \in Quantities
    BY <1>0, <2>1, CmdType
  <2>3. orders[Cmd.id] \in Order
    BY <1>0, <1>7, <2>2 DEF StartModify, Live, TypeOK
  <2>4. o \in Order
    BY <2>2, <2>3, OrdersAssumption DEF Replaced, Order, OrderStatus
  <2> HIDE DEF o
  <2>5. <<removeOrder(Cmd.id), saveOrder(Cmd.id, o)>> \in Seq(Task)
    BY <2>2, <2>4, TaskType
  <2>6. dbQueue' \in Seq(Task) /\ dbOrders' = dbOrders /\ dbTrades' = dbTrades
    BY <1>0, <1>7, <2>5, PersistType DEF StartModify, o
  <2>7. told' = [told EXCEPT ![Cmd.id] = ReportReplace(@, o)]
    BY <1>7 DEF StartModify, o
  <2>8. told' \in [OrderId -> Told]
    BY <1>0, <2>2, <2>4, <2>7, ReportType DEF TypeOK
  <2>9. worker' \in Worker
    BY <1>7, <2>2, MatchingType DEF StartModify
  <2>10. book' \in Book
    BY <1>0, <1>7, CancelType DEF StartModify
  <2>11. orders' = [orders EXCEPT ![Cmd.id] = o]
    BY <1>7 DEF StartModify, o
  <2>12. orders' \in [OrderId -> Order \cup {NoOrder}]
    BY <1>0, <2>2, <2>4, <2>11 DEF TypeOK
  <2>13. QED
    BY <1>0, <1>7, <2>2, <2>6, <2>8, <2>9, <2>10, <2>12
    DEF StartModify, Take, TypeOK
<1>8. ASSUME NEW p \in Prices, FillAt(p) PROVE TypeOK'
  <2> DEFINE side == Opposite(Incoming.side)
             resting == Head(book[side][p])
             qty == FillQty(Incoming, orders[resting])
  <2>0. CanFillAt(p)
    BY <1>8 DEF FillAt
  <2>1. /\ side \in Side
        /\ book[side][p] \in Seq(OrderId) /\ book[side][p] # << >>
        /\ resting \in OrderId /\ worker.id \in OrderId
        /\ Incoming \in Order /\ orders[resting] \in Order
        /\ qty \in Nat
        /\ Incoming.rem - qty \in Nat /\ orders[resting].rem - qty \in Nat
    BY <1>0, <2>0, CoreFillFacts
  <2>2. /\ tradeId' = tradeId + 1
        /\ worker' = [worker EXCEPT !.trades = Append(@, NewTrade(resting, qty))]
        /\ orders' = [orders EXCEPT ![worker.id] = FillIncoming(@, qty),
                                    ![resting] = FillResting(@, qty)]
        /\ book' = [book EXCEPT ![side][p] = PopFilled(@, orders[resting], qty)]
        /\ UNCHANGED <<queue, batch, orderId, dbQueue, dbOrders, dbTrades, told, amends>>
    BY <1>8 DEF FillAt, dbVars
  <2>3. resting # worker.id
    BY <1>0, <2>0, CoreFillFacts
  <2> HIDE DEF side, resting, qty
  <2>4. FillIncoming(Incoming, qty) \in Order
    BY <2>1 DEF FillIncoming, Order, OrderStatus
  <2>5. FillResting(orders[resting], qty) \in Order
    BY <2>1 DEF FillResting, Order, OrderStatus
  <2>6. orders' \in [OrderId -> Order \cup {NoOrder}]
    BY <1>0, <2>1, <2>2, <2>3, <2>4, <2>5 DEF TypeOK, Incoming
  <2>7. NewTrade(resting, qty) \in Trade
    BY <1>0, <2>1, NewTradeType
  <2>8. worker' \in Worker
    <3>1. worker.trades \in Seq(Trade)
      BY <1>0 DEF TypeOK, Worker
    <3>2. Append(worker.trades, NewTrade(resting, qty)) \in Seq(Trade)
      BY <2>7, <3>1, AppendProperties
    <3>3. QED
      BY <1>0, <2>2, <3>2 DEF TypeOK, Worker
  <2>9. book' \in Book
    <3>1. Tail(book[side][p]) \in Seq(OrderId)
      BY <2>1, HeadTailProperties
    <3>2. PopFilled(book[side][p], orders[resting], qty) \in Seq(OrderId)
      BY <2>1, <3>1 DEF PopFilled
    <3>3. QED
      BY <1>0, <2>1, <2>2, <3>2 DEF TypeOK, Book
  <2>10. tradeId' \in Nat
    BY <1>0, <2>2 DEF TypeOK
  <2>11. QED
    BY <1>0, <2>2, <2>6, <2>8, <2>9, <2>10 DEF TypeOK
<1>9. CASE Fill
  BY <1>8, <1>9 DEF Fill
<1>10. CASE EndMatch
  <2>1. worker.id \in OrderId /\ Incoming \in Order
    BY <1>0, <1>10 DEF EndMatch, WorkerHolds, Live, Incoming, TypeOK
  <2>2. FinalStatus(Incoming) \in OrderStatus
    BY <2>1 DEF FinalStatus, Order, OrderStatus
  <2>3. orders' \in [OrderId -> Order \cup {NoOrder}]
    BY <1>0, <1>10, <2>1, <2>2 DEF EndMatch, Incoming, TypeOK, Order
  <2>4. worker' \in Worker
    BY <1>0, <1>10 DEF EndMatch, TypeOK, Worker
  <2>5. QED
    BY <1>0, <1>10, <2>3, <2>4 DEF EndMatch, TypeOK, dbVars
<1>11. CASE SettleTrade \/ SkipTrade
  <2> DEFINE t == Head(worker.trades)
  <2>1. worker.trades \in Seq(Trade) /\ worker.trades # << >>
    BY <1>0, <1>11 DEF SettleTrade, SkipTrade, TypeOK, Worker
  <2>2. t \in Trade /\ Tail(worker.trades) \in Seq(Trade)
    BY <2>1, HeadTailProperties
  <2>3. worker' \in Worker
    BY <1>0, <1>11, <2>2 DEF SettleTrade, SkipTrade, TypeOK, Worker
  <2>4. t.buy \in OrderId /\ t.sell \in OrderId
    BY <2>2 DEF Trade
  <2> HIDE DEF t
  <2>5. PostTrade(t) \in Seq(Task)
    <3>1. addTrade(t) \in Task
      BY <2>2 DEF addTrade, Task
    <3>2. << >> \in Seq(Task) /\ <<addTrade(t)>> \in Seq(Task)
      BY <3>1, EmptySeq
    <3>3. QED
      BY <3>2 DEF PostTrade
  <2>6. CASE SkipTrade
    BY <1>0, <2>3, <2>5, <2>6, PersistType DEF SkipTrade, TypeOK, t
  <2>7. CASE SettleTrade
    <3>1. Live(t.buy) /\ Live(t.sell)
      BY <2>7 DEF SettleTrade, t
    <3>2. orders[t.buy] \in Order /\ orders[t.sell] \in Order
      BY <1>0, <2>4, <3>1 DEF Live, TypeOK
    <3>3. <<updateOrder(t.buy, orders[t.buy]), updateOrder(t.sell, orders[t.sell])>>
            \in Seq(Task)
      BY <2>4, <3>2, TaskType
    <3>4. RemoveIfFilled(t.buy) \in Seq(Task) /\ RemoveIfFilled(t.sell) \in Seq(Task)
      BY <2>4, TaskType, EmptySeq DEF RemoveIfFilled
    <3> DEFINE tasks == PostTrade(t)
                     \o <<updateOrder(t.buy, orders[t.buy]),
                          updateOrder(t.sell, orders[t.sell])>>
                     \o RemoveIfFilled(t.buy) \o RemoveIfFilled(t.sell)
    <3>5. tasks \in Seq(Task)
      BY <2>5, <3>3, <3>4, ConcatProperties
    <3>6. Persist(tasks)
      BY <2>7 DEF SettleTrade, t
    <3> HIDE DEF tasks
    <3>7. dbQueue' \in Seq(Task) /\ dbOrders' = dbOrders /\ dbTrades' = dbTrades
      BY <1>0, <3>5, <3>6, PersistType
    <3>8. told' \in [OrderId -> Told]
      <4>1. \A u \in Told : ReportFill(u, orders[t.buy]) \in Told
                               /\ ReportFill(u, orders[t.sell]) \in Told
        BY <3>2, ReportType
      <4>2. told' = [told EXCEPT ![t.buy] = ReportFill(@, orders[t.buy]),
                                 ![t.sell] = ReportFill(@, orders[t.sell])]
        BY <2>7 DEF SettleTrade, t
      <4>3. QED
        BY <1>0, <2>4, <4>1, <4>2 DEF TypeOK
    <3>9. orders' \in [OrderId -> Order \cup {NoOrder}]
      BY <1>0, <2>7 DEF SettleTrade, TypeOK
    <3>10. QED
      BY <1>0, <2>3, <2>7, <3>7, <3>8, <3>9 DEF SettleTrade, TypeOK
  <2>8. QED
    BY <1>11, <2>6, <2>7
<1>12. CASE RestIncoming
  <2>1. worker.id \in OrderId /\ Incoming \in Order
    BY <1>0, <1>12 DEF RestIncoming, Settled, MayRest, WorkerHolds, Live, Incoming, TypeOK
  <2>2. Incoming.side \in Side /\ Incoming.price \in Prices
    BY <2>1 DEF Order
  <2>3. Append(book[Incoming.side][Incoming.price], worker.id) \in Seq(OrderId)
    BY <1>0, <2>1, <2>2, AppendProperties DEF TypeOK, Book
  <2>4. book' \in Book
    BY <1>0, <1>12, <2>2, <2>3 DEF RestIncoming, insertOrder, TypeOK, Book
  <2>5. QED
    BY <1>0, <1>12, <2>4, IdleType DEF RestIncoming, TypeOK, dbVars
<1>13. CASE RemoveIncoming
  <2>1. worker.id \in OrderId
    BY <1>13 DEF RemoveIncoming, Settled, WorkerHolds
  <2>2. <<removeOrder(worker.id)>> \in Seq(Task)
    BY <2>1, TaskType
  <2>3. dbQueue' \in Seq(Task) /\ dbOrders' = dbOrders /\ dbTrades' = dbTrades
    BY <1>0, <1>13, <2>2, PersistType DEF RemoveIncoming
  <2>4. orders' \in [OrderId -> Order \cup {NoOrder}]
    BY <1>0, <1>13, <2>1 DEF RemoveIncoming, TypeOK
  <2>5. QED
    BY <1>0, <1>13, <2>3, <2>4, IdleType DEF RemoveIncoming, TypeOK
<1>14. CASE IncomingDone
  BY <1>0, <1>14, IdleType DEF IncomingDone, TypeOK, dbVars
<1>15. CASE RunOrderTask \/ RunTradeTask
  <2>1. dbQueue \in Seq(Task) /\ dbQueue # << >>
    BY <1>0, <1>15 DEF RunOrderTask, RunTradeTask, TypeOK
  <2>2. Head(dbQueue) \in Task /\ Tail(dbQueue) \in Seq(Task)
    BY <2>1, HeadTailProperties
  <2>3. CASE RunOrderTask
    <3> DEFINE task == Head(dbQueue)
    <3>1. task.op # "trade" /\ dbOrders' = [dbOrders EXCEPT ![task.id] = OrderRow(@, task)]
      BY <2>3 DEF RunOrderTask
    <3> HIDE DEF task
    <3>2. task \in Task
      BY <2>2 DEF task
    <3>3. ASSUME NEW row \in Order \cup {NoOrder}
          PROVE  task.id \in OrderId /\ OrderRow(row, task) \in Order \cup {NoOrder}
      BY <3>1, <3>2, OrderRowType
    <3>4. dbOrders' \in [OrderId -> Order \cup {NoOrder}]
      BY <1>0, <3>1, <3>3 DEF TypeOK
    <3>5. QED
      BY <1>0, <2>2, <2>3, <3>4 DEF RunOrderTask, TypeOK, workerVars
  <2>4. CASE RunTradeTask
    <3>1. Head(dbQueue).trade \in Trade
      BY <2>2, <2>4 DEF RunTradeTask, Task
    <3>2. dbTrades' \subseteq Trade
      BY <1>0, <2>4, <3>1 DEF RunTradeTask, TypeOK
    <3>3. QED
      BY <1>0, <2>2, <2>4, <3>2 DEF RunTradeTask, TypeOK, workerVars
  <2>5. QED
    BY <1>15, <2>3, <2>4
<1>16. CASE UNCHANGED vars
  BY <1>0, <1>16 DEF TypeOK, vars
<1>17. QED
  BY <1>1, <1>2, <1>3, <1>4, <1>5, <1>6, <1>7, <1>9, <1>10, <1>11, <1>12,
     <1>13, <1>14, <1>15, <1>16 DEF Next, WorkerStep, DbStep

LEMMA TypeStep ==
  ASSUME IndInv, [Next]_vars
  PROVE  TypeOK'
BY CoreOf, CoreTypeStep

-----------------------------------------------------------------------------
(* Fresh ids: what the queue holds against what is live and reported.       *)

(* A step that takes nothing from the queue and creates no order.           *)
LEMMA FreeKept ==
  ASSUME TypeOK, IdsFree, Pending' = Pending,
         \A id \in OrderId : ~Live(id) => orders'[id] = NoOrder
  PROVE  IdsFree'
<1>1. \A i \in DOMAIN Pending : Pending[i].id \in OrderId
  BY PendingType
<1> HIDE DEF Pending
<1>2. QED
  BY <1>1 DEF IdsFree, Live

(* A step that takes a command and touches only the order it names.         *)
LEMMA FreeTake ==
  ASSUME TypeOK, IdsFree, batch # << >>, batch' = Tail(batch), queue' = queue,
         \A id \in OrderId : id # Cmd.id => orders'[id] = orders[id]
  PROVE  IdsFree'
<1>1. /\ 1 \in DOMAIN Pending /\ Pending[1] = Cmd
      /\ DOMAIN Pending' = 1..(Len(Pending) - 1)
      /\ \A i \in 1..(Len(Pending) - 1) : Pending'[i] = Pending[i + 1]
  BY PendingTake
<1>2. /\ Len(Pending) \in Nat /\ DOMAIN Pending = 1..Len(Pending)
      /\ \A i \in DOMAIN Pending : Pending[i].id \in OrderId
  BY PendingType
<1> SUFFICES ASSUME NEW i \in DOMAIN Pending', Pending'[i].kind = "New"
             PROVE  /\ orders'[Pending'[i].id] = NoOrder
                    /\ \A j \in 1..(i - 1) : Pending'[j].id # Pending'[i].id
  BY DEF IdsFree, Live
<1>3. i + 1 \in DOMAIN Pending /\ i \in Nat /\ i + 1 > 1 /\ Pending'[i] = Pending[i + 1]
  BY <1>1, <1>2
<1>4. /\ orders[Pending[i + 1].id] = NoOrder
      /\ \A j \in 1..i : Pending[j].id # Pending[i + 1].id
  <2>1. Pending[i + 1].kind = "New"
    BY <1>3
  <2>2. (i + 1) - 1 = i
    BY <1>3
  <2>3. QED
    BY <1>3, <2>1, <2>2 DEF IdsFree, Live
<1>5. Pending[i + 1].id # Cmd.id
  <2>1. 1 \in 1..i
    BY <1>1, <1>2
  <2>2. QED
    BY <1>1, <1>4, <2>1
<1>6. ASSUME NEW j \in 1..(i - 1) PROVE Pending'[j].id # Pending'[i].id
  <2>1. j \in 1..(Len(Pending) - 1) /\ j + 1 \in 1..i
    BY <1>1, <1>2
  <2>2. QED
    BY <1>1, <1>3, <1>4, <2>1
<1>7. QED
  BY <1>2, <1>3, <1>4, <1>5, <1>6

(* Taking a command leaves only commands that were pending.                 *)
LEMMA TakeSubset ==
  ASSUME TypeOK, batch # << >>, batch' = Tail(batch), queue' = queue
  PROVE  \A i \in DOMAIN Pending' : \E k \in DOMAIN Pending : Pending'[i] = Pending[k]
<1>1. /\ DOMAIN Pending' = 1..(Len(Pending) - 1)
      /\ \A i \in 1..(Len(Pending) - 1) : Pending'[i] = Pending[i + 1]
  BY PendingTake
<1>2. Len(Pending) \in Nat /\ DOMAIN Pending = 1..Len(Pending)
  BY PendingType
<1>3. QED
  BY <1>1, <1>2

(* Submitting a command: a new order brings an id that nothing names yet.   *)
LEMMA EnqueueFree ==
  ASSUME TypeOK, IdsFree, OrdersKnown,
         NEW c \in Command, Enqueue(c), UNCHANGED workerVars,
         orderId' \in Nat, orderId <= orderId', c.id <= orderId',
         c.kind = "New" => c.id = orderId + 1 /\ c.order \in ClientOrders
  PROVE  IdsFree' /\ OrdersKnown'
<1>1. UNCHANGED <<orders, batch>>
  BY DEF workerVars
<1>2. /\ Len(Pending) \in Nat /\ DOMAIN Pending = 1..Len(Pending)
      /\ \A i \in DOMAIN Pending : Pending[i].id \in OrderId
  BY PendingType
<1>3. \A id \in OrderId : id \in Nat
  BY DEF OrderId
<1>4. orderId \in Nat
  BY DEF TypeOK
<1>5. CASE Pending' = Pending
  <2> HIDE DEF Pending
  <2>1. IdsFree'
    BY <1>1, <1>2, <1>5 DEF IdsFree, Live
  <2>2. OrdersKnown'
    BY <1>1, <1>2, <1>3, <1>4, <1>5 DEF OrdersKnown, Live
  <2>3. QED
    BY <2>1, <2>2
<1>6. CASE /\ DOMAIN Pending' = 1..(Len(Pending) + 1)
           /\ \A i \in 1..Len(Pending) : Pending'[i] = Pending[i]
           /\ Pending'[Len(Pending) + 1] = c
  <2> DEFINE n == Len(Pending)
  <2>1. ASSUME NEW i \in DOMAIN Pending'
        PROVE  (i \in DOMAIN Pending /\ i # n + 1 /\ Pending'[i] = Pending[i])
                 \/ (i = n + 1 /\ Pending'[i] = c)
    BY <1>2, <1>6
  <2>2. OrdersKnown'
    <3>1. \A i \in DOMAIN Pending' :
            /\ Pending'[i].id <= orderId'
            /\ Pending'[i].kind = "New" => Pending'[i].order \in ClientOrders
      BY <1>2, <1>3, <1>4, <2>1 DEF OrdersKnown
    <3>2. QED
      BY <1>1, <1>3, <1>4, <3>1 DEF OrdersKnown, Live
  <2>3. ASSUME NEW i \in DOMAIN Pending', Pending'[i].kind = "New"
        PROVE  /\ orders'[Pending'[i].id] = NoOrder
               /\ \A j \in 1..(i - 1) : Pending'[j].id # Pending'[i].id
    <3>1. CASE i \in DOMAIN Pending /\ Pending'[i] = Pending[i]
      <4>1. \A j \in 1..(i - 1) : j \in 1..Len(Pending)
        BY <1>2, <3>1
      <4>2. QED
        BY <1>1, <1>2, <1>6, <2>3, <3>1, <4>1 DEF IdsFree, Live
    <3>2. CASE i = n + 1 /\ Pending'[i] = c
      <4>1. c.id = orderId + 1 /\ c.id \in OrderId
        BY <2>3, <3>2 DEF Command
      <4>2. orders[c.id] = NoOrder
        BY <1>4, <4>1 DEF OrdersKnown, Live
      <4>3. ASSUME NEW j \in 1..(i - 1) PROVE Pending'[j].id # c.id
        <5>1. j \in DOMAIN Pending /\ Pending'[j] = Pending[j]
          BY <1>2, <1>6, <3>2
        <5>2. Pending[j].id <= orderId /\ Pending[j].id \in Nat
          BY <1>2, <1>3, <5>1 DEF OrdersKnown
        <5>3. QED
          BY <1>4, <4>1, <5>1, <5>2
      <4>4. QED
        BY <1>1, <3>2, <4>2, <4>3
    <3>3. QED
      BY <2>1, <3>1, <3>2
  <2>4. IdsFree'
    BY <2>3 DEF IdsFree, Live
  <2>5. QED
    BY <2>2, <2>4
<1>7. QED
  BY <1>1, <1>5, <1>6, PendingEnqueue

(* OrdersKnown after a step that takes a command, or takes none: every live   *)
(* order is consistent and nothing new is named.                            *)
LEMMA KnownKept ==
  ASSUME TypeOK, OrdersKnown, orderId' = orderId,
         \A i \in DOMAIN Pending' : \E k \in DOMAIN Pending : Pending'[i] = Pending[k],
         \A id \in OrderId : orders'[id] # NoOrder =>
            /\ orders'[id].status = "Filled" => orders'[id].rem = 0
            /\ id <= orderId
  PROVE  OrdersKnown'
BY DEF OrdersKnown, Live

(* Every step keeps ids fresh and orders consistent.                        *)
LEMMA CoreFreshStep ==
  ASSUME CoreInv, [Next]_vars
  PROVE  IdsFree' /\ OrdersKnown'
<1>0. TypeOK /\ IdsFree /\ OrdersKnown /\ WorkerHolds /\ PointersLive
  BY DEF CoreInv
<1>1. CASE SubmitNew
  <2>1. PICK o \in ClientOrders :
          Enqueue([kind |-> "New", id |-> orderId + 1, order |-> o])
    BY <1>1 DEF SubmitNew
  <2> DEFINE c == [kind |-> "New", id |-> orderId + 1, order |-> o]
  <2>2. orderId \in Nat /\ orderId + 1 \in OrderId /\ orderId' = orderId + 1
    BY <1>0, <1>1, OrdersAssumption DEF SubmitNew, TypeOK, OrderId
  <2>3. c \in Command
    BY <2>2, PartitionAssumption DEF Command
  <2>4. UNCHANGED workerVars
    BY <1>1 DEF SubmitNew
  <2>5. c.id = orderId + 1 /\ c.order \in ClientOrders
    OBVIOUS
  <2>6. Enqueue(c)
    BY <2>1
  <2>7. orderId' \in Nat /\ orderId <= orderId' /\ c.id <= orderId'
    BY <2>2
  <2> HIDE DEF c
  <2>8. QED
    BY <1>0, <2>3, <2>4, <2>5, <2>6, <2>7, EnqueueFree
<1>2. CASE SubmitAmend
  <2>1. PICK c \in [kind : AmendKinds \cap {"Cancel"}, id : 1..orderId]
                   \cup [kind : AmendKinds \cap {"Modify"}, id : 1..orderId,
                         price : Prices, qty : Quantities] : Enqueue(c)
    BY <1>2 DEF SubmitAmend
  <2>2. 1..orderId \subseteq OrderId /\ orderId \in Nat
    BY <1>0, OrdersAssumption DEF TypeOK, OrderId
  <2>3. c \in Command /\ c.id \in 1..orderId /\ c.kind # "New"
    BY <2>1, <2>2 DEF Command
  <2>4. UNCHANGED workerVars /\ orderId' = orderId
    BY <1>2 DEF SubmitAmend
  <2>5. orderId' \in Nat /\ orderId <= orderId' /\ c.id <= orderId'
    BY <2>2, <2>3, <2>4
  <2>6. QED
    BY <1>0, <2>1, <2>3, <2>4, <2>5, EnqueueFree
<1>3. CASE FetchBatch
  <2>1. Pending' = Pending /\ UNCHANGED <<orders, orderId>>
    BY <1>0, <1>3, PendingFetch DEF FetchBatch
  <2> HIDE DEF Pending
  <2>2. QED
    BY <1>0, <2>1 DEF IdsFree, OrdersKnown, Live
<1>4. ASSUME RejectNew \/ RejectUnknown \/ RejectCancel \/ AcceptNew
               \/ CancelResting \/ StartModify
      PROVE  IdsFree' /\ OrdersKnown'
  <2>1. batch # << >> /\ batch' = Tail(batch) /\ queue' = queue /\ orderId' = orderId
    BY <1>4 DEF RejectNew, RejectUnknown, RejectCancel, AcceptNew, CancelResting,
                StartModify, Take
  <2>2. Cmd.id \in OrderId
    BY <1>0, <2>1, CmdType
  <2>3. \A id \in OrderId : id # Cmd.id => orders'[id] = orders[id]
    BY <1>0, <1>4, <2>2 DEF RejectNew, RejectUnknown, RejectCancel, AcceptNew,
                CancelResting, StartModify, TypeOK
  <2>4. 1 \in DOMAIN Pending /\ Pending[1] = Cmd
    BY <1>0, <2>1, PendingTake
  <2>5. Cmd.id <= orderId /\ (Cmd.kind = "New" => Cmd.order \in ClientOrders)
    BY <1>0, <2>4 DEF OrdersKnown
  <2>6. orders'[Cmd.id] # NoOrder /\ orders'[Cmd.id].status = "Filled"
          => orders'[Cmd.id].rem = 0
    <3>1. CASE UNCHANGED orders
      BY <1>0, <2>2, <3>1 DEF OrdersKnown, Live
    <3>2. CASE AcceptNew
      <4>1. orders'[Cmd.id] = Cmd.order /\ Cmd.kind = "New"
        BY <1>0, <2>2, <3>2 DEF AcceptNew, Take, TypeOK
      <4>2. Cmd.order.status = "New"
        BY <2>5, <4>1, PartitionAssumption
      <4>3. QED
        BY <4>1, <4>2
    <3>3. CASE CancelResting
      BY <1>0, <2>2, <3>3 DEF CancelResting, TypeOK
    <3>4. CASE StartModify
      <4>1. orders'[Cmd.id] = Replaced(orders[Cmd.id], Cmd)
        BY <1>0, <2>2, <3>4 DEF StartModify, TypeOK
      <4>2. orders[Cmd.id] \in Order
        BY <1>0, <2>2, <3>4 DEF StartModify, Live, TypeOK
      <4>3. orders'[Cmd.id].status = "New"
        BY <4>1, <4>2 DEF Replaced, Order
      <4>4. QED
        BY <4>3
    <3>5. QED
      BY <1>4, <3>1, <3>2, <3>3, <3>4 DEF RejectNew, RejectUnknown, RejectCancel
  <2>7. IdsFree'
    BY <1>0, <2>1, <2>3, FreeTake
  <2>8. \A i \in DOMAIN Pending' : \E k \in DOMAIN Pending : Pending'[i] = Pending[k]
    BY <1>0, <2>1, TakeSubset
  <2>9. \A id \in OrderId : orders'[id] # NoOrder =>
          /\ orders'[id].status = "Filled" => orders'[id].rem = 0
          /\ id <= orderId
    BY <1>0, <2>3, <2>5, <2>6 DEF OrdersKnown, Live
  <2>10. QED
    BY <1>0, <2>1, <2>7, <2>8, <2>9, KnownKept
<1>5. ASSUME UNCHANGED <<batch, queue, orderId>>,
             \A id \in OrderId : ~Live(id) => orders'[id] = NoOrder,
             \A id \in OrderId : orders'[id] # NoOrder =>
               (orders'[id].status = "Filled" => orders'[id].rem = 0)
      PROVE  IdsFree' /\ OrdersKnown'
  <2>1. Pending' = Pending
    BY <1>5 DEF Pending
  <2>2. IdsFree'
    BY <1>0, <1>5, <2>1, FreeKept
  <2>3. \A i \in DOMAIN Pending' : \E k \in DOMAIN Pending : Pending'[i] = Pending[k]
    BY <2>1
  <2>4. \A id \in OrderId : orders'[id] # NoOrder => id <= orderId
    BY <1>0, <1>5 DEF OrdersKnown
  <2>5. QED
    BY <1>0, <1>5, <2>2, <2>3, <2>4, KnownKept
<1>6. CASE Fill
  <2>1. PICK p \in Prices : FillAt(p)
    BY <1>6 DEF Fill
  <2> DEFINE side == Opposite(Incoming.side)
             resting == Head(book[side][p])
             qty == FillQty(Incoming, orders[resting])
  <2>2. CanFillAt(p)
    BY <2>1 DEF FillAt
  <2>3. /\ resting \in OrderId /\ worker.id \in OrderId /\ resting # worker.id
        /\ Incoming \in Order /\ orders[resting] \in Order
        /\ qty \in Nat
    BY <1>0, <2>2, CoreFillFacts
  <2>4. /\ orders' = [orders EXCEPT ![worker.id] = FillIncoming(@, qty),
                                    ![resting] = FillResting(@, qty)]
        /\ UNCHANGED <<batch, queue, orderId>>
    BY <2>1 DEF FillAt
  <2> HIDE DEF side, resting, qty
  <2>5. /\ orders'[worker.id] = FillIncoming(Incoming, qty)
        /\ orders'[resting] = FillResting(orders[resting], qty)
        /\ \A id \in OrderId \ {worker.id, resting} : orders'[id] = orders[id]
    BY <1>0, <2>3, <2>4 DEF TypeOK, Incoming
  <2>6. orders'[worker.id].status # "Filled"
    BY <2>3, <2>5 DEF FillIncoming, Order
  <2>7. orders'[resting].status = "Filled" => orders'[resting].rem = 0
    <3>1. CASE orders[resting].rem = qty
      BY <2>3, <2>5, <3>1 DEF FillResting, Order
    <3>2. CASE orders[resting].rem # qty
      BY <2>3, <2>5, <3>2 DEF FillResting, Order
    <3>3. QED
      BY <3>1, <3>2
  <2>8. Live(worker.id) /\ Live(resting)
    BY <2>3, OrdersAssumption DEF Live, Incoming
  <2>9. \A id \in OrderId : ~Live(id) => orders'[id] = NoOrder
    BY <2>4, <2>5, <2>8 DEF Live
  <2>10. \A id \in OrderId : orders'[id] # NoOrder =>
           (orders'[id].status = "Filled" => orders'[id].rem = 0)
    BY <1>0, <2>5, <2>6, <2>7 DEF OrdersKnown, Live
  <2>11. QED
    BY <1>5, <2>4, <2>9, <2>10
<1>7. CASE EndMatch
  <2>1. worker.id \in OrderId /\ Live(worker.id) /\ Incoming \in Order
    BY <1>0, <1>7 DEF EndMatch, WorkerHolds, Live, Incoming, TypeOK
  <2>2. /\ orders' = [orders EXCEPT ![worker.id].status = FinalStatus(Incoming)]
        /\ UNCHANGED <<batch, queue, orderId>>
    BY <1>7 DEF EndMatch
  <2>3. /\ orders'[worker.id].status = FinalStatus(Incoming)
        /\ orders'[worker.id].rem = Incoming.rem
        /\ \A id \in OrderId \ {worker.id} : orders'[id] = orders[id]
    BY <1>0, <2>1, <2>2 DEF TypeOK, Incoming, Order
  <2>4. FinalStatus(Incoming) = "Filled" => Incoming.rem = 0
    BY <1>0, <2>1 DEF FinalStatus, OrdersKnown, Incoming
  <2>5. \A id \in OrderId : ~Live(id) => orders'[id] = NoOrder
    BY <2>1, <2>2, <2>3 DEF Live
  <2>6. \A id \in OrderId : orders'[id] # NoOrder =>
          (orders'[id].status = "Filled" => orders'[id].rem = 0)
    BY <1>0, <2>3, <2>4 DEF OrdersKnown, Live
  <2>7. QED
    BY <1>5, <2>2, <2>5, <2>6
<1>8. CASE SettleTrade
  <2> DEFINE t == Head(worker.trades)
  <2>1. /\ Live(t.buy) /\ Live(t.sell)
        /\ orders' = [i \in OrderId |->
                        IF i \in {t.buy, t.sell} /\ orders[i].rem = 0
                        THEN NoOrder ELSE orders[i]]
        /\ UNCHANGED <<batch, queue, orderId>>
    BY <1>8 DEF SettleTrade
  <2> HIDE DEF t
  <2>2. \A id \in OrderId : ~Live(id) => orders'[id] = NoOrder
    BY <1>0, <2>1 DEF Live, TypeOK
  <2>3. \A id \in OrderId : orders'[id] # NoOrder =>
          (orders'[id].status = "Filled" => orders'[id].rem = 0)
    BY <1>0, <2>1 DEF OrdersKnown, Live
  <2>4. QED
    BY <1>5, <2>1, <2>2, <2>3
<1>9. CASE SkipTrade \/ RestIncoming \/ IncomingDone \/ RunOrderTask \/ RunTradeTask
             \/ UNCHANGED vars
  <2>1. UNCHANGED <<orders, batch, queue, orderId>>
    BY <1>9 DEF SkipTrade, RestIncoming, IncomingDone, RunOrderTask, RunTradeTask,
                workerVars, vars
  <2>2. \A id \in OrderId : orders'[id] # NoOrder =>
          (orders'[id].status = "Filled" => orders'[id].rem = 0)
    BY <1>0, <2>1 DEF OrdersKnown, Live
  <2>3. QED
    BY <1>5, <2>1, <2>2 DEF Live
<1>10. CASE RemoveIncoming
  <2>1. /\ orders' = [orders EXCEPT ![worker.id] = NoOrder]
        /\ UNCHANGED <<batch, queue, orderId>>
    BY <1>10 DEF RemoveIncoming
  <2>2. \A id \in OrderId : orders'[id] = NoOrder \/ orders'[id] = orders[id]
    BY <1>0, <2>1 DEF TypeOK
  <2>3. \A id \in OrderId : orders'[id] # NoOrder =>
          (orders'[id].status = "Filled" => orders'[id].rem = 0)
    BY <1>0, <2>2 DEF OrdersKnown, Live
  <2>4. QED
    BY <1>5, <2>1, <2>2, <2>3 DEF Live
<1>11. QED
  BY <1>1, <1>2, <1>3, <1>4, <1>6, <1>7, <1>8, <1>9, <1>10 DEF Next, WorkerStep, DbStep

(* A new order that stays behind the command taken has another id.          *)
LEMMA TakeApart ==
  ASSUME TypeOK, IdsFree, batch # << >>, batch' = Tail(batch), queue' = queue,
         NEW i \in DOMAIN Pending', Pending'[i].kind = "New"
  PROVE  \E k \in DOMAIN Pending : Pending'[i] = Pending[k] /\ Pending[k].id # Cmd.id
<1>1. /\ 1 \in DOMAIN Pending /\ Pending[1] = Cmd
      /\ DOMAIN Pending' = 1..(Len(Pending) - 1)
      /\ \A k \in 1..(Len(Pending) - 1) : Pending'[k] = Pending[k + 1]
  BY PendingTake
<1>2. Len(Pending) \in Nat /\ DOMAIN Pending = 1..Len(Pending)
  BY PendingType
<1>3. /\ i + 1 \in DOMAIN Pending /\ Pending'[i] = Pending[i + 1]
      /\ 1 \in 1..((i + 1) - 1)
  BY <1>1, <1>2
<1>4. Pending[1].id # Pending[i + 1].id
  BY <1>3 DEF IdsFree
<1>5. QED
  BY <1>1, <1>3, <1>4

(* No client has heard of an order that is still on its way, and reports    *)
(* name only ids that were handed out.                                      *)
LEMMA FreshStep ==
  ASSUME IndInv, [Next]_vars
  PROVE  NewIdsFresh' /\ OrdersInv'
<1> DEFINE Unheard == \A i \in DOMAIN Pending' :
                        Pending'[i].kind = "New" => told'[Pending'[i].id].state = "nothing"
           Handed == \A id \in OrderId : told'[id].state # "nothing" => id <= orderId'
<1>0. /\ TypeOK /\ NewIdsFresh /\ OrdersInv /\ IdsFree /\ WorkerInv /\ PointersLive
      /\ orderId \in Nat /\ \A id \in OrderId : id \in Nat
  BY CoreOf DEF IndInv, CoreInv, TypeOK, OrderId
<1>1. IdsFree' /\ OrdersKnown'
  BY CoreOf, CoreFreshStep
<1>2. ASSUME Unheard, Handed PROVE NewIdsFresh' /\ OrdersInv'
  BY <1>1, <1>2 DEF NewIdsFresh, IdsFree, OrdersInv, OrdersKnown, Live
<1>3. ASSUME NEW c \in Command, Enqueue(c), UNCHANGED workerVars,
             orderId' \in Nat, orderId <= orderId', c.kind = "New" => c.id = orderId + 1
      PROVE  Unheard /\ Handed
  <2>1. UNCHANGED <<told, batch>>
    BY <1>3 DEF workerVars
  <2>2. /\ Len(Pending) \in Nat /\ DOMAIN Pending = 1..Len(Pending)
        /\ \A i \in DOMAIN Pending : Pending[i].id \in OrderId
    BY <1>0, PendingType
  <2>3. c.kind = "New" => told[c.id].state = "nothing"
    BY <1>0, <1>3 DEF OrdersInv, Command
  <2>4. \A i \in DOMAIN Pending' : Pending'[i] = c \/ \E k \in DOMAIN Pending : Pending'[i] = Pending[k]
    <3>1. CASE Pending' = Pending
      BY <3>1
    <3>2. CASE /\ DOMAIN Pending' = 1..(Len(Pending) + 1)
               /\ \A i \in 1..Len(Pending) : Pending'[i] = Pending[i]
               /\ Pending'[Len(Pending) + 1] = c
      BY <2>2, <3>2
    <3>3. QED
      BY <1>0, <1>3, <2>1, <3>1, <3>2, PendingEnqueue
  <2>5. Unheard
    BY <1>0, <2>1, <2>3, <2>4 DEF NewIdsFresh
  <2>6. Handed
    BY <1>0, <1>3, <2>1 DEF OrdersInv
  <2>7. QED
    BY <2>5, <2>6
<1>4. CASE SubmitNew
  <2>1. PICK o \in ClientOrders :
          Enqueue([kind |-> "New", id |-> orderId + 1, order |-> o])
    BY <1>4 DEF SubmitNew
  <2> DEFINE c == [kind |-> "New", id |-> orderId + 1, order |-> o]
  <2>2. orderId + 1 \in OrderId /\ orderId' = orderId + 1 /\ UNCHANGED workerVars
    BY <1>0, <1>4, OrdersAssumption DEF SubmitNew, TypeOK, OrderId
  <2>3. c \in Command /\ c.id = orderId + 1 /\ Enqueue(c)
    BY <2>1, <2>2, PartitionAssumption DEF Command
  <2>4. orderId' \in Nat /\ orderId <= orderId'
    BY <1>0, <2>2
  <2> HIDE DEF c
  <2>5. Unheard /\ Handed
    BY <1>3, <2>2, <2>3, <2>4
  <2>6. QED
    BY <1>2, <2>5
<1>5. CASE SubmitAmend
  <2>1. PICK c \in [kind : AmendKinds \cap {"Cancel"}, id : 1..orderId]
                   \cup [kind : AmendKinds \cap {"Modify"}, id : 1..orderId,
                         price : Prices, qty : Quantities] : Enqueue(c)
    BY <1>5 DEF SubmitAmend
  <2>2. 1..orderId \subseteq OrderId
    BY <1>0, OrdersAssumption DEF TypeOK, OrderId
  <2>3. c \in Command /\ c.kind # "New"
    BY <2>1, <2>2 DEF Command
  <2>4. UNCHANGED workerVars /\ orderId' = orderId
    BY <1>5 DEF SubmitAmend
  <2>5. orderId' \in Nat /\ orderId <= orderId'
    BY <1>0, <2>4
  <2>6. Unheard /\ Handed
    BY <1>3, <2>1, <2>3, <2>4, <2>5
  <2>7. QED
    BY <1>2, <2>6
<1>6. CASE FetchBatch
  <2>1. Pending' = Pending /\ UNCHANGED <<told, orderId>>
    BY <1>0, <1>6, PendingFetch DEF FetchBatch
  <2> HIDE DEF Pending
  <2>2. Unheard /\ Handed
    BY <1>0, <2>1 DEF NewIdsFresh, OrdersInv
  <2>3. QED
    BY <1>2, <2>2
<1>7. CASE RejectNew \/ RejectUnknown \/ RejectCancel \/ AcceptNew
             \/ CancelResting \/ StartModify
  <2>1. batch # << >> /\ batch' = Tail(batch) /\ queue' = queue /\ orderId' = orderId
    BY <1>7 DEF RejectNew, RejectUnknown, RejectCancel, AcceptNew, CancelResting,
                StartModify, Take
  <2>2. Cmd.id \in OrderId
    BY <1>0, <2>1, CmdType
  <2>3. \A id \in OrderId : id # Cmd.id => told'[id] = told[id]
    BY <1>0, <1>7, <2>2 DEF RejectNew, RejectUnknown, RejectCancel, AcceptNew,
                CancelResting, StartModify, TypeOK
  <2>4. 1 \in DOMAIN Pending /\ Pending[1] = Cmd
    BY <1>0, <2>1, PendingTake
  <2>5. Cmd.id <= orderId
    BY <1>0, <2>4 DEF OrdersInv
  <2>6. Unheard
    <3> SUFFICES ASSUME NEW i \in DOMAIN Pending', Pending'[i].kind = "New"
                 PROVE  told'[Pending'[i].id].state = "nothing"
      OBVIOUS
    <3>1. PICK k \in DOMAIN Pending : Pending'[i] = Pending[k] /\ Pending[k].id # Cmd.id
      BY <1>0, <2>1, TakeApart
    <3>2. told[Pending[k].id].state = "nothing" /\ Pending[k].id \in OrderId
      BY <1>0, <3>1, PendingType DEF NewIdsFresh
    <3>3. QED
      BY <2>3, <3>1, <3>2
  <2>7. Handed
    BY <1>0, <2>1, <2>3, <2>5 DEF OrdersInv
  <2>8. QED
    BY <1>2, <2>6, <2>7
<1>8. ASSUME UNCHANGED <<batch, queue, orderId>>,
             \A id \in OrderId : ~Live(id) => told'[id] = told[id]
      PROVE  NewIdsFresh' /\ OrdersInv'
  <2>1. Pending' = Pending
    BY <1>8 DEF Pending
  <2>2. \A i \in DOMAIN Pending : Pending[i].id \in OrderId
    BY <1>0, PendingType
  <2>3. Unheard
    <3> HIDE DEF Pending
    <3>1. QED
      BY <1>0, <1>8, <2>1, <2>2 DEF NewIdsFresh
  <2>4. Handed
    BY <1>0, <1>8 DEF OrdersInv
  <2>5. QED
    BY <1>2, <2>3, <2>4
<1>9. CASE SettleTrade
  <2>1. /\ Live(Head(worker.trades).buy) /\ Live(Head(worker.trades).sell)
        /\ told' = [told EXCEPT
             ![Head(worker.trades).buy] = ReportFill(@, orders[Head(worker.trades).buy]),
             ![Head(worker.trades).sell] = ReportFill(@, orders[Head(worker.trades).sell])]
        /\ UNCHANGED <<batch, queue, orderId>>
    BY <1>9 DEF SettleTrade
  <2>2. \A id \in OrderId : ~Live(id) => told'[id] = told[id]
    BY <1>0, <2>1 DEF Live, TypeOK
  <2>3. QED
    BY <1>8, <2>1, <2>2
<1>10. CASE Fill \/ EndMatch \/ SkipTrade \/ RestIncoming \/ RemoveIncoming \/ IncomingDone
              \/ RunOrderTask \/ RunTradeTask \/ UNCHANGED vars
  <2>1. UNCHANGED <<told, batch, queue, orderId>>
    BY <1>10 DEF Fill, FillAt, EndMatch, SkipTrade, RestIncoming, RemoveIncoming,
                 IncomingDone, RunOrderTask, RunTradeTask, workerVars, vars
  <2>2. QED
    BY <1>8, <2>1
<1>11. QED
  BY <1>4, <1>5, <1>6, <1>7, <1>9, <1>10 DEF Next, WorkerStep, DbStep

-----------------------------------------------------------------------------
(* The book.                                                                *)

(* Resting, spelled with positions.                                         *)
LEMMA RestingIff ==
  ASSUME NEW bk \in Book, NEW id
  PROVE  Resting(bk, id) <=>
           \E s \in Side, p \in Prices : \E i \in DOMAIN bk[s][p] : bk[s][p][i] = id
<1>1. \A s \in Side, p \in Prices : DOMAIN bk[s][p] = 1..Len(bk[s][p])
  BY LenProperties DEF Book
<1>2. QED
  BY <1>1 DEF Resting, Contains

(* Every entry of the new book is an entry of the old one.                  *)
Shrinks ==
  \A s \in Side, p \in Prices : \A i \in DOMAIN book'[s][p] :
    \E k \in DOMAIN book[s][p] : book'[s][p][i] = book[s][p][k]

LEMMA ShrinkResting ==
  ASSUME TypeOK, TypeOK', Shrinks, NEW id, Resting(book', id)
  PROVE  Resting(book, id)
<1>1. book \in Book /\ book' \in Book
  BY DEF TypeOK
<1>2. PICK s \in Side, p \in Prices : \E i \in DOMAIN book'[s][p] : book'[s][p][i] = id
  BY <1>1, RestingIff
<1>3. \E k \in DOMAIN book[s][p] : book[s][p][k] = id
  BY <1>2 DEF Shrinks
<1>4. QED
  BY <1>1, <1>3, RestingIff

LEMMA ShrinkUncrossed ==
  ASSUME TypeOK, TypeOK', Shrinks, BookUncrossed
  PROVE  BookUncrossed'
<1>1. ASSUME NEW s \in Side, NEW p \in Levels(book', s) PROVE p \in Levels(book, s)
  <2>1. p \in Prices /\ book'[s][p] # << >> /\ book'[s][p] \in Seq(OrderId)
    BY DEF Levels, TypeOK, Book
  <2>2. 1 \in DOMAIN book'[s][p]
    BY <2>1, EmptySeq, LenProperties
  <2>3. \E k \in DOMAIN book[s][p] : TRUE
    BY <2>1, <2>2 DEF Shrinks
  <2>4. book[s][p] # << >>
    BY <2>3
  <2>5. QED
    BY <2>1, <2>4 DEF Levels
<1>2. "Buy" \in Side /\ "Sell" \in Side
  BY DEF Side
<1>3. QED
  BY <1>1, <1>2 DEF BookUncrossed, Levels

(* What cancelOrder does to the whole book.                                 *)
LEMMA CancelBook ==
  ASSUME TypeOK, RestsOnce, NEW id, book' = cancelOrder(book, id)
  PROVE  /\ Shrinks
         /\ \A s \in Side, p \in Prices : \A i \in DOMAIN book'[s][p] : book'[s][p][i] # id
         /\ RestsOnce'
<1>1. ASSUME NEW s \in Side, NEW p \in Prices
      PROVE  /\ \A i \in DOMAIN book'[s][p] :
                  \E k \in DOMAIN book[s][p] : book'[s][p][i] = book[s][p][k]
             /\ \A i \in DOMAIN book'[s][p] : book'[s][p][i] # id
             /\ \A i, j \in DOMAIN book'[s][p] : book'[s][p][i] = book'[s][p][j] => i = j
  <2>1. book[s][p] \in Seq(OrderId)
    BY DEF TypeOK, Book
  <2>2. \A i, j \in DOMAIN book[s][p] : book[s][p][i] = book[s][p][j] => i = j
    BY DEF RestsOnce
  <2>3. book'[s][p] = RemoveFirst(book[s][p], id)
    BY DEF cancelOrder
  <2>4. QED
    BY <2>1, <2>2, <2>3, RemoveFirstProps
<1>2. QED
  BY <1>1 DEF Shrinks, RestsOnce

LEMMA NotLiveNotResting ==
  ASSUME TypeOK, PointersLive, NEW id, Resting(book, id)
  PROVE  id \in OrderId /\ Live(id) /\ orders[id].rem > 0
<1>1. PICK s \in Side, p \in Prices : \E i \in DOMAIN book[s][p] : book[s][p][i] = id
  BY RestingIff DEF TypeOK
<1>2. book[s][p] \in Seq(OrderId)
  BY DEF TypeOK, Book
<1>3. id \in OrderId
  BY <1>1, <1>2, LenProperties
<1>4. QED
  BY <1>1, <1>3 DEF PointersLive

(* Orders that stay in the book unchanged stay well placed.                 *)
LEMMA PointersKept ==
  ASSUME TypeOK, TypeOK', PointersLive, Shrinks,
         \A id \in OrderId : Resting(book', id) => orders'[id] = orders[id]
  PROVE  PointersLive'
<1> SUFFICES ASSUME NEW s \in Side, NEW p \in Prices, NEW i \in DOMAIN book'[s][p]
             PROVE  LET id == book'[s][p][i]
                    IN /\ orders'[id] # NoOrder
                       /\ orders'[id].side = s /\ orders'[id].price = p
                       /\ orders'[id].rem > 0
  BY DEF PointersLive, Live
<1>1. book' \in Book /\ book'[s][p] \in Seq(OrderId)
  BY DEF TypeOK, Book
<1>2. book'[s][p][i] \in OrderId
  BY <1>1, LenProperties
<1>3. Resting(book', book'[s][p][i])
  BY <1>1, RestingIff
<1>4. PICK k \in DOMAIN book[s][p] : book'[s][p][i] = book[s][p][k]
  BY DEF Shrinks
<1>5. QED
  BY <1>2, <1>3, <1>4 DEF PointersLive, Live

(* The book after one fill.                                                 *)
LEMMA CoreFillBook ==
  ASSUME TypeOK, PointersLive, RestsOnce, WorkerHolds, NEW p \in Prices, FillAt(p)
  PROVE  LET side == Opposite(Incoming.side)
             resting == Head(book[side][p])
         IN /\ Shrinks
            /\ RestsOnce'
            /\ orders[resting].rem = FillQty(Incoming, orders[resting]) =>
                 \A s \in Side, q \in Prices : \A i \in DOMAIN book'[s][q] :
                   book'[s][q][i] # resting
<1> DEFINE side == Opposite(Incoming.side)
           level == book[side][p]
           resting == Head(level)
           qty == FillQty(Incoming, orders[resting])
<1>0. CanFillAt(p)
  BY DEF FillAt
<1>1. /\ side \in Side
      /\ level \in Seq(OrderId) /\ level # << >>
      /\ resting = level[1] /\ 1 \in DOMAIN level
      /\ resting \in OrderId
      /\ orders[resting].side = side /\ orders[resting].price = p
  BY <1>0, CoreFillFacts
<1>2. book' = [book EXCEPT ![side][p] = PopFilled(@, orders[resting], qty)]
  BY DEF FillAt
<1> HIDE DEF side, level, resting, qty
<1>3. /\ book'[side][p] = PopFilled(level, orders[resting], qty)
      /\ \A s \in Side, q \in Prices :
           ~(s = side /\ q = p) => book'[s][q] = book[s][q]
  BY <1>1, <1>2 DEF TypeOK, Book, level
<1>4. Tail(level) \in Seq(OrderId) /\ Len(level) \in Nat /\ Len(level) > 0
  BY <1>1, HeadTailProperties, EmptySeq
<1>5. /\ DOMAIN level = 1..Len(level) /\ DOMAIN Tail(level) = 1..(Len(level) - 1)
      /\ \A i \in 1..(Len(level) - 1) : Tail(level)[i] = level[i + 1]
  BY <1>1, <1>4, HeadTailProperties, LenProperties
<1>6. \A i \in DOMAIN Tail(level) : i + 1 \in DOMAIN level /\ i + 1 # 1
  BY <1>4, <1>5
<1>7. \A i, j \in DOMAIN level : level[i] = level[j] => i = j
  BY <1>1 DEF RestsOnce, level
<1>8. ASSUME NEW s \in Side, NEW q \in Prices
      PROVE  /\ \A i \in DOMAIN book'[s][q] :
                  \E k \in DOMAIN book[s][q] : book'[s][q][i] = book[s][q][k]
             /\ \A i, j \in DOMAIN book'[s][q] : book'[s][q][i] = book'[s][q][j] => i = j
             /\ orders[resting].rem = qty =>
                  \A i \in DOMAIN book'[s][q] : book'[s][q][i] # resting
  <2>1. CASE ~(s = side /\ q = p)
    <3>1. book'[s][q] = book[s][q]
      BY <1>3, <2>1
    <3>2. \A i \in DOMAIN book[s][q] : book[s][q][i] # resting
      BY <1>1, <2>1 DEF PointersLive
    <3>3. QED
      BY <3>1, <3>2 DEF RestsOnce
  <2>2. CASE s = side /\ q = p
    <3>1. CASE orders[resting].rem = qty
      <4>1. book'[s][q] = Tail(level) /\ book[s][q] = level
        BY <1>3, <2>2, <3>1 DEF PopFilled, level
      <4>2. \A i \in DOMAIN Tail(level) : Tail(level)[i] = level[i + 1]
        BY <1>5
      <4>3. \A i \in DOMAIN Tail(level) : Tail(level)[i] # resting
        BY <1>1, <1>6, <1>7, <4>2
      <4>4. ASSUME NEW i \in DOMAIN Tail(level), NEW j \in DOMAIN Tail(level),
                   Tail(level)[i] = Tail(level)[j]
            PROVE  i = j
        <5>1. i + 1 = j + 1
          BY <1>6, <1>7, <4>2, <4>4
        <5>2. i \in Nat /\ j \in Nat
          BY <1>5
        <5>3. QED
          BY <5>1, <5>2
      <4>5. QED
        BY <1>6, <4>1, <4>2, <4>3, <4>4
    <3>2. CASE orders[resting].rem # qty
      <4>1. book'[s][q] = level /\ book[s][q] = level
        BY <1>3, <2>2, <3>2 DEF PopFilled, level
      <4>2. QED
        BY <1>7, <3>2, <4>1
    <3>3. QED
      BY <3>1, <3>2
  <2>3. QED
    BY <2>1, <2>2
<1>9. QED
  BY <1>8 DEF Shrinks, RestsOnce, side, resting, qty, level

LEMMA FillBook ==
  ASSUME TypeOK, PointersLive, RestsOnce, WorkerInv, NEW p \in Prices, FillAt(p)
  PROVE  LET side == Opposite(Incoming.side)
             resting == Head(book[side][p])
         IN /\ Shrinks
            /\ RestsOnce'
            /\ orders[resting].rem = FillQty(Incoming, orders[resting]) =>
                 \A s \in Side, q \in Prices : \A i \in DOMAIN book'[s][q] :
                   book'[s][q][i] # resting
BY HoldsOf, CoreFillBook

(* Every step keeps the book sound: its pointers live, each order in it     *)
(* once.                                                                    *)
LEMMA CoreBookStep ==
  ASSUME CoreInv, [Next]_vars
  PROVE  PointersLive' /\ RestsOnce'
<1>0. /\ TypeOK /\ PointersLive /\ RestsOnce
      /\ WorkerHolds /\ IdsFree
  BY DEF CoreInv
<1>T. TypeOK'
  BY CoreTypeStep
<1>1. ASSUME UNCHANGED book,
             \A id \in OrderId : Resting(book, id) => orders'[id] = orders[id]
      PROVE  PointersLive' /\ RestsOnce'
  <2>1. Shrinks
    BY <1>1 DEF Shrinks
  <2>2. PointersLive'
    BY <1>0, <1>T, <1>1, <2>1, PointersKept
  <2>3. QED
    BY <1>0, <1>1, <2>2 DEF RestsOnce
<1>2. CASE SubmitNew \/ SubmitAmend \/ FetchBatch \/ RejectNew \/ RejectUnknown
             \/ RejectCancel \/ SkipTrade \/ IncomingDone \/ RunOrderTask
             \/ RunTradeTask \/ UNCHANGED vars
  <2>1. UNCHANGED <<book, orders>>
    BY <1>2 DEF SubmitNew, SubmitAmend, FetchBatch, RejectNew, RejectUnknown,
                RejectCancel, SkipTrade, IncomingDone, RunOrderTask,
                RunTradeTask, workerVars, vars
  <2>2. QED
    BY <1>1, <2>1
<1>3. CASE AcceptNew
  <2>1. batch # << >> /\ batch' = Tail(batch) /\ queue' = queue /\ Cmd.kind = "New"
    BY <1>3 DEF AcceptNew, Take
  <2>2. 1 \in DOMAIN Pending /\ Pending[1] = Cmd
    BY <1>0, <2>1, PendingTake
  <2>3. ~Live(Cmd.id)
    BY <1>0, <2>1, <2>2 DEF IdsFree
  <2>4. ~Resting(book, Cmd.id)
    BY <1>0, <2>3, NotLiveNotResting
  <2>5. \A id \in OrderId : id # Cmd.id => orders'[id] = orders[id]
    BY <1>0, <1>3 DEF AcceptNew, TypeOK
  <2>6. UNCHANGED book
    BY <1>3 DEF AcceptNew
  <2>7. QED
    BY <1>1, <2>4, <2>5, <2>6
<1>4. CASE CancelResting \/ StartModify
  <2>1. book' = cancelOrder(book, Cmd.id)
    BY <1>4 DEF CancelResting, StartModify
  <2>2. /\ Shrinks /\ RestsOnce'
        /\ \A s \in Side, p \in Prices : \A i \in DOMAIN book'[s][p] :
             book'[s][p][i] # Cmd.id
    BY <1>0, <2>1, CancelBook
  <2>3. book' \in Book
    BY <1>T DEF TypeOK
  <2>4. ~Resting(book', Cmd.id)
    BY <2>2, <2>3, RestingIff
  <2>5. \A id \in OrderId : id # Cmd.id => orders'[id] = orders[id]
    BY <1>0, <1>4 DEF CancelResting, StartModify, TypeOK
  <2>6. PointersLive'
    BY <1>0, <1>T, <2>2, <2>4, <2>5, PointersKept
  <2>7. QED
    BY <2>2, <2>6
<1>5. CASE Fill
  <2>1. PICK p \in Prices : FillAt(p)
    BY <1>5 DEF Fill
  <2> DEFINE side == Opposite(Incoming.side)
             resting == Head(book[side][p])
             qty == FillQty(Incoming, orders[resting])
  <2>2. CanFillAt(p)
    BY <2>1 DEF FillAt
  <2>3. /\ resting \in OrderId /\ worker.id \in OrderId /\ resting # worker.id
        /\ orders[resting] \in Order /\ qty \in Nat
        /\ qty <= orders[resting].rem
    BY <1>0, <2>2, CoreFillFacts
  <2>4. orders' = [orders EXCEPT ![worker.id] = FillIncoming(@, qty),
                                 ![resting] = FillResting(@, qty)]
    BY <2>1 DEF FillAt
  <2>5. /\ Shrinks /\ RestsOnce'
        /\ orders[resting].rem = qty =>
             \A s \in Side, q \in Prices : \A i \in DOMAIN book'[s][q] :
               book'[s][q][i] # resting
    BY <1>0, <2>1, CoreFillBook
  <2> HIDE DEF side, resting, qty
  <2>6. /\ orders'[resting] = FillResting(orders[resting], qty)
        /\ \A id \in OrderId \ {worker.id, resting} : orders'[id] = orders[id]
    BY <1>0, <2>3, <2>4 DEF TypeOK
  <2>7. ~Resting(book, worker.id)
    BY <1>0, <2>2 DEF CanFillAt, WorkerHolds
  <2>8. ASSUME NEW s \in Side, NEW q \in Prices, NEW i \in DOMAIN book'[s][q]
        PROVE  LET id == book'[s][q][i]
               IN /\ orders'[id] # NoOrder
                  /\ orders'[id].side = s /\ orders'[id].price = q
                  /\ orders'[id].rem > 0
    <3> DEFINE id == book'[s][q][i]
    <3>1. PICK k \in DOMAIN book[s][q] : id = book[s][q][k]
      BY <2>5 DEF Shrinks
    <3>2. /\ Live(id) /\ orders[id].side = s /\ orders[id].price = q
          /\ orders[id].rem > 0
      BY <1>0, <3>1 DEF PointersLive
    <3>3. id \in OrderId /\ id # worker.id
      <4>1. book \in Book /\ book[s][q] \in Seq(OrderId)
        BY <1>0 DEF TypeOK, Book
      <4>2. Resting(book, id)
        BY <3>1, <4>1, RestingIff
      <4>3. QED
        BY <1>0, <2>7, <4>2, NotLiveNotResting
    <3>4. CASE id # resting
      BY <2>6, <3>2, <3>3, <3>4 DEF Live
    <3>5. CASE id = resting
      <4>1. orders[resting].rem # qty
        BY <2>5, <3>5
      <4>2. orders[resting].rem - qty > 0 /\ orders[resting].rem - qty \in Nat
        BY <2>3, <4>1 DEF Order
      <4>3. FillResting(orders[resting], qty) \in Order
        BY <2>3, <4>2 DEF FillResting, Order, OrderStatus
      <4>4. /\ orders'[resting].side = orders[resting].side
            /\ orders'[resting].price = orders[resting].price
            /\ orders'[resting].rem = orders[resting].rem - qty
        BY <2>3, <2>6 DEF FillResting, Order
      <4>5. orders'[resting] # NoOrder
        BY <2>6, <4>3, OrdersAssumption
      <4>6. QED
        BY <3>2, <3>5, <4>2, <4>4, <4>5
    <3>6. QED
      BY <3>4, <3>5
  <2>9. PointersLive'
    BY <2>8 DEF PointersLive, Live
  <2>10. QED
    BY <2>5, <2>9
<1>6. CASE EndMatch
  <2>1. ~Resting(book, worker.id)
    BY <1>0, <1>6 DEF EndMatch, WorkerHolds
  <2>2. \A id \in OrderId : id # worker.id => orders'[id] = orders[id]
    BY <1>0, <1>6 DEF EndMatch, TypeOK
  <2>3. UNCHANGED book
    BY <1>6 DEF EndMatch
  <2>4. QED
    BY <1>1, <2>1, <2>2, <2>3
<1>7. CASE SettleTrade
  <2>1. \A id \in OrderId : orders[id].rem # 0 => orders'[id] = orders[id]
    BY <1>0, <1>7 DEF SettleTrade, TypeOK
  <2>2. \A id \in OrderId : Resting(book, id) => orders[id].rem # 0
    BY <1>0, NotLiveNotResting
  <2>3. UNCHANGED book
    BY <1>7 DEF SettleTrade
  <2>4. QED
    BY <1>1, <2>1, <2>2, <2>3
<1>8. CASE RemoveIncoming
  <2>1. ~Resting(book, worker.id)
    BY <1>0, <1>8 DEF RemoveIncoming, Settled, WorkerHolds
  <2>2. \A id \in OrderId : id # worker.id => orders'[id] = orders[id]
    BY <1>0, <1>8 DEF RemoveIncoming, TypeOK
  <2>3. UNCHANGED book
    BY <1>8 DEF RemoveIncoming
  <2>4. QED
    BY <1>1, <2>1, <2>2, <2>3
<1>9. CASE RestIncoming
  <2> DEFINE o == Incoming
             old == book[o.side][o.price]
             n == Len(old)
  <2>1. /\ worker.id \in OrderId /\ ~Resting(book, worker.id) /\ Live(worker.id)
        /\ o.rem > 0
    BY <1>0, <1>9 DEF RestIncoming, Settled, MayRest, WorkerHolds
  <2>2. o \in Order
    BY <1>0, <2>1 DEF Live, Incoming, TypeOK
  <2>3. o.side \in Side /\ o.price \in Prices
    BY <2>2 DEF Order
  <2>4. /\ book' = [book EXCEPT ![o.side][o.price] = Append(@, worker.id)]
        /\ UNCHANGED orders
    BY <1>9 DEF RestIncoming, insertOrder
  <2>5. book \in Book /\ old \in Seq(OrderId)
    BY <1>0, <2>3 DEF TypeOK, Book
  <2>6. o = orders[worker.id]
    BY DEF Incoming
  <2> HIDE DEF o, old
  <2>7. /\ book'[o.side][o.price] = Append(old, worker.id)
        /\ \A s \in Side, p \in Prices :
             ~(s = o.side /\ p = o.price) => book'[s][p] = book[s][p]
    BY <2>3, <2>4, <2>5 DEF Book, old
  <2>8. /\ n \in Nat /\ DOMAIN old = 1..n
        /\ DOMAIN Append(old, worker.id) = 1..(n + 1)
        /\ \A i \in 1..n : Append(old, worker.id)[i] = old[i]
        /\ Append(old, worker.id)[n + 1] = worker.id
    BY <2>1, <2>5, AppendProperties, LenProperties
  <2> HIDE DEF n
  <2>9. ASSUME NEW s \in Side, NEW p \in Prices, NEW i \in DOMAIN book'[s][p]
        PROVE  \/ /\ i \in DOMAIN book[s][p] /\ book'[s][p][i] = book[s][p][i]
                  /\ book'[s][p][i] # worker.id
               \/ /\ s = o.side /\ p = o.price /\ i = n + 1
                  /\ book'[s][p][i] = worker.id
    <3>1. ASSUME i \in DOMAIN book[s][p], book'[s][p][i] = book[s][p][i]
          PROVE  book'[s][p][i] # worker.id
      BY <2>1, <2>5, <3>1, RestingIff
    <3>2. CASE ~(s = o.side /\ p = o.price)
      BY <2>7, <3>1, <3>2
    <3>3. CASE s = o.side /\ p = o.price
      <4>1. i \in 1..(n + 1)
        BY <2>7, <2>8, <3>3
      <4>2. CASE i = n + 1
        BY <2>7, <2>8, <3>3, <4>2
      <4>3. CASE i \in 1..n
        <5>1. i \in DOMAIN book[s][p] /\ book'[s][p][i] = book[s][p][i]
          BY <2>7, <2>8, <3>3, <4>3 DEF old
        <5>2. QED
          BY <3>1, <5>1
      <4>4. QED
        BY <2>8, <4>1, <4>2, <4>3
    <3>4. QED
      BY <3>2, <3>3
  <2>10. ASSUME NEW s \in Side, NEW p \in Prices, NEW i \in DOMAIN book'[s][p]
         PROVE  LET id == book'[s][p][i]
                IN /\ orders'[id] # NoOrder
                   /\ orders'[id].side = s /\ orders'[id].price = p
                   /\ orders'[id].rem > 0
    <3> DEFINE id == book'[s][p][i]
    <3>1. CASE i \in DOMAIN book[s][p] /\ id = book[s][p][i]
      <4>1. /\ Live(id) /\ orders[id].side = s /\ orders[id].price = p
            /\ orders[id].rem > 0
        BY <1>0, <3>1 DEF PointersLive
      <4>2. QED
        BY <2>4, <4>1 DEF Live
    <3>2. CASE s = o.side /\ p = o.price /\ id = worker.id
      <4>1. /\ Live(id) /\ orders[id].side = s /\ orders[id].price = p
            /\ orders[id].rem > 0
        BY <2>1, <2>6, <3>2
      <4>2. QED
        BY <2>4, <4>1 DEF Live
    <3>3. QED
      BY <2>9, <3>1, <3>2
  <2>11. RestsOnce'
    <3>1. ASSUME NEW s \in Side, NEW p \in Prices,
                 NEW i \in DOMAIN book'[s][p], NEW j \in DOMAIN book'[s][p],
                 book'[s][p][i] = book'[s][p][j]
          PROVE  i = j
      BY <1>0, <2>9, <3>1 DEF RestsOnce
    <3>2. QED
      BY <3>1 DEF RestsOnce
  <2>12. PointersLive'
    BY <2>10 DEF PointersLive, Live
  <2>13. QED
    BY <2>11, <2>12
<1>10. QED
  BY <1>2, <1>3, <1>4, <1>5, <1>6, <1>7, <1>8, <1>9 DEF Next, WorkerStep, DbStep

(* Every step keeps the best bid below the best offer: an order is inserted *)
(* only where nothing it could trade with is left.                          *)
LEMMA UncrossedStep ==
  ASSUME IndInv, [Next]_vars
  PROVE  BookUncrossed'
<1>0. /\ TypeOK /\ PointersLive /\ RestsOnce /\ BookUncrossed /\ WorkerInv
  BY DEF IndInv
<1>T. TypeOK'
  BY TypeStep
<1>1. CASE CancelResting \/ StartModify
  <2>1. book' = cancelOrder(book, Cmd.id)
    BY <1>1 DEF CancelResting, StartModify
  <2>2. Shrinks
    BY <1>0, <2>1, CancelBook
  <2>3. QED
    BY <1>0, <1>T, <2>2, ShrinkUncrossed
<1>2. CASE Fill
  <2>1. PICK p \in Prices : FillAt(p)
    BY <1>2 DEF Fill
  <2>2. Shrinks
    BY <1>0, <2>1, FillBook
  <2>3. QED
    BY <1>0, <1>T, <2>2, ShrinkUncrossed
<1>3. CASE RestIncoming
  <2> DEFINE o == Incoming
             old == book[o.side][o.price]
             n == Len(old)
  <2>1. /\ worker.id \in OrderId /\ ~Resting(book, worker.id) /\ Live(worker.id)
        /\ Exhausted(o) /\ o.rem > 0
    BY <1>0, <1>3 DEF RestIncoming, Settled, MayRest, WorkerInv
  <2>2. o \in Order
    BY <1>0, <2>1 DEF Live, Incoming, TypeOK
  <2>3. o.side \in Side /\ o.price \in Prices
    BY <2>2 DEF Order
  <2>4. /\ book' = [book EXCEPT ![o.side][o.price] = Append(@, worker.id)]
        /\ UNCHANGED orders
    BY <1>3 DEF RestIncoming, insertOrder
  <2>5. book \in Book /\ old \in Seq(OrderId)
    BY <1>0, <2>3 DEF TypeOK, Book
  <2>6. o = orders[worker.id]
    BY DEF Incoming
  <2> HIDE DEF o, old
  <2>7. /\ book'[o.side][o.price] = Append(old, worker.id)
        /\ \A s \in Side, p \in Prices :
             ~(s = o.side /\ p = o.price) => book'[s][p] = book[s][p]
    BY <2>3, <2>4, <2>5 DEF Book, old
  <2>8. BookUncrossed'
    <3>1. ASSUME NEW s \in Side, NEW p \in Levels(book', s)
          PROVE  p \in Levels(book, s) \/ (s = o.side /\ p = o.price)
      BY <2>7 DEF Levels
    <3>2. ASSUME NEW p \in Levels(book, Opposite(o.side)) PROVE ~Crosses(o, p)
      BY <2>1, <2>2 DEF Exhausted, Order
    <3>3. o.price \in Int /\ Prices \subseteq Int
      BY <2>3, OrdersAssumption
    <3>4. ASSUME NEW b \in Levels(book', "Buy"), NEW a \in Levels(book', "Sell")
          PROVE  b < a
      <4>0. /\ a \in Int /\ b \in Int
            /\ b \in Levels(book, "Buy") \/ (o.side = "Buy" /\ b = o.price)
            /\ a \in Levels(book, "Sell") \/ (o.side = "Sell" /\ a = o.price)
        BY <3>1, <3>3 DEF Levels, Side
      <4>1. CASE b \in Levels(book, "Buy") /\ a \in Levels(book, "Sell")
        BY <1>0, <4>1 DEF BookUncrossed
      <4>2. CASE o.side = "Buy" /\ b = o.price /\ a \in Levels(book, "Sell")
        BY <3>2, <4>0, <4>2 DEF Opposite, Crosses
      <4>3. CASE o.side = "Sell" /\ a = o.price /\ b \in Levels(book, "Buy")
        BY <3>2, <4>0, <4>3 DEF Opposite, Crosses
      <4>4. QED
        BY <4>0, <4>1, <4>2, <4>3
    <3>5. QED
      BY <3>4 DEF BookUncrossed
  <2>9. QED
    BY <2>8
<1>4. CASE SubmitNew \/ SubmitAmend \/ FetchBatch \/ RejectNew \/ RejectUnknown
             \/ RejectCancel \/ AcceptNew \/ EndMatch \/ SettleTrade \/ SkipTrade
             \/ RemoveIncoming \/ IncomingDone \/ RunOrderTask \/ RunTradeTask
             \/ UNCHANGED vars
  <2>1. UNCHANGED book
    BY <1>4 DEF SubmitNew, SubmitAmend, FetchBatch, RejectNew, RejectUnknown,
                RejectCancel, AcceptNew, EndMatch, SettleTrade, SkipTrade,
                RemoveIncoming, IncomingDone, RunOrderTask, RunTradeTask, workerVars, vars
  <2>2. QED
    BY <1>0, <2>1 DEF BookUncrossed, Levels
<1>5. QED
  BY <1>1, <1>2, <1>3, <1>4 DEF Next, WorkerStep, DbStep

LEMMA BookStep ==
  ASSUME IndInv, [Next]_vars
  PROVE  PointersLive' /\ RestsOnce' /\ BookUncrossed'
BY CoreOf, CoreBookStep, UncrossedStep

(* The order a process function works on stays out of the book, and alive   *)
(* while it is matched.                                                     *)
LEMMA CoreWorkerStep ==
  ASSUME CoreInv, [Next]_vars
  PROVE  WorkerHolds'
<1>0. TypeOK /\ PointersLive /\ RestsOnce /\ IdsFree /\ WorkerHolds
  BY DEF CoreInv
<1>T. TypeOK'
  BY CoreTypeStep
<1>1. CASE AcceptNew
  <2>1. /\ batch # << >> /\ batch' = Tail(batch) /\ queue' = queue /\ Cmd.kind = "New"
        /\ UNCHANGED book /\ orders' = [orders EXCEPT ![Cmd.id] = Cmd.order]
        /\ worker' = Matching("New", Cmd.id)
    BY <1>1 DEF AcceptNew, Take
  <2>2. 1 \in DOMAIN Pending /\ Pending[1] = Cmd
    BY <1>0, <2>1, PendingTake
  <2>3. ~Live(Cmd.id)
    BY <1>0, <2>1, <2>2 DEF IdsFree
  <2>4. ~Resting(book, Cmd.id)
    BY <1>0, <2>3, NotLiveNotResting
  <2>5. Cmd.id \in OrderId /\ Cmd.order \in Order
    BY <1>0, <2>1, CmdType
  <2>6. orders'[Cmd.id] # NoOrder
    BY <1>0, <2>1, <2>5, OrdersAssumption DEF TypeOK
  <2>7. worker'.id = Cmd.id
    BY <2>1 DEF Matching
  <2>8. QED
    BY <2>1, <2>4, <2>5, <2>6, <2>7 DEF WorkerHolds, Live
<1>2. CASE StartModify
  <2>1. /\ batch # << >> /\ book' = cancelOrder(book, Cmd.id)
        /\ worker' = Matching("Modify", Cmd.id) /\ Cmd.kind = "Modify" /\ Live(Cmd.id)
        /\ orders' = [orders EXCEPT ![Cmd.id] = Replaced(orders[Cmd.id], Cmd)]
    BY <1>2 DEF StartModify, Take
  <2>2. /\ Cmd.id \in OrderId /\ Cmd.price \in Prices /\ Cmd.qty \in Quantities
        /\ orders[Cmd.id] \in Order
    BY <1>0, <2>1, CmdType DEF TypeOK, Live
  <2>3. \A s \in Side, p \in Prices : \A i \in DOMAIN book'[s][p] : book'[s][p][i] # Cmd.id
    BY <1>0, <2>1, CancelBook
  <2>4. ~Resting(book', Cmd.id)
    BY <1>T, <2>3, RestingIff DEF TypeOK
  <2>5. Replaced(orders[Cmd.id], Cmd) \in Order
    BY <2>2, OrdersAssumption DEF Replaced, Order, OrderStatus
  <2>6. orders'[Cmd.id] # NoOrder
    BY <1>0, <2>1, <2>2, <2>5, OrdersAssumption DEF TypeOK
  <2>7. worker'.id = Cmd.id
    BY <2>1 DEF Matching
  <2>8. QED
    BY <2>2, <2>4, <2>6, <2>7 DEF WorkerHolds, Live
<1>3. CASE Fill
  <2>1. PICK p \in Prices : FillAt(p)
    BY <1>3 DEF Fill
  <2> DEFINE resting == Head(book[Opposite(Incoming.side)][p])
             qty == FillQty(Incoming, orders[resting])
  <2>2. CanFillAt(p)
    BY <2>1 DEF FillAt
  <2>3. /\ resting \in OrderId /\ worker.id \in OrderId /\ resting # worker.id
        /\ Incoming \in Order /\ qty \in Nat /\ Incoming.rem - qty \in Nat
    BY <1>0, <2>2, CoreFillFacts
  <2>4. /\ orders' = [orders EXCEPT ![worker.id] = FillIncoming(@, qty),
                                    ![resting] = FillResting(@, qty)]
        /\ worker'.pc = worker.pc /\ worker'.id = worker.id /\ worker.pc = "match"
    BY <1>0, <2>1, <2>2 DEF FillAt, CanFillAt, TypeOK, Worker
  <2>5. Shrinks
    BY <1>0, <2>1, CoreFillBook
  <2> HIDE DEF resting, qty
  <2>6. ~Resting(book', worker.id)
    BY <1>0, <1>T, <2>4, <2>5, ShrinkResting DEF WorkerHolds
  <2>7. orders'[worker.id] # NoOrder
    <3>1. orders'[worker.id] = FillIncoming(Incoming, qty)
      BY <1>0, <2>3, <2>4 DEF TypeOK, Incoming
    <3>2. FillIncoming(Incoming, qty) \in Order
      BY <2>3 DEF FillIncoming, Order, OrderStatus
    <3>3. QED
      BY <3>1, <3>2, OrdersAssumption
  <2>8. QED
    BY <2>3, <2>4, <2>6, <2>7 DEF WorkerHolds, Live
<1>4. CASE EndMatch \/ SettleTrade \/ SkipTrade
  <2>1. /\ worker.pc # "idle" /\ worker'.pc = "settle" /\ worker'.id = worker.id
        /\ UNCHANGED book
    BY <1>0, <1>4 DEF EndMatch, SettleTrade, SkipTrade, TypeOK, Worker
  <2>2. QED
    BY <1>0, <2>1 DEF WorkerHolds
<1>5. CASE RestIncoming \/ RemoveIncoming \/ IncomingDone
  BY <1>5 DEF RestIncoming, RemoveIncoming, IncomingDone, IdleState, WorkerHolds
<1>6. CASE RejectNew \/ RejectUnknown \/ RejectCancel \/ CancelResting
  <2>1. worker'.pc = "idle"
    BY <1>6 DEF RejectNew, RejectUnknown, RejectCancel, CancelResting, Take
  <2>2. QED
    BY <2>1 DEF WorkerHolds
<1>7. CASE SubmitNew \/ SubmitAmend \/ FetchBatch \/ RunOrderTask \/ RunTradeTask
             \/ UNCHANGED vars
  <2>1. UNCHANGED <<book, orders, worker>>
    BY <1>7 DEF SubmitNew, SubmitAmend, FetchBatch, RunOrderTask, RunTradeTask,
                workerVars, vars
  <2>2. QED
    BY <1>0, <2>1 DEF WorkerHolds, Live
<1>8. QED
  BY <1>1, <1>2, <1>3, <1>4, <1>5, <1>6, <1>7 DEF Next, WorkerStep, DbStep

(* The part of the invariant that needs no report is inductive by itself.   *)
LEMMA CoreStep ==
  ASSUME CoreInv, [Next]_vars
  PROVE  CoreInv'
BY CoreTypeStep, CoreFreshStep, CoreBookStep, CoreWorkerStep DEF CoreInv

-----------------------------------------------------------------------------
(* What clients have been told, and the worker's locals.                    *)

(* Every step keeps the reports truthful and the worker's locals sound.     *)
LEMMA ReportStep ==
  ASSUME IndInv, [Next]_vars
  PROVE  ToldDoneIsDone' /\ WorkerInv'
<1>0. /\ TypeOK /\ PointersLive /\ RestsOnce /\ ToldDoneIsDone
      /\ WorkerInv /\ NewIdsFresh /\ OrdersInv
  BY DEF IndInv
<1>T. TypeOK' /\ PointersLive'
  BY TypeStep, BookStep
<1>I. ASSUME worker'.pc = "idle" PROVE WorkerInv'
  BY <1>I DEF WorkerInv
<1>1. CASE SubmitNew \/ SubmitAmend \/ FetchBatch \/ RunOrderTask
             \/ RunTradeTask \/ UNCHANGED vars
  <2>1. UNCHANGED <<book, orders, told, worker>>
    BY <1>1 DEF SubmitNew, SubmitAmend, FetchBatch, RunOrderTask, RunTradeTask,
                workerVars, vars
  <2>2. QED
    BY <1>0, <2>1 DEF ToldDoneIsDone, WorkerInv, Live, Incoming, Exhausted
<1>2. CASE RejectNew \/ RejectUnknown \/ RejectCancel
  <2>1. /\ batch # << >> /\ batch' = Tail(batch) /\ queue' = queue
        /\ worker.pc = "idle"
        /\ UNCHANGED <<book, orders, worker>>
    BY <1>2 DEF RejectNew, RejectUnknown, RejectCancel, Take
  <2>2. 1 \in DOMAIN Pending /\ Pending[1] = Cmd /\ Cmd.id \in OrderId
    BY <1>0, <2>1, PendingTake, CmdType
  <2>3. \A id \in OrderId \ {Cmd.id} : told'[id] = told[id]
    BY <1>0, <1>2 DEF RejectNew, RejectUnknown, RejectCancel, TypeOK
  <2>4. told'[Cmd.id].state \in {"closed", "rejected"} => ~Live(Cmd.id)
    <3>1. CASE RejectNew
      BY <1>0, <2>2, <3>1 DEF RejectNew, Take, NewIdsFresh
    <3>2. CASE RejectUnknown \/ RejectCancel
      <4>1. told[Cmd.id] \in Told /\ told'[Cmd.id] = ReportRefuse(told[Cmd.id])
        BY <1>0, <2>2, <3>2 DEF RejectUnknown, RejectCancel, TypeOK
      <4>2. QED
        BY <1>0, <2>2, <4>1, RefusalType DEF ToldDoneIsDone
    <3>3. QED
      BY <1>2, <3>1, <3>2
  <2>5. ToldDoneIsDone'
    BY <1>0, <2>1, <2>3, <2>4 DEF ToldDoneIsDone, Live
  <2>6. QED
    BY <1>I, <2>1, <2>5
<1>3. ASSUME AcceptNew \/ StartModify PROVE ToldDoneIsDone' /\ WorkerInv'
  <2>1. batch # << >> /\ batch' = Tail(batch) /\ queue' = queue
    BY <1>3 DEF AcceptNew, StartModify, Take
  <2>2. Cmd.id \in OrderId
    BY <1>0, <2>1, CmdType
  <2>3. /\ worker'.pc = "match" /\ worker'.id = Cmd.id
        /\ told'[Cmd.id].state = "open"
    <3>1. told[Cmd.id] \in Told
      BY <1>0, <2>2 DEF TypeOK
    <3>2. PICK o : told'[Cmd.id] = ReportNew(told[Cmd.id], o)
                     \/ told'[Cmd.id] = ReportReplace(told[Cmd.id], o)
      BY <1>0, <1>3, <2>2 DEF AcceptNew, StartModify, TypeOK
    <3>3. QED
      <4>1. told'[Cmd.id].state = "open"
        BY <3>1, <3>2 DEF ReportNew, ReportReplace, Told
      <4>2. QED
        BY <1>3, <4>1 DEF AcceptNew, StartModify, Matching
  <2>4. \A id \in OrderId : id # Cmd.id => orders'[id] = orders[id] /\ told'[id] = told[id]
    BY <1>0, <1>3 DEF AcceptNew, StartModify, TypeOK
  <2>5. Shrinks /\ ~Resting(book', Cmd.id) /\ orders'[Cmd.id] # NoOrder
    <3>1. CASE AcceptNew
      <4>1. 1 \in DOMAIN Pending /\ Pending[1] = Cmd /\ Cmd.kind = "New"
        BY <1>0, <2>1, <3>1, PendingTake DEF AcceptNew, Take
      <4>2. ~Live(Cmd.id)
        BY <1>0, <4>1 DEF NewIdsFresh
      <4>3. ~Resting(book, Cmd.id)
        BY <1>0, <4>2, NotLiveNotResting
      <4>4. orders'[Cmd.id] = Cmd.order /\ Cmd.order \in Order /\ UNCHANGED book
        BY <1>0, <2>1, <2>2, <3>1, <4>1, CmdType DEF AcceptNew, TypeOK
      <4>5. QED
        BY <4>3, <4>4, OrdersAssumption DEF Shrinks
    <3>2. CASE StartModify
      <4>1. book' = cancelOrder(book, Cmd.id)
        BY <3>2 DEF StartModify
      <4>2. /\ Shrinks
            /\ \A s \in Side, p \in Prices : \A i \in DOMAIN book'[s][p] :
                 book'[s][p][i] # Cmd.id
        BY <1>0, <4>1, CancelBook
      <4>3. ~Resting(book', Cmd.id)
        BY <1>T, <4>2, RestingIff DEF TypeOK
      <4>4. orders[Cmd.id] \in Order /\ orders'[Cmd.id] = Replaced(orders[Cmd.id], Cmd)
        BY <1>0, <2>2, <3>2 DEF StartModify, Live, TypeOK
      <4>5. Cmd.price \in Prices /\ Cmd.qty \in Quantities
        BY <1>0, <2>1, <3>2, CmdType DEF StartModify, Take
      <4>6. Replaced(orders[Cmd.id], Cmd) \in Order
        BY <4>4, <4>5, OrdersAssumption DEF Replaced, Order, OrderStatus
      <4>7. QED
        BY <4>2, <4>3, <4>4, <4>6, OrdersAssumption
    <3>3. QED
      BY <1>3, <3>1, <3>2
  <2>7. ToldDoneIsDone'
    BY <1>0, <2>3, <2>4 DEF ToldDoneIsDone, Live
  <2>8. WorkerInv'
    BY <2>2, <2>3, <2>5 DEF WorkerInv, Live
  <2>9. QED
    BY <2>7, <2>8
<1>4. CASE CancelResting
  <2>1. /\ worker'.pc = "idle" /\ batch # << >>
        /\ book' = cancelOrder(book, Cmd.id)
        /\ told' = [told EXCEPT ![Cmd.id] = ReportCancel(@, orders[Cmd.id])]
        /\ orders' = [orders EXCEPT ![Cmd.id] = NoOrder]
    BY <1>4 DEF CancelResting, Take
  <2>2. Cmd.id \in OrderId
    BY <1>0, <2>1, CmdType
  <2>3. ToldDoneIsDone'
    BY <1>0, <2>1, <2>2 DEF ToldDoneIsDone, Live, TypeOK
  <2>4. QED
    BY <1>I, <2>1, <2>3
<1>5. CASE Fill
  <2>1. PICK p \in Prices : FillAt(p)
    BY <1>5 DEF Fill
  <2> DEFINE side == Opposite(Incoming.side)
             resting == Head(book[side][p])
             qty == FillQty(Incoming, orders[resting])
  <2>2. CanFillAt(p)
    BY <2>1 DEF FillAt
  <2>3. /\ resting \in OrderId /\ worker.id \in OrderId /\ resting # worker.id
        /\ Incoming \in Order /\ orders[resting] \in Order /\ qty \in Nat
        /\ Incoming.rem - qty \in Nat
    BY <1>0, <2>2, FillFacts
  <2>4. /\ orders' = [orders EXCEPT ![worker.id] = FillIncoming(@, qty),
                                    ![resting] = FillResting(@, qty)]
        /\ worker'.pc = worker.pc /\ worker'.id = worker.id
        /\ worker.pc = "match"
        /\ told' = told
    BY <1>0, <2>1, <2>2 DEF FillAt, CanFillAt, TypeOK, Worker
  <2>5. Shrinks
    BY <1>0, <2>1, FillBook
  <2> HIDE DEF side, resting, qty
  <2>6. Live(worker.id) /\ Live(resting)
    BY <2>3, OrdersAssumption DEF Live, Incoming
  <2>7. \A id \in OrderId : ~Live(id) => orders'[id] = NoOrder
    BY <1>0, <2>3, <2>4, <2>6 DEF Live, TypeOK
  <2>8. \A id \in OrderId : Resting(book', id) => Resting(book, id)
    BY <1>0, <1>T, <2>5, ShrinkResting
  <2>9. ToldDoneIsDone'
    BY <1>0, <2>4, <2>7, <2>8 DEF ToldDoneIsDone, Live
  <2>10. orders'[worker.id] # NoOrder
    <3>1. orders'[worker.id] = FillIncoming(Incoming, qty)
      BY <1>0, <2>3, <2>4 DEF TypeOK, Incoming
    <3>2. FillIncoming(Incoming, qty) \in Order
      BY <2>3 DEF FillIncoming, Order, OrderStatus
    <3>3. QED
      BY <3>1, <3>2, OrdersAssumption
  <2>11. /\ ~Resting(book, worker.id)
         /\ told[worker.id].state = "open"
    BY <1>0, <2>4, <2>6 DEF WorkerInv
  <2>12. WorkerInv'
    BY <2>3, <2>4, <2>8, <2>10, <2>11 DEF WorkerInv, Live
  <2>13. QED
    BY <2>9, <2>12
<1>6. CASE EndMatch
  <2>1. /\ worker.id \in OrderId /\ Live(worker.id) /\ ~Resting(book, worker.id)
        /\ told[worker.id].state = "open" /\ Exhausted(Incoming)
    BY <1>0, <1>6 DEF EndMatch, WorkerInv
  <2>2. Incoming \in Order
    BY <1>0, <2>1 DEF Live, Incoming, TypeOK
  <2>3. /\ orders' = [orders EXCEPT ![worker.id].status = FinalStatus(Incoming)]
        /\ worker'.id = worker.id /\ worker'.pc = "settle"
        /\ UNCHANGED <<book, told>>
    BY <1>0, <1>6 DEF EndMatch, TypeOK, Worker
  <2>4. \A id \in OrderId : id # worker.id => orders'[id] = orders[id]
    BY <1>0, <2>3 DEF TypeOK
  <2>5. ToldDoneIsDone'
    BY <1>0, <2>1, <2>3, <2>4 DEF ToldDoneIsDone, Live
  <2>6. /\ Incoming'.side = Incoming.side /\ Incoming'.type = Incoming.type
        /\ Incoming'.price = Incoming.price /\ Incoming'.rem = Incoming.rem
    BY <1>0, <2>1, <2>2, <2>3 DEF TypeOK, Incoming, Order
  <2>7. Exhausted(Incoming)'
    <3>1. ASSUME NEW p PROVE Crosses(Incoming', p) = Crosses(Incoming, p)
      BY <2>6 DEF Crosses
    <3>2. QED
      BY <2>1, <2>3, <2>6, <3>1 DEF Exhausted
  <2>8. WorkerInv'
    BY <2>1, <2>3, <2>7 DEF WorkerInv
  <2>9. QED
    BY <2>5, <2>8
<1>7. CASE SettleTrade
  <2> DEFINE t == Head(worker.trades)
  <2>1. /\ orders' = [i \in OrderId |->
                        IF i \in {t.buy, t.sell} /\ orders[i].rem = 0
                        THEN NoOrder ELSE orders[i]]
        /\ told' = [told EXCEPT ![t.buy] = ReportFill(@, orders[t.buy]),
                                ![t.sell] = ReportFill(@, orders[t.sell])]
        /\ Live(t.buy) /\ Live(t.sell)
        /\ worker'.id = worker.id /\ worker'.pc = "settle" /\ worker.pc = "settle"
        /\ UNCHANGED book
    BY <1>0, <1>7 DEF SettleTrade, TypeOK, Worker
  <2> HIDE DEF t
  <2>2. ASSUME NEW id \in OrderId, id \in {t.buy, t.sell}
        PROVE  /\ told'[id].state = "closed" => orders'[id] = NoOrder
               /\ told'[id].state \in {"open", "closed"}
    <3>1. told'[id].state = IF orders[id].status = "Filled" THEN "closed" ELSE "open"
      <4>1. told[id] \in Told /\ told'[id] = ReportFill(told[id], orders[id])
        BY <1>0, <2>1, <2>2 DEF TypeOK
      <4>2. QED
        BY <4>1 DEF ReportFill, Told
    <3>2. orders[id].status = "Filled" => orders[id].rem = 0
      BY <1>0, <2>1, <2>2 DEF OrdersInv
    <3>3. QED
      BY <2>1, <2>2, <3>1, <3>2
  <2>3. ASSUME NEW id \in OrderId, id \notin {t.buy, t.sell}
        PROVE  orders'[id] = orders[id] /\ told'[id] = told[id]
    BY <1>0, <2>1, <2>3 DEF TypeOK
  <2>4. ToldDoneIsDone'
    <3>1. ASSUME NEW id \in OrderId
          PROVE  told'[id].state \in {"closed", "rejected"} => orders'[id] = NoOrder
      <4>1. CASE id \in {t.buy, t.sell}
        BY <2>2, <4>1
      <4>2. CASE id \notin {t.buy, t.sell}
        BY <1>0, <2>1, <2>3, <4>2 DEF ToldDoneIsDone, Live
      <4>3. QED
        BY <4>1, <4>2
    <3>2. QED
      BY <3>1 DEF ToldDoneIsDone, Live
  <2>5. /\ worker.id \in OrderId /\ ~Resting(book, worker.id)
        /\ Live(worker.id) => told[worker.id].state = "open" /\ Exhausted(Incoming)
    BY <1>0, <2>1 DEF WorkerInv
  <2>6. ASSUME orders'[worker.id] # NoOrder
        PROVE  /\ orders'[worker.id] = orders[worker.id] /\ Live(worker.id)
               /\ told'[worker.id].state = "open"
    <3>1. orders'[worker.id] = orders[worker.id]
      BY <2>1, <2>5, <2>6
    <3>2. Live(worker.id)
      BY <2>6, <3>1 DEF Live
    <3>3. told'[worker.id].state = "open"
      BY <2>2, <2>3, <2>5, <2>6, <3>2
    <3>4. QED
      BY <3>1, <3>2, <3>3
  <2>7. orders'[worker.id] # NoOrder => Exhausted(Incoming)'
    BY <2>1, <2>5, <2>6 DEF Exhausted, Incoming
  <2>8. WorkerInv'
    BY <2>1, <2>5, <2>6, <2>7 DEF WorkerInv, Live
  <2>9. QED
    BY <2>4, <2>8
<1>8. CASE SkipTrade
  <2>1. /\ UNCHANGED <<book, orders, told>>
        /\ worker'.id = worker.id /\ worker'.pc = "settle" /\ worker.pc = "settle"
    BY <1>0, <1>8 DEF SkipTrade, TypeOK, Worker
  <2>2. QED
    BY <1>0, <2>1 DEF ToldDoneIsDone, WorkerInv, Live, Incoming, Exhausted
<1>9. CASE IncomingDone \/ RemoveIncoming
  <2>1. /\ UNCHANGED <<book, told>> /\ worker'.pc = "idle"
        /\ \A id \in OrderId : ~Live(id) => orders'[id] = NoOrder
    BY <1>0, <1>9 DEF IncomingDone, RemoveIncoming, IdleState, Live, TypeOK
  <2>2. ToldDoneIsDone'
    BY <1>0, <2>1 DEF ToldDoneIsDone, Live
  <2>3. QED
    BY <1>I, <2>1, <2>2
<1>10. CASE RestIncoming
  <2>1. /\ worker.id \in OrderId /\ Live(worker.id)
        /\ told[worker.id].state = "open"
    BY <1>0, <1>10 DEF RestIncoming, Settled, MayRest, WorkerInv
  <2>2. /\ UNCHANGED <<orders, told>> /\ worker'.pc = "idle"
        /\ book' = [book EXCEPT ![Incoming.side][Incoming.price] = Append(@, worker.id)]
    BY <1>10 DEF RestIncoming, IdleState, insertOrder
  <2>3. Incoming \in Order
    BY <1>0, <2>1 DEF Live, Incoming, TypeOK
  <2>4. ASSUME NEW id \in OrderId, id # worker.id, Resting(book', id)
        PROVE  Resting(book, id)
    <3>1. PICK s \in Side, p \in Prices :
            \E i \in DOMAIN book'[s][p] : book'[s][p][i] = id
      BY <1>T, <2>4, RestingIff DEF TypeOK
    <3>2. PICK i \in DOMAIN book'[s][p] : book'[s][p][i] = id
      BY <3>1
    <3>3. book[s][p] \in Seq(OrderId)
      BY <1>0 DEF TypeOK, Book
    <3>4. book'[s][p] = book[s][p] \/ book'[s][p] = Append(book[s][p], worker.id)
      BY <1>0, <2>2 DEF TypeOK, Book
    <3>5. i \in DOMAIN book[s][p] /\ book[s][p][i] = id
      <4>1. CASE book'[s][p] = book[s][p]
        BY <3>2, <4>1
      <4>2. CASE book'[s][p] = Append(book[s][p], worker.id)
        <5> DEFINE l == book[s][p]
        <5>1. /\ Len(l) \in Nat /\ DOMAIN l = 1..Len(l)
              /\ DOMAIN Append(l, worker.id) = 1..(Len(l) + 1)
              /\ \A k \in 1..Len(l) : Append(l, worker.id)[k] = l[k]
              /\ Append(l, worker.id)[Len(l) + 1] = worker.id
          BY <2>1, <3>3, AppendProperties, LenProperties
        <5> HIDE DEF l
        <5>2. i \in 1..(Len(l) + 1) /\ Append(l, worker.id)[i] = id
          BY <3>2, <4>2, <5>1 DEF l
        <5>3. i # Len(l) + 1
          BY <2>4, <5>1, <5>2
        <5>4. i \in 1..Len(l)
          BY <5>1, <5>2, <5>3
        <5>5. QED
          BY <5>1, <5>2, <5>4 DEF l
      <4>3. QED
        BY <3>4, <4>1, <4>2
    <3>6. QED
      BY <1>0, <3>5, RestingIff DEF TypeOK
  <2>5. ToldDoneIsDone'
    BY <1>0, <2>1, <2>2, <2>4 DEF ToldDoneIsDone, Live
  <2>6. QED
    BY <1>I, <2>2, <2>5
<1>11. QED
  BY <1>1, <1>2, <1>3, <1>4, <1>5, <1>6, <1>7, <1>8, <1>9, <1>10
  DEF Next, WorkerStep, DbStep

-----------------------------------------------------------------------------
(* The matching loop and the loop over the trades, seen from outside.       *)

(* The entries of the worker's list of trades are well typed.               *)
LEMMA TradeListed ==
  ASSUME TypeOK, NEW i \in DOMAIN worker.trades
  PROVE  /\ worker.trades[i] \in Trade
         /\ worker.trades[i].buy \in OrderId /\ worker.trades[i].sell \in OrderId
<1>1. worker.trades \in Seq(Trade)
  BY DEF TypeOK, Worker
<1>2. worker.trades[i] \in Trade
  BY <1>1, ElementOfSeq, LenProperties
<1>3. QED
  BY <1>2 DEF Trade

(* The list of trades grows at its end by a fill ...                        *)
LEMMA TradeAppended ==
  ASSUME TypeOK, NEW t \in Trade,
         worker' = [worker EXCEPT !.trades = Append(@, t)]
  PROVE  /\ worker'.pc = worker.pc /\ worker'.kind = worker.kind
         /\ worker'.id = worker.id
         /\ Len(worker.trades) \in Nat
         /\ DOMAIN worker.trades = 1..Len(worker.trades)
         /\ DOMAIN worker'.trades = 1..(Len(worker.trades) + 1)
         /\ \A i \in DOMAIN worker.trades : worker'.trades[i] = worker.trades[i]
         /\ worker'.trades[Len(worker.trades) + 1] = t
<1>1. worker.trades \in Seq(Trade)
  BY DEF TypeOK, Worker
<1>2. worker'.trades = Append(worker.trades, t)
  BY DEF TypeOK, Worker
<1>3. /\ worker'.pc = worker.pc /\ worker'.kind = worker.kind
      /\ worker'.id = worker.id
  BY DEF TypeOK, Worker
<1>4. QED
  BY <1>1, <1>2, <1>3, AppendProperties, LenProperties

(* ... and loses its first element when a trade is settled or skipped.      *)
LEMMA TradeTaken ==
  ASSUME TypeOK, worker.trades # << >>,
         worker' = [worker EXCEPT !.trades = Tail(@)]
  PROVE  /\ worker'.pc = worker.pc /\ worker'.kind = worker.kind
         /\ worker'.id = worker.id
         /\ 1 \in DOMAIN worker.trades /\ Head(worker.trades) = worker.trades[1]
         /\ Head(worker.trades) \in Trade
         /\ \A i \in DOMAIN worker'.trades :
              /\ i + 1 \in DOMAIN worker.trades
              /\ worker'.trades[i] = worker.trades[i + 1]
         /\ \A i \in DOMAIN worker.trades :
              i = 1 \/ (i - 1 \in DOMAIN worker'.trades
                        /\ worker'.trades[i - 1] = worker.trades[i])
<1> DEFINE s == worker.trades
           r == worker'.trades
<1>1. s \in Seq(Trade) /\ s # << >>
  BY DEF TypeOK, Worker
<1>2. r = Tail(s)
  BY DEF TypeOK, Worker
<1>3. /\ worker'.pc = worker.pc /\ worker'.kind = worker.kind
      /\ worker'.id = worker.id
  BY DEF TypeOK, Worker
<1> HIDE DEF s, r
<1>4. /\ Tail(s) \in Seq(Trade) /\ Head(s) \in Trade /\ Head(s) = s[1]
      /\ Len(Tail(s)) = Len(s) - 1
      /\ \A i \in 1..Len(Tail(s)) : Tail(s)[i] = s[i + 1]
      /\ Len(s) \in Nat /\ Len(s) > 0
      /\ DOMAIN s = 1..Len(s) /\ DOMAIN Tail(s) = 1..Len(Tail(s))
  BY <1>1, HeadTailProperties, LenProperties, EmptySeq
<1>5. /\ 1 \in DOMAIN s
      /\ \A i \in DOMAIN r : i + 1 \in DOMAIN s
      /\ \A i \in DOMAIN s : i = 1 \/ (i - 1 \in DOMAIN r /\ (i - 1) + 1 = i)
  BY <1>2, <1>4
<1>6. QED
  BY <1>2, <1>3, <1>4, <1>5 DEF s, r

(* One iteration of the matching loop: the incoming order trades with the   *)
(* front r of the best level, of price p, as much as both have.             *)
LEMMA CoreFillEffect ==
  ASSUME CoreInv, Fill
  PROVE  \E p \in Prices, r \in OrderId, q \in Nat, t \in Trade :
           /\ worker.pc = "match" /\ worker.id \in OrderId /\ r # worker.id
           /\ Incoming \in Order /\ orders[r] \in Order
           /\ IsBest(book, Opposite(Incoming.side), p) /\ Crosses(Incoming, p)
           /\ Opposite(Incoming.side) \in Side
           /\ 1 \in DOMAIN book[Opposite(Incoming.side)][p]
           /\ book[Opposite(Incoming.side)][p][1] = r
           /\ Resting(book, r)
           /\ orders[r].side = Opposite(Incoming.side) /\ orders[r].price = p
           /\ q > 0 /\ q <= Incoming.rem /\ q <= orders[r].rem
           /\ orders'[worker.id] = FillIncoming(Incoming, q)
           /\ orders'[r] = FillResting(orders[r], q)
           /\ \A id \in OrderId \ {worker.id, r} : orders'[id] = orders[id]
           /\ t.id = tradeId + 1 /\ t.qty = q /\ t.price = p /\ t.buy # t.sell
           /\ t.buy = IF Incoming.side = "Buy" THEN worker.id ELSE r
           /\ t.sell = IF Incoming.side = "Buy" THEN r ELSE worker.id
           /\ tradeId' = tradeId + 1
           /\ worker' = [worker EXCEPT !.trades = Append(@, t)]
           /\ Shrinks
           /\ UNCHANGED <<queue, batch, orderId, dbQueue, dbOrders, dbTrades,
                          told, amends>>
<1>0. TypeOK /\ PointersLive /\ RestsOnce /\ WorkerHolds
  BY DEF CoreInv
<1>1. PICK p \in Prices : FillAt(p)
  BY DEF Fill
<1> DEFINE side == Opposite(Incoming.side)
           r == Head(book[side][p])
           q == FillQty(Incoming, orders[r])
           t == NewTrade(r, q)
<1>2. CanFillAt(p)
  BY <1>1 DEF FillAt
<1>3. /\ side \in Side
      /\ book[side][p] \in Seq(OrderId) /\ book[side][p] # << >>
      /\ r \in OrderId /\ r = book[side][p][1]
      /\ 1 \in DOMAIN book[side][p]
      /\ worker.id \in OrderId /\ r # worker.id
      /\ Incoming \in Order /\ orders[r] \in Order
      /\ orders[r].side = side /\ orders[r].price = p
      /\ q \in Nat /\ q > 0
      /\ q <= Incoming.rem /\ q <= orders[r].rem
  BY <1>0, <1>2, CoreFillFacts
<1>4. /\ tradeId' = tradeId + 1
      /\ worker' = [worker EXCEPT !.trades = Append(@, t)]
      /\ orders' = [orders EXCEPT ![worker.id] = FillIncoming(@, q),
                                  ![r] = FillResting(@, q)]
      /\ UNCHANGED <<queue, batch, orderId, dbQueue, dbOrders, dbTrades, told, amends>>
  BY <1>1 DEF FillAt, dbVars
<1>5. Shrinks
  BY <1>0, <1>1, CoreFillBook
<1>6. Resting(book, r)
  BY <1>0, <1>3, RestingIff DEF TypeOK
<1>7. /\ worker.pc = "match" /\ Crosses(Incoming, p)
      /\ IsBest(book, side, p)
  BY <1>2 DEF CanFillAt
<1> HIDE DEF side, r, q
<1>8. t \in Trade
  BY <1>0, <1>3 DEF NewTrade, Trade, TypeOK
<1>9. /\ t.id = tradeId + 1 /\ t.qty = q /\ t.price = p /\ t.buy # t.sell
      /\ t.buy = IF Incoming.side = "Buy" THEN worker.id ELSE r
      /\ t.sell = IF Incoming.side = "Buy" THEN r ELSE worker.id
  BY <1>3 DEF NewTrade
<1> HIDE DEF t
<1>10. /\ orders'[worker.id] = FillIncoming(Incoming, q)
       /\ orders'[r] = FillResting(orders[r], q)
       /\ \A id \in OrderId \ {worker.id, r} : orders'[id] = orders[id]
  BY <1>0, <1>3, <1>4 DEF TypeOK, Incoming
<1>11. QED
  BY <1>3, <1>4, <1>5, <1>6, <1>7, <1>8, <1>9, <1>10, Zenon DEF side

LEMMA FillEffect ==
  ASSUME IndInv, Fill
  PROVE  \E p \in Prices, r \in OrderId, q \in Nat, t \in Trade :
           /\ worker.pc = "match" /\ worker.id \in OrderId /\ r # worker.id
           /\ Incoming \in Order /\ orders[r] \in Order
           /\ IsBest(book, Opposite(Incoming.side), p) /\ Crosses(Incoming, p)
           /\ Opposite(Incoming.side) \in Side
           /\ 1 \in DOMAIN book[Opposite(Incoming.side)][p]
           /\ book[Opposite(Incoming.side)][p][1] = r
           /\ Resting(book, r)
           /\ orders[r].side = Opposite(Incoming.side) /\ orders[r].price = p
           /\ q > 0 /\ q <= Incoming.rem /\ q <= orders[r].rem
           /\ orders'[worker.id] = FillIncoming(Incoming, q)
           /\ orders'[r] = FillResting(orders[r], q)
           /\ \A id \in OrderId \ {worker.id, r} : orders'[id] = orders[id]
           /\ t.id = tradeId + 1 /\ t.qty = q /\ t.price = p /\ t.buy # t.sell
           /\ t.buy = IF Incoming.side = "Buy" THEN worker.id ELSE r
           /\ t.sell = IF Incoming.side = "Buy" THEN r ELSE worker.id
           /\ tradeId' = tradeId + 1
           /\ worker' = [worker EXCEPT !.trades = Append(@, t)]
           /\ Shrinks
           /\ UNCHANGED <<queue, batch, orderId, dbQueue, dbOrders, dbTrades,
                          told, amends>>
BY CoreOf, CoreFillEffect

(* The worker is idle only with an empty list of trades.                    *)
IdleEmpty == worker.pc = "idle" => worker.trades = << >>

LEMMA IdleEmptyStep ==
  ASSUME IndInv, IdleEmpty, [Next]_vars
  PROVE  IdleEmpty'
<1>0. TypeOK
  BY DEF IndInv
<1>1. CASE UNCHANGED worker
  BY <1>1 DEF IdleEmpty
<1>2. CASE AcceptNew \/ StartModify
  BY <1>2 DEF AcceptNew, StartModify, Matching, IdleEmpty
<1>3. CASE Fill
  BY <1>0, <1>3 DEF Fill, FillAt, CanFillAt, IdleEmpty, TypeOK, Worker
<1>4. CASE EndMatch
  BY <1>0, <1>4 DEF EndMatch, IdleEmpty, TypeOK, Worker
<1>5. CASE SettleTrade \/ SkipTrade
  BY <1>0, <1>5 DEF SettleTrade, SkipTrade, IdleEmpty, TypeOK, Worker
<1>6. CASE RestIncoming \/ RemoveIncoming \/ IncomingDone
  BY <1>6 DEF RestIncoming, RemoveIncoming, IncomingDone, IdleState, IdleEmpty
<1>7. QED
  BY <1>1, <1>2, <1>3, <1>4, <1>5, <1>6
  DEF Next, WorkerStep, DbStep, SubmitNew, SubmitAmend, FetchBatch, RejectNew,
      RejectUnknown, RejectCancel, CancelResting, RunOrderTask, RunTradeTask,
      workerVars, vars

-----------------------------------------------------------------------------
(* The theorems.                                                            *)

LEMMA InitInv == Init => IndInv
<1> SUFFICES ASSUME Init PROVE IndInv
  OBVIOUS
<1>1. EmptyBook \in Book
  BY EmptySeq DEF EmptyBook, Book
<1>2. TypeOK
  BY <1>1, IdleType, EmptySeq, OrdersAssumption, PartitionAssumption
  DEF Init, TypeOK, Told, Untold
<1>3. \A s \in Side, p \in Prices : book[s][p] = << >>
  BY DEF Init, EmptyBook
<1>4. PointersLive /\ RestsOnce /\ BookUncrossed
  BY <1>3 DEF PointersLive, RestsOnce, BookUncrossed, Levels, Side
<1>5. DOMAIN Pending = {}
  <2>1. Len(Pending) = 0
    BY EmptySeq, ConcatProperties DEF Init, Pending
  <2>2. QED
    BY <1>2, <2>1, PendingType
<1>6. NewIdsFresh
  BY <1>5 DEF NewIdsFresh
<1>7. OrdersInv
  BY <1>5 DEF OrdersInv, Init, Untold, Live
<1>8. ToldDoneIsDone /\ WorkerInv
  BY DEF Init, Untold, ToldDoneIsDone, WorkerInv, IdleState
<1>9. QED
  BY <1>2, <1>4, <1>6, <1>7, <1>8 DEF IndInv

LEMMA IndStep ==
  ASSUME IndInv, [Next]_vars
  PROVE  IndInv'
BY TypeStep, BookStep, FreshStep, ReportStep DEF IndInv

(* The inductive invariant: every reachable state of every instance keeps   *)
(* the book, the order manager, the queue, the reports and the worker's     *)
(* locals mutually consistent.                                              *)
THEOREM Safety == Spec => []IndInv
<1>1. Init => IndInv
  BY InitInv
<1>2. IndInv /\ [Next]_vars => IndInv'
  BY IndStep
<1>3. QED
  BY <1>1, <1>2, PTL DEF Spec

(* Every variable keeps its type, for any number of orders, prices, traders *)
(* and queued commands.                                                     *)
THEOREM TypeCorrect == Spec => []TypeOK
<1>1. IndInv => TypeOK
  BY DEF IndInv
<1>2. QED
  BY <1>1, Safety, PTL

(* No raw pointer in the book dangles, none is to an order of another side  *)
(* or price or to a filled one, and none occurs twice.                      *)
THEOREM BookSound == Spec => []BookIntegrity
<1>1. IndInv => BookIntegrity
  BY DEF IndInv, BookIntegrity
<1>2. QED
  BY <1>1, Safety, PTL

(* The book is never crossed, whatever mix of limit, market and modified    *)
(* orders the worker has processed.                                         *)
THEOREM NeverCrossed == Spec => []BookUncrossed
<1>1. IndInv => BookUncrossed
  BY DEF IndInv
<1>2. QED
  BY <1>1, Safety, PTL

(* A new order still on its way to the worker has an id nothing else uses:  *)
(* addOrder never refuses the order processNewOrder keeps a pointer to.     *)
THEOREM IdsFresh == Spec => []NewIdsFresh
<1>1. IndInv => NewIdsFresh
  BY DEF IndInv
<1>2. QED
  BY <1>1, Safety, PTL

(* An order reported filled or cancelled is gone, and one reported rejected *)
(* is not in the book.                                                      *)
THEOREM ReportsTruthful == Spec => []ToldDoneIsDone
<1>1. IndInv => ToldDoneIsDone
  BY DEF IndInv
<1>2. QED
  BY <1>1, Safety, PTL

(* Only processNewOrder creates an order, and its id has never been         *)
(* reported on.                                                             *)
LEMMA ResurrectionStep ==
  ASSUME IndInv, [Next]_vars, NEW id \in OrderId,
         told[id].state # "nothing", ~Live(id)
  PROVE  orders'[id] = NoOrder
<1>0. TypeOK /\ NewIdsFresh /\ WorkerInv /\ PointersLive
  BY DEF IndInv
<1>1. CASE UNCHANGED orders
  BY <1>1 DEF Live
<1>2. CASE AcceptNew
  <2>1. batch # << >> /\ batch' = Tail(batch) /\ queue' = queue /\ Cmd.kind = "New"
    BY <1>2 DEF AcceptNew, Take
  <2>2. 1 \in DOMAIN Pending /\ Pending[1] = Cmd
    BY <1>0, <2>1, PendingTake
  <2>3. id # Cmd.id
    BY <1>0, <2>1, <2>2 DEF NewIdsFresh
  <2>4. QED
    BY <1>0, <1>2, <2>3 DEF AcceptNew, Live, TypeOK
<1>3. CASE CancelResting \/ RemoveIncoming
  BY <1>0, <1>3 DEF CancelResting, RemoveIncoming, Live, TypeOK
<1>4. CASE StartModify
  BY <1>0, <1>4 DEF StartModify, Live, TypeOK
<1>5. CASE Fill
  <2>1. PICK p \in Prices : FillAt(p)
    BY <1>5 DEF Fill
  <2> DEFINE resting == Head(book[Opposite(Incoming.side)][p])
             qty == FillQty(Incoming, orders[resting])
  <2>2. CanFillAt(p)
    BY <2>1 DEF FillAt
  <2>3. resting \in OrderId /\ orders[resting] \in Order /\ Incoming \in Order
    BY <1>0, <2>2, FillFacts
  <2>4. orders' = [orders EXCEPT ![worker.id] = FillIncoming(@, qty),
                                 ![resting] = FillResting(@, qty)]
    BY <2>1 DEF FillAt
  <2> HIDE DEF resting, qty
  <2>5. id # resting /\ id # worker.id
    BY <2>3, OrdersAssumption DEF Live, Incoming
  <2>6. QED
    BY <1>0, <2>4, <2>5 DEF Live, TypeOK
<1>6. CASE EndMatch
  BY <1>0, <1>6 DEF EndMatch, WorkerInv, Live, TypeOK
<1>7. CASE SettleTrade
  BY <1>0, <1>7 DEF SettleTrade, Live, TypeOK
<1>8. QED
  BY <1>1, <1>2, <1>3, <1>4, <1>5, <1>6, <1>7
  DEF Next, WorkerStep, DbStep, SubmitNew, SubmitAmend, FetchBatch, RejectNew,
      RejectUnknown, RejectCancel, SkipTrade, RestIncoming, IncomingDone,
      RunOrderTask, RunTradeTask, workerVars, vars

(* An id whose order is gone never names a live order again.                *)
THEOREM GoneForGood == Spec => NoResurrection
<1>1. IndInv /\ [Next]_vars =>
        [\A id \in OrderId :
           told[id].state # "nothing" /\ ~Live(id) => orders'[id] = NoOrder]_vars
  BY ResurrectionStep
<1>2. QED
  BY <1>1, Safety, PTL DEF Spec, NoResurrection

-----------------------------------------------------------------------------
(* The partition implements OrderLifecycle: each step is a step of the      *)
(* abstract specification or leaves every report as it was.                 *)

(* A report changes what is told of one order only.                         *)
LEMMA ReportsKept ==
  ASSUME IndInv, ReportsInv, IndInv', NEW c \in OrderId,
         worker'.trades = << >>,
         \A id \in OrderId \ {c} : orders'[id] = orders[id] /\ told'[id] = told[id],
         orders'[c] # NoOrder =>
           /\ told'[c].state = "open"
           /\ orders'[c].rem <= told'[c].leaves
           /\ orders'[c].rem = 0 /\ ~(worker'.pc = "match" /\ c = worker'.id) =>
                orders'[c].status = "Filled",
         worker.pc = "idle"
  PROVE  ReportsInv'
<1>1. DOMAIN worker'.trades = {}
  OBVIOUS
<1>2. ASSUME NEW id \in OrderId, orders'[id] # NoOrder
      PROVE  /\ told'[id].state = "open"
             /\ orders'[id].rem <= told'[id].leaves
             /\ orders'[id].rem = 0 /\ ~(worker'.pc = "match" /\ id = worker'.id) =>
                  orders'[id].status = "Filled"
  <2>1. CASE id = c
    BY <1>2, <2>1
  <2>2. CASE id # c
    <3>1. orders'[id] = orders[id] /\ told'[id] = told[id] /\ Live(id)
      BY <1>2, <2>2 DEF Live
    <3>2. QED
      BY <3>1 DEF ReportsInv
  <2>3. QED
    BY <2>1, <2>2
<1>3. QED
  BY <1>1, <1>2 DEF ReportsInv, Live

(* Every step keeps what the reports rest on.                               *)
LEMMA ReportsStep ==
  ASSUME IndInv, IdleEmpty, ReportsInv, [Next]_vars
  PROVE  ReportsInv'
<1>0. /\ TypeOK /\ PointersLive /\ ToldDoneIsDone /\ WorkerInv /\ NewIdsFresh
      /\ OrdersInv
  BY DEF IndInv
<1>T. IndInv' /\ TypeOK'
  BY IndStep DEF IndInv
<1>1. CASE UNCHANGED <<orders, told, worker>>
  BY <1>1 DEF ReportsInv, Live
<1>2. CASE RejectNew \/ RejectUnknown \/ RejectCancel
  <2>1. /\ batch # << >> /\ worker.pc = "idle" /\ UNCHANGED <<orders, worker>>
    BY <1>2 DEF RejectNew, RejectUnknown, RejectCancel, Take
  <2>2. Cmd.id \in OrderId /\ told[Cmd.id] \in Told
    BY <1>0, <2>1, CmdType DEF TypeOK
  <2>3. \A id \in OrderId \ {Cmd.id} : told'[id] = told[id]
    BY <1>0, <1>2, <2>2 DEF RejectNew, RejectUnknown, RejectCancel, TypeOK
  <2>4. Live(Cmd.id) => /\ told'[Cmd.id].state = told[Cmd.id].state
                        /\ told'[Cmd.id].leaves = told[Cmd.id].leaves
    <3>1. CASE RejectNew
      <4>1. 1 \in DOMAIN Pending /\ Pending[1] = Cmd
        BY <1>0, <2>1, <3>1, PendingTake DEF RejectNew, Take
      <4>2. QED
        BY <1>0, <3>1, <4>1 DEF RejectNew, Take, NewIdsFresh
    <3>2. CASE RejectUnknown \/ RejectCancel
      <4>1. told'[Cmd.id] = ReportRefuse(told[Cmd.id])
        BY <1>0, <2>2, <3>2 DEF RejectUnknown, RejectCancel, TypeOK
      <4>2. QED
        BY <2>2, <4>1, RefusalType
    <3>3. QED
      BY <1>2, <3>1, <3>2
  <2>5. orders[Cmd.id] # NoOrder =>
          /\ told'[Cmd.id].state = "open"
          /\ orders[Cmd.id].rem <= told'[Cmd.id].leaves
          /\ orders[Cmd.id].rem = 0 => orders[Cmd.id].status = "Filled"
    BY <2>1, <2>2, <2>4 DEF ReportsInv, Live
  <2>6. worker'.trades = << >>
    BY <2>1 DEF IdleEmpty
  <2>7. QED
    BY <1>T, <2>1, <2>2, <2>3, <2>5, <2>6, ReportsKept
<1>3. CASE AcceptNew
  <2>1. /\ batch # << >> /\ worker.pc = "idle" /\ Cmd.kind = "New"
        /\ told' = [told EXCEPT ![Cmd.id] = ReportNew(@, Cmd.order)]
        /\ orders' = [orders EXCEPT ![Cmd.id] = Cmd.order]
        /\ worker' = Matching("New", Cmd.id)
    BY <1>3 DEF AcceptNew, Take
  <2>2. Cmd.id \in OrderId /\ Cmd.order \in Order /\ told[Cmd.id] \in Told
    BY <1>0, <2>1, CmdType DEF TypeOK
  <2>3. /\ told'[Cmd.id].state = "open" /\ told'[Cmd.id].leaves = Cmd.order.rem
        /\ orders'[Cmd.id] = Cmd.order
        /\ \A id \in OrderId \ {Cmd.id} : told'[id] = told[id] /\ orders'[id] = orders[id]
    BY <1>0, <2>1, <2>2, ReportType DEF TypeOK
  <2>4. Cmd.order.rem <= Cmd.order.rem
    BY <2>2 DEF Order
  <2>5. worker'.trades = << >> /\ worker'.pc = "match" /\ worker'.id = Cmd.id
    BY <2>1 DEF Matching
  <2>6. QED
    BY <1>T, <2>1, <2>2, <2>3, <2>4, <2>5, ReportsKept
<1>4. CASE StartModify
  <2> DEFINE o == Replaced(orders[Cmd.id], Cmd)
  <2>1. /\ batch # << >> /\ worker.pc = "idle" /\ Cmd.kind = "Modify" /\ Live(Cmd.id)
        /\ told' = [told EXCEPT ![Cmd.id] = ReportReplace(@, o)]
        /\ orders' = [orders EXCEPT ![Cmd.id] = o]
        /\ worker' = Matching("Modify", Cmd.id)
    BY <1>4 DEF StartModify, Take
  <2>2. Cmd.id \in OrderId /\ Cmd.qty \in Nat
    BY <1>0, <2>1, CmdType, OrdersAssumption
  <2>3. orders[Cmd.id] \in Order
    BY <1>0, <2>1, <2>2 DEF Live, TypeOK
  <2>4. o.rem = Cmd.qty
    BY <2>3 DEF Replaced, Order
  <2> HIDE DEF o
  <2>5. /\ told'[Cmd.id].state = "open" /\ told'[Cmd.id].leaves = o.rem
        /\ orders'[Cmd.id] = o
        /\ \A id \in OrderId \ {Cmd.id} : told'[id] = told[id] /\ orders'[id] = orders[id]
    <3>1. told[Cmd.id] \in Told
      BY <1>0, <2>2 DEF TypeOK
    <3>2. told'[Cmd.id] = ReportReplace(told[Cmd.id], o)
      BY <1>0, <2>1, <2>2 DEF TypeOK
    <3>3. QED
      BY <1>0, <2>1, <2>2, <3>1, <3>2 DEF TypeOK, ReportReplace, Told
  <2>6. o.rem <= o.rem
    BY <2>2, <2>4
  <2>7. worker'.trades = << >> /\ worker'.pc = "match" /\ worker'.id = Cmd.id
    BY <2>1 DEF Matching
  <2>8. QED
    BY <1>T, <2>1, <2>2, <2>5, <2>6, <2>7, ReportsKept
<1>5. CASE CancelResting
  <2>1. /\ batch # << >> /\ worker.pc = "idle" /\ UNCHANGED worker
        /\ told' = [told EXCEPT ![Cmd.id] = ReportCancel(@, orders[Cmd.id])]
        /\ orders' = [orders EXCEPT ![Cmd.id] = NoOrder]
    BY <1>5 DEF CancelResting, Take
  <2>2. Cmd.id \in OrderId
    BY <1>0, <2>1, CmdType
  <2>3. /\ orders'[Cmd.id] = NoOrder
        /\ \A id \in OrderId \ {Cmd.id} : told'[id] = told[id] /\ orders'[id] = orders[id]
    BY <1>0, <2>1, <2>2 DEF TypeOK
  <2>4. worker'.trades = << >>
    BY <2>1 DEF IdleEmpty
  <2>5. QED
    BY <1>T, <2>1, <2>2, <2>3, <2>4, ReportsKept
<1>6. CASE Fill
  <2>1. PICK r \in OrderId, q \in Nat, t \in Trade :
          /\ worker.pc = "match" /\ worker.id \in OrderId /\ r # worker.id
          /\ Incoming \in Order /\ orders[r] \in Order
          /\ Resting(book, r)
          /\ q > 0 /\ q <= Incoming.rem /\ q <= orders[r].rem
          /\ orders'[worker.id] = FillIncoming(Incoming, q)
          /\ orders'[r] = FillResting(orders[r], q)
          /\ \A id \in OrderId \ {worker.id, r} : orders'[id] = orders[id]
          /\ t.buy # t.sell
          /\ t.buy = IF Incoming.side = "Buy" THEN worker.id ELSE r
          /\ t.sell = IF Incoming.side = "Buy" THEN r ELSE worker.id
          /\ worker' = [worker EXCEPT !.trades = Append(@, t)]
          /\ told' = told
    BY <1>6, FillEffect
  <2>2. /\ worker'.pc = "match" /\ worker'.id = worker.id
        /\ Len(worker.trades) \in Nat
        /\ DOMAIN worker.trades = 1..Len(worker.trades)
        /\ DOMAIN worker'.trades = 1..(Len(worker.trades) + 1)
        /\ \A i \in DOMAIN worker.trades : worker'.trades[i] = worker.trades[i]
        /\ worker'.trades[Len(worker.trades) + 1] = t
    BY <1>0, <2>1, TradeAppended
  <2>3. Live(r) /\ Live(worker.id)
    BY <2>1, OrdersAssumption DEF Live, Incoming
  <2>4. told[r].state = "open" /\ told[worker.id].state = "open"
    BY <2>1, <2>3 DEF ReportsInv
  <2>5. ASSUME NEW id \in OrderId, orders'[id] # NoOrder
        PROVE  /\ told'[id].state = "open"
               /\ orders'[id].rem <= told'[id].leaves
               /\ orders'[id].rem = 0 /\ ~(worker'.pc = "match" /\ id = worker'.id) =>
                    orders'[id].status = "Filled"
    <3>1. CASE id = worker.id
      <4>1. orders'[id].rem = Incoming.rem - q /\ Incoming.rem \in Nat
        BY <2>1, <3>1 DEF FillIncoming, Order
      <4>2. Incoming.rem <= told[id].leaves /\ told[id].leaves \in Nat
        BY <1>0, <2>3, <2>4, <3>1 DEF ReportsInv, Incoming, TypeOK, Told
      <4>3. QED
        BY <2>1, <2>2, <2>4, <3>1, <4>1, <4>2
    <3>2. CASE id = r
      <4>1. /\ orders'[id].rem = orders[r].rem - q /\ orders[r].rem \in Nat
            /\ orders'[id].status =
                 IF orders[r].rem = q THEN "Filled" ELSE "PartiallyFilled"
        BY <2>1, <3>2 DEF FillResting, Order
      <4>2. orders[r].rem <= told[id].leaves /\ told[id].leaves \in Nat
        BY <1>0, <2>3, <2>4, <3>2 DEF ReportsInv, TypeOK, Told
      <4>3. QED
        BY <2>1, <2>4, <3>2, <4>1, <4>2
    <3>3. CASE id \notin {worker.id, r}
      <4>1. orders'[id] = orders[id] /\ Live(id)
        BY <2>1, <2>5, <3>3 DEF Live
      <4>2. QED
        BY <2>1, <2>2, <3>3, <4>1 DEF ReportsInv
    <3>4. QED
      BY <3>1, <3>2, <3>3
  <2>6. ASSUME NEW i \in DOMAIN worker'.trades
        PROVE  worker'.trades[i].buy # worker'.trades[i].sell
    <3>1. CASE i \in DOMAIN worker.trades
      <4>1. worker'.trades[i] = worker.trades[i]
        BY <2>2, <3>1
      <4>2. QED
        BY <3>1, <4>1 DEF ReportsInv
    <3>2. CASE i \notin DOMAIN worker.trades
      <4>1. worker'.trades[i] = t
        BY <2>2, <3>2
      <4>2. QED
        BY <2>1, <4>1
    <3>3. QED
      BY <3>1, <3>2
  <2>7. QED
    BY <2>5, <2>6 DEF ReportsInv, Live
<1>7. CASE EndMatch
  <2>1. /\ worker.id \in OrderId /\ Live(worker.id) /\ worker.pc = "match"
        /\ told[worker.id].state = "open"
    BY <1>0, <1>7 DEF EndMatch, WorkerInv
  <2>2. Incoming \in Order
    BY <1>0, <2>1 DEF Live, Incoming, TypeOK
  <2>3. /\ orders' = [orders EXCEPT ![worker.id].status = FinalStatus(Incoming)]
        /\ worker'.trades = worker.trades /\ worker'.pc = "settle"
        /\ told' = told
    BY <1>0, <1>7 DEF EndMatch, TypeOK, Worker
  <2>4. /\ orders'[worker.id].status = FinalStatus(Incoming)
        /\ orders'[worker.id].rem = Incoming.rem
        /\ \A id \in OrderId \ {worker.id} : orders'[id] = orders[id]
    BY <1>0, <2>1, <2>2, <2>3 DEF TypeOK, Order, Incoming
  <2>5. ASSUME NEW id \in OrderId, orders'[id] # NoOrder
        PROVE  /\ told'[id].state = "open"
               /\ orders'[id].rem <= told'[id].leaves
               /\ orders'[id].rem = 0 => orders'[id].status = "Filled"
    <3>1. CASE id = worker.id
      BY <2>1, <2>3, <2>4, <3>1 DEF ReportsInv, FinalStatus, Incoming
    <3>2. CASE id # worker.id
      BY <2>1, <2>3, <2>4, <2>5, <3>2 DEF ReportsInv, Live
    <3>3. QED
      BY <3>1, <3>2
  <2>6. ASSUME NEW i \in DOMAIN worker'.trades
        PROVE  worker'.trades[i].buy # worker'.trades[i].sell
    BY <2>3 DEF ReportsInv
  <2>7. QED
    BY <2>3, <2>5, <2>6 DEF ReportsInv, Live
<1>8. CASE SettleTrade
  <2> DEFINE t == Head(worker.trades)
  <2>1. /\ orders' = [i \in OrderId |->
                        IF i \in {t.buy, t.sell} /\ orders[i].rem = 0
                        THEN NoOrder ELSE orders[i]]
        /\ told' = [told EXCEPT ![t.buy] = ReportFill(@, orders[t.buy]),
                                ![t.sell] = ReportFill(@, orders[t.sell])]
        /\ Live(t.buy) /\ Live(t.sell)
        /\ worker.pc = "settle" /\ worker.trades # << >>
        /\ worker' = [worker EXCEPT !.trades = Tail(@)]
    BY <1>8 DEF SettleTrade
  <2>2. /\ worker'.pc = "settle"
        /\ t \in Trade
        /\ \A i \in DOMAIN worker'.trades :
             /\ i + 1 \in DOMAIN worker.trades
             /\ worker'.trades[i] = worker.trades[i + 1]
    BY <1>0, <2>1, TradeTaken
  <2>3. t.buy \in OrderId /\ t.sell \in OrderId
    BY <2>2 DEF Trade
  <2> HIDE DEF t
  <2>4. ASSUME NEW id \in OrderId, id \in {t.buy, t.sell}
        PROVE  /\ told'[id].state =
                    IF orders[id].status = "Filled" THEN "closed" ELSE "open"
               /\ told'[id].leaves = orders[id].rem
               /\ orders[id] \in Order
               /\ orders'[id] # NoOrder => orders'[id] = orders[id] /\ orders[id].rem # 0
    <3>1. told[id] \in Told /\ told'[id] = ReportFill(told[id], orders[id])
      BY <1>0, <2>1, <2>4 DEF TypeOK
    <3>2. told'[id].state = (IF orders[id].status = "Filled" THEN "closed" ELSE "open")
            /\ told'[id].leaves = orders[id].rem
      BY <3>1 DEF ReportFill, Told
    <3>3. QED
      BY <1>0, <2>1, <2>4, <3>2 DEF TypeOK, Live
  <2>5. ASSUME NEW id \in OrderId, id \notin {t.buy, t.sell}
        PROVE  orders'[id] = orders[id] /\ told'[id] = told[id]
    BY <1>0, <2>1, <2>5 DEF TypeOK
  <2>6. ASSUME NEW id \in OrderId, orders'[id] # NoOrder
        PROVE  /\ told'[id].state = "open"
               /\ orders'[id].rem <= told'[id].leaves
               /\ orders'[id].rem = 0 => orders'[id].status = "Filled"
    <3>1. CASE id \in {t.buy, t.sell}
      <4>1. /\ orders'[id] = orders[id] /\ orders[id].rem # 0 /\ orders[id] \in Order
            /\ told'[id].leaves = orders[id].rem
        BY <2>4, <2>6, <3>1
      <4>2. orders[id].status # "Filled"
        BY <1>0, <2>6, <4>1 DEF OrdersInv, Live
      <4>3. orders[id].rem \in Nat
        BY <4>1 DEF Order
      <4>4. QED
        BY <2>4, <3>1, <4>1, <4>2, <4>3
    <3>2. CASE id \notin {t.buy, t.sell}
      BY <2>1, <2>5, <2>6, <3>2 DEF ReportsInv, Live
    <3>3. QED
      BY <3>1, <3>2
  <2>7. ASSUME NEW i \in DOMAIN worker'.trades
        PROVE  worker'.trades[i].buy # worker'.trades[i].sell
    <3>1. i + 1 \in DOMAIN worker.trades /\ worker'.trades[i] = worker.trades[i + 1]
      BY <2>2
    <3>2. QED
      BY <3>1 DEF ReportsInv
  <2>8. QED
    BY <2>6, <2>7 DEF ReportsInv, Live
<1>9. CASE SkipTrade
  <2>1. /\ UNCHANGED <<orders, told>> /\ worker.pc = "settle" /\ worker.trades # << >>
        /\ worker' = [worker EXCEPT !.trades = Tail(@)]
    BY <1>9 DEF SkipTrade
  <2>2. /\ worker'.pc = "settle"
        /\ \A i \in DOMAIN worker'.trades :
             /\ i + 1 \in DOMAIN worker.trades
             /\ worker'.trades[i] = worker.trades[i + 1]
    BY <1>0, <2>1, TradeTaken
  <2>3. QED
    BY <2>1, <2>2 DEF ReportsInv, Live
<1>10. CASE RestIncoming \/ RemoveIncoming \/ IncomingDone
  <2>1. /\ worker.pc = "settle" /\ worker' = IdleState /\ told' = told
        /\ \A id \in OrderId : orders'[id] = orders[id] \/ orders'[id] = NoOrder
    BY <1>0, <1>10 DEF RestIncoming, RemoveIncoming, IncomingDone, Settled, TypeOK
  <2>2. DOMAIN worker'.trades = {} /\ worker'.pc = "idle"
    BY <2>1 DEF IdleState
  <2>3. QED
    BY <2>1, <2>2 DEF ReportsInv, Live
<1>11. QED
  BY <1>1, <1>2, <1>3, <1>4, <1>5, <1>6, <1>7, <1>8, <1>9, <1>10
  DEF Next, WorkerStep, DbStep, SubmitNew, SubmitAmend, FetchBatch,
      RunOrderTask, RunTradeTask, workerVars, vars

LEMMA ReportsInit == Init => ReportsInv /\ IdleEmpty
BY DEF Init, ReportsInv, IdleEmpty, IdleState, Live

(* Every reachable state: an order in the manager is open to its owner, who *)
(* knows at least the quantity it has left, and the parties of a pending    *)
(* trade are two orders.                                                    *)
THEOREM ReportsSound == Spec => []ReportsInv
<1>1. Init => ReportsInv /\ IdleEmpty
  BY ReportsInit
<1>2. IndInv /\ (ReportsInv /\ IdleEmpty) /\ [Next]_vars => (ReportsInv /\ IdleEmpty)'
  BY ReportsStep, IdleEmptyStep
<1>3. QED
  BY <1>1, <1>2, Safety, PTL DEF Spec

-----------------------------------------------------------------------------
(* The refinement.                                                          *)

(* A report on one order is a step of the lifecycle.                        *)
LEMMA OneReport ==
  ASSUME TypeOK, NEW id \in OrderId, NEW r,
         told' = [told EXCEPT ![id] = r],
         \/ Life!Accepted(told[id], r) \/ Life!Rejected(told[id], r)
         \/ Life!Cancelled(told[id], r) \/ Life!Replaced(told[id], r)
         \/ Life!Refused(told[id], r)
  PROVE  Life!LifeNext
<1>1. told'[id] = r
  BY DEF TypeOK
<1>2. Life!ReportOne(id)
  BY <1>1 DEF Life!ReportOne
<1>3. QED
  BY <1>2 DEF Life!LifeNext

(* Every step of the partition is a step of the lifecycle or reports        *)
(* nothing.                                                                 *)
LEMMA LifecycleStep ==
  ASSUME IndInv, ReportsInv, [Next]_vars
  PROVE  [Life!LifeNext]_told
<1>0. /\ TypeOK /\ PointersLive /\ ToldDoneIsDone /\ WorkerInv /\ NewIdsFresh
      /\ OrdersInv
  BY DEF IndInv
<1>1. CASE UNCHANGED told
  BY <1>1
<1>2. CASE RejectNew
  <2>1. /\ batch # << >> /\ Cmd.kind = "New" /\ batch' = Tail(batch) /\ queue' = queue
        /\ told' = [told EXCEPT ![Cmd.id] = ReportReject(@)]
    BY <1>2 DEF RejectNew, Take
  <2>2. Cmd.id \in OrderId
    BY <1>0, <2>1, CmdType
  <2>3. 1 \in DOMAIN Pending /\ Pending[1] = Cmd
    BY <1>0, <2>1, PendingTake
  <2>4. Life!Rejected(told[Cmd.id], ReportReject(told[Cmd.id]))
    BY <1>0, <2>1, <2>3 DEF NewIdsFresh, Life!Rejected, ReportReject
  <2>5. QED
    BY <1>0, <2>1, <2>2, <2>4, OneReport
<1>3. CASE RejectUnknown \/ RejectCancel
  <2>1. batch # << >> /\ told' = [told EXCEPT ![Cmd.id] = ReportRefuse(@)]
    BY <1>3 DEF RejectUnknown, RejectCancel, Take
  <2>2. Cmd.id \in OrderId
    BY <1>0, <2>1, CmdType
  <2>3. Life!Refused(told[Cmd.id], ReportRefuse(told[Cmd.id]))
    BY DEF Life!Refused, ReportRefuse
  <2>4. QED
    BY <1>0, <2>1, <2>2, <2>3, OneReport
<1>4. CASE AcceptNew
  <2>1. /\ batch # << >> /\ Cmd.kind = "New" /\ batch' = Tail(batch) /\ queue' = queue
        /\ told' = [told EXCEPT ![Cmd.id] = ReportNew(@, Cmd.order)]
    BY <1>4 DEF AcceptNew, Take
  <2>2. Cmd.id \in OrderId
    BY <1>0, <2>1, CmdType
  <2>3. 1 \in DOMAIN Pending /\ Pending[1] = Cmd
    BY <1>0, <2>1, PendingTake
  <2>4. told[Cmd.id].state = "nothing"
    BY <1>0, <2>1, <2>3 DEF NewIdsFresh
  <2>5. Life!Accepted(told[Cmd.id], ReportNew(told[Cmd.id], Cmd.order))
    <3>1. told[Cmd.id] \in Told
      BY <1>0, <2>2 DEF TypeOK
    <3>2. QED
      BY <2>4, <3>1 DEF Life!Accepted, ReportNew, Told
  <2>6. QED
    BY <1>0, <2>1, <2>2, <2>5, OneReport
<1>5. CASE StartModify
  <2> DEFINE o == Replaced(orders[Cmd.id], Cmd)
  <2>1. /\ batch # << >> /\ Live(Cmd.id)
        /\ told' = [told EXCEPT ![Cmd.id] = ReportReplace(@, o)]
    BY <1>5 DEF StartModify, Take
  <2> HIDE DEF o
  <2>2. Cmd.id \in OrderId
    BY <1>0, <2>1, CmdType
  <2>3. told[Cmd.id] \in Told /\ told[Cmd.id].state = "open"
    BY <1>0, <2>1, <2>2 DEF ReportsInv, TypeOK
  <2>4. Life!Replaced(told[Cmd.id], ReportReplace(told[Cmd.id], o))
    BY <2>3 DEF Life!Replaced, ReportReplace, Told
  <2>5. QED
    BY <1>0, <2>1, <2>2, <2>4, OneReport
<1>6. CASE CancelResting
  <2>1. /\ batch # << >> /\ Live(Cmd.id) /\ Resting(book, Cmd.id)
        /\ told' = [told EXCEPT ![Cmd.id] = ReportCancel(@, orders[Cmd.id])]
    BY <1>6 DEF CancelResting, Take
  <2>2. Cmd.id \in OrderId
    BY <1>0, <2>1, CmdType
  <2>3. told[Cmd.id] \in Told /\ told[Cmd.id].state = "open"
    BY <1>0, <2>1, <2>2 DEF ReportsInv, TypeOK
  <2>4. orders[Cmd.id].rem <= told[Cmd.id].leaves
    BY <2>1, <2>2 DEF ReportsInv
  <2>5. Life!Cancelled(told[Cmd.id], ReportCancel(told[Cmd.id], orders[Cmd.id]))
    BY <2>3, <2>4 DEF Life!Cancelled, ReportCancel, Told
  <2>6. QED
    BY <1>0, <2>1, <2>2, <2>5, OneReport
<1>7. CASE SettleTrade
  <2> DEFINE t == Head(worker.trades)
  <2>1. /\ told' = [told EXCEPT ![t.buy] = ReportFill(@, orders[t.buy]),
                                ![t.sell] = ReportFill(@, orders[t.sell])]
        /\ Live(t.buy) /\ Live(t.sell)
        /\ worker.pc = "settle" /\ worker.trades # << >>
        /\ worker' = [worker EXCEPT !.trades = Tail(@)]
    BY <1>7 DEF SettleTrade
  <2>2. t \in Trade /\ 1 \in DOMAIN worker.trades /\ t = worker.trades[1]
    BY <1>0, <2>1, TradeTaken
  <2>3. /\ t.buy \in OrderId /\ t.sell \in OrderId /\ t.buy # t.sell
        /\ told[t.buy].state = "open" /\ told[t.sell].state = "open"
    BY <2>1, <2>2 DEF Trade, ReportsInv
  <2> HIDE DEF t
  <2>4. /\ told'[t.buy] = ReportFill(told[t.buy], orders[t.buy])
        /\ told'[t.sell] = ReportFill(told[t.sell], orders[t.sell])
    BY <1>0, <2>1, <2>3 DEF TypeOK
  <2>5. ASSUME NEW id \in {t.buy, t.sell}
        PROVE  Life!Filled(told[id], told'[id])
    <3>1. /\ id \in OrderId /\ Live(id) /\ told[id].state = "open"
          /\ told[id] \in Told
          /\ told'[id] = ReportFill(told[id], orders[id])
      BY <1>0, <2>1, <2>3, <2>4 DEF TypeOK
    <3>2. orders[id].rem <= told[id].leaves
      BY <3>1 DEF ReportsInv
    <3>3. orders[id].status = "Filled" <=> orders[id].rem = 0
      BY <1>0, <2>1, <3>1 DEF ReportsInv, OrdersInv
    <3>4. QED
      <4>1. /\ told'[id].state = (IF orders[id].status = "Filled" THEN "closed" ELSE "open")
            /\ told'[id].leaves = orders[id].rem /\ told'[id].answers = told[id].answers
        BY <3>1 DEF ReportFill, Told
      <4>2. QED
        BY <3>1, <3>2, <3>3, <4>1 DEF Life!Filled
  <2>6. told' = [told EXCEPT ![t.buy] = told'[t.buy], ![t.sell] = told'[t.sell]]
    BY <2>1, <2>4
  <2>7. Life!ReportTrade(t.buy, t.sell)
    BY <2>5, <2>6 DEF Life!ReportTrade
  <2>8. QED
    BY <2>3, <2>7 DEF Life!LifeNext
<1>8. QED
  BY <1>1, <1>2, <1>4, <1>5, <1>6, <1>7, <1>3
  DEF Next, WorkerStep, DbStep, SubmitNew, SubmitAmend, FetchBatch, Fill, FillAt,
      EndMatch, SkipTrade, RestIncoming, RemoveIncoming, IncomingDone,
      RunOrderTask, RunTradeTask, workerVars, vars

(* The partition implements the order lifecycle: whatever the matching      *)
(* loop, skipped trades, late cancels and modifies, dropped commands and    *)
(* batches do, every client sees a history of reports that OrderLifecycle   *)
(* allows.                                                                  *)
THEOREM LifecycleRefined == Spec => ImplementsLifecycle
<1>1. Init => Life!LifeInit
  BY DEF Init, Untold, Life!LifeInit
<1>2. IndInv /\ ReportsInv /\ [Next]_vars => [Life!LifeNext]_told
  BY LifecycleStep
<1>3. QED
  BY <1>1, <1>2, Safety, ReportsSound, PTL DEF Spec, ImplementsLifecycle, Life!LifeSpec
=============================================================================
