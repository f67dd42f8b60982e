--------------------------- MODULE ExchangeProofs ---------------------------
(***************************************************************************)
(* TLAPS proofs about module Exchange: what survives a kill of the process  *)
(* at any moment and a restart on the tables it left behind, for every      *)
(* value of the constants.                                                  *)
(***************************************************************************)
EXTENDS Exchange, PartitionProofs, FiniteSetTheorems, WellFoundedInduction

-----------------------------------------------------------------------------
(* Facts about sets of numbers and about sequences.                         *)

(* A nonempty set of naturals has a least element: the row that SELECT id   *)
(* FROM trade_id reads first.                                               *)
LEMMA LeastIs ==
  ASSUME NEW S \in SUBSET Nat, S # {}
  PROVE  Min(S) \in S /\ \A n \in S : Min(S) <= n
<1> DEFINE R == OpToRel(<, Nat)
<1>1. IsWellFoundedOn(R, Nat)
  BY NatLessThanWellFounded
<1> HIDE DEF R
<1>2. PICK x \in S : \A y \in S : ~(<<y, x>> \in R)
  BY <1>1, WFMin, Zenon
<1>3. \A y \in S : x <= y
  <2>1. ASSUME NEW y \in S, ~(x <= y) PROVE FALSE
    <3>1. <<y, x>> \in Nat \X Nat /\ y < x
      BY <2>1
    <3>2. <<y, x>> \in R
      BY <3>1 DEF R, OpToRel
    <3>3. QED
      BY <1>2, <3>2
  <2>2. QED
    BY <2>1
<1>4. QED
  BY <1>3 DEF Min

(* A nonempty set of naturals below a bound has a greatest element: what    *)
(* SELECT MAX(core_order_id) answers.                                       *)
LEMMA GreatestIs ==
  ASSUME NEW n \in Nat, NEW S \in SUBSET (0..n), S # {}
  PROVE  Max(S) \in S /\ \A k \in S : k <= Max(S)
<1> DEFINE T == {n - k : k \in S}
<1>1. T \in SUBSET Nat /\ T # {}
  <2>1. \A k \in S : n - k \in Nat
    OBVIOUS
  <2>2. \A m \in T : \E k \in S : m = n - k
    OBVIOUS
  <2>3. \A m \in T : m \in Nat
    BY <2>1, <2>2
  <2>4. PICK k \in S : TRUE
    OBVIOUS
  <2>5. n - k \in T
    BY <2>4
  <2>6. QED
    BY <2>3, <2>5, Zenon
<1>2. Min(T) \in T /\ \A m \in T : Min(T) <= m
  BY <1>1, LeastIs
<1>3. PICK x \in S : Min(T) = n - x
  BY <1>2
<1>4. \A k \in S : k <= x
  <2>1. ASSUME NEW k \in S PROVE k <= x
    <3>1. n - k \in T
      OBVIOUS
    <3>2. n - x <= n - k
      BY <1>2, <1>3, <3>1
    <3>3. QED
      BY <3>2
  <2>2. QED
    BY <2>1
<1>5. \A k \in S : x >= k
  BY <1>4
<1>6. QED
  BY <1>4, <1>5 DEF Max

(* The sequences a set of ids is read in: each id of the set once, no other. *)
LEMMA InAnyOrder ==
  ASSUME NEW S \in SUBSET OrderId, NEW f \in SetToSeqs(S)
  PROVE  /\ f \in Seq(S)
         /\ \A i \in DOMAIN f : f[i] \in S
         /\ \A i, j \in DOMAIN f : f[i] = f[j] => i = j
<1>1. IsFiniteSet(OrderId)
  BY OrdersAssumption, FS_Interval DEF OrderId
<1>2. Cardinality(S) \in Nat
  BY <1>1, FS_Subset, FS_CardinalityType
<1> DEFINE c == Cardinality(S)
<1>3. /\ f \in [1..c -> S]
      /\ \A i, j \in 1..c : i # j => f[i] # f[j]
  BY DEF SetToSeqs
<1> HIDE DEF c
<1>4. c \in Nat
  BY <1>2 DEF c
<1>5. f \in Seq(S)
  BY <1>3, <1>4
<1>6. QED
  BY <1>3, <1>5

(* Every element of a concatenation is one of its parts'.                   *)
LEMMA ConcatElems ==
  ASSUME NEW S, NEW q \in Seq(S), NEW r \in Seq(S), NEW k \in DOMAIN (q \o r)
  PROVE  \/ \E j \in DOMAIN q : (q \o r)[k] = q[j]
         \/ \E j \in DOMAIN r : (q \o r)[k] = r[j]
<1>1. /\ Len(q) \in Nat /\ Len(r) \in Nat
      /\ DOMAIN q = 1..Len(q) /\ DOMAIN r = 1..Len(r)
      /\ DOMAIN (q \o r) = 1..(Len(q) + Len(r))
      /\ (q \o r)[k] = IF k <= Len(q) THEN q[k] ELSE r[k - Len(q)]
  BY ConcatProperties, LenProperties
<1>2. CASE k <= Len(q)
  <2>1. k \in DOMAIN q
    BY <1>1, <1>2
  <2>2. QED
    BY <1>1, <1>2, <2>1
<1>3. CASE ~(k <= Len(q))
  <2>1. k - Len(q) \in DOMAIN r
    BY <1>1, <1>3
  <2>2. QED
    BY <1>1, <1>3, <2>1
<1>4. QED
  BY <1>2, <1>3

-----------------------------------------------------------------------------
(* Which tasks a step queues and which commands it leaves pending.          *)

(* The worker takes the next command of its batch.                          *)
Taken ==
  worker.pc = "idle" /\ batch # << >> /\ batch' = Tail(batch) /\ queue' = queue

(* A task the worker may queue: about an order it holds or has just taken,  *)
(* which start could load as the task stores it.                            *)
NewTask(u) ==
  /\ u.op # "trade" =>
       u.id \in OrderId /\ (Live(u.id) \/ (Taken /\ u.id = Cmd.id))
  /\ u.op \in {"save", "update"} => OpenHasRest(u.order)

AllNew(s) == s \in Seq(Task) /\ \A j \in DOMAIN s : NewTask(s[j])

TasksFrom ==
  \A k \in DOMAIN dbQueue' :
    (\E j \in DOMAIN dbQueue : dbQueue'[k] = dbQueue[j]) \/ NewTask(dbQueue'[k])

LEMMA AllNewNone == AllNew(<< >>)
BY EmptySeq DEF AllNew

LEMMA AllNewOne ==
  ASSUME NEW u \in Task, NewTask(u)
  PROVE  AllNew(<<u>>)
<1>1. <<u>> \in Seq(Task) /\ DOMAIN <<u>> = 1..1 /\ <<u>>[1] = u
  OBVIOUS
<1> DEFINE s == <<u>>
<1>2. s \in Seq(Task) /\ \A j \in DOMAIN s : s[j] = u
  BY <1>1
<1> HIDE DEF s
<1>3. AllNew(s)
  BY <1>2 DEF AllNew
<1>4. QED
  BY <1>3 DEF s

LEMMA AllNewTwo ==
  ASSUME NEW u \in Task, NEW v \in Task, NewTask(u), NewTask(v)
  PROVE  AllNew(<<u, v>>)
<1> DEFINE s == <<u, v>>
<1>1. s \in Seq(Task) /\ \A j \in DOMAIN s : s[j] = u \/ s[j] = v
  OBVIOUS
<1> HIDE DEF s
<1>2. AllNew(s)
  BY <1>1 DEF AllNew
<1>3. QED
  BY <1>2 DEF s

LEMMA AllNewConcat ==
  ASSUME NEW a, NEW b, AllNew(a), AllNew(b)
  PROVE  AllNew(a \o b)
<1>1. a \in Seq(Task) /\ b \in Seq(Task)
  BY DEF AllNew
<1> DEFINE c == a \o b
<1>2. c \in Seq(Task)
  BY <1>1, ConcatProperties
<1>3. \A k \in DOMAIN c : \/ \E j \in DOMAIN a : c[k] = a[j]
                          \/ \E j \in DOMAIN b : c[k] = b[j]
  BY <1>1, ConcatElems
<1> HIDE DEF c
<1>4. AllNew(c)
  BY <1>2, <1>3 DEF AllNew
<1>5. QED
  BY <1>4 DEF c

LEMMA PersistTasks ==
  ASSUME TypeOK, NEW tasks, AllNew(tasks), Persist(tasks)
  PROVE  TasksFrom
<1>1. /\ dbQueue \in Seq(Task) /\ tasks \in Seq(Task)
      /\ \A j \in DOMAIN tasks : NewTask(tasks[j])
  BY DEF TypeOK, AllNew
<1> DEFINE c == dbQueue \o tasks
<1>2. \A k \in DOMAIN c : \/ \E j \in DOMAIN dbQueue : c[k] = dbQueue[j]
                          \/ \E j \in DOMAIN tasks : c[k] = tasks[j]
  BY <1>1, ConcatElems
<1>3. dbQueue' = c
  BY DEF Persist
<1> HIDE DEF c
<1>4. \A k \in DOMAIN c :
        (\E j \in DOMAIN dbQueue : c[k] = dbQueue[j]) \/ NewTask(c[k])
  BY <1>1, <1>2
<1>5. QED
  BY <1>3, <1>4 DEF TasksFrom

LEMMA TasksKept ==
  ASSUME dbQueue' = dbQueue
  PROVE  TasksFrom
BY DEF TasksFrom

(* The command taken is the first pending one.                              *)
LEMMA TakenCmd ==
  ASSUME CoreInv, Taken
  PROVE  /\ Cmd.id \in OrderId /\ Cmd.id <= orderId
         /\ 1 \in DOMAIN Pending /\ Pending[1] = Cmd
         /\ Cmd.kind = "New" => Cmd.order \in ClientOrders
<1>1. TypeOK /\ OrdersKnown
  BY DEF CoreInv
<1>2. 1 \in DOMAIN Pending /\ Pending[1] = Cmd
  BY <1>1, PendingTake DEF Taken
<1>3. Cmd.id \in OrderId
  BY <1>1, CmdType DEF Taken
<1>4. QED
  BY <1>1, <1>2, <1>3 DEF OrdersKnown

LEMMA StepKinds ==
  ASSUME TypeOK, WorkerStep \/ DbStep
  PROVE  orderId' = orderId /\ (Taken \/ Pending' = Pending)
<1>1. CASE FetchBatch
  BY <1>1, PendingFetch DEF FetchBatch
<1>2. CASE RejectNew \/ AcceptNew \/ RejectUnknown \/ CancelResting \/ RejectCancel
             \/ StartModify
  BY <1>2 DEF RejectNew, AcceptNew, RejectUnknown, CancelResting, RejectCancel,
              StartModify, Take, Taken
<1>3. CASE UNCHANGED <<batch, queue, orderId>>
  BY <1>3 DEF Pending
<1>4. QED
  BY <1>1, <1>2, <1>3
  DEF WorkerStep, DbStep, Fill, FillAt, EndMatch, SettleTrade, SkipTrade,
      RestIncoming, RemoveIncoming, IncomingDone, RunOrderTask, RunTradeTask,
      workerVars

(* What a queued update or save stores of an order the worker is not        *)
(* matching can be loaded.                                                  *)
LEMMA LiveLoadable ==
  ASSUME TypeOK, RowsLoadable, worker.pc # "match", NEW id \in OrderId, Live(id)
  PROVE  orders[id] \in Order /\ OpenHasRest(orders[id])
BY DEF TypeOK, RowsLoadable, Live

(* A client's order that passes preCheck has quantity left.                 *)
LEMMA AcceptedHasRest ==
  ASSUME NEW o \in ClientOrders, preCheck(book, orders, o)
  PROVE  o \in Order /\ OpenHasRest(o)
<1>1. o \in Order /\ o.rem = o.orig
  BY PartitionAssumption
<1>2. o.orig > 0
  BY DEF preCheck, ValidTerms
<1>3. QED
  BY <1>1, <1>2 DEF OpenHasRest

(* An order modified to a positive quantity has quantity left.              *)
LEMMA ReplacedHasRest ==
  ASSUME NEW o \in Order, NEW c, c.price \in Prices, c.qty \in Quantities, c.qty > 0
  PROVE  Replaced(o, c) \in Order /\ OpenHasRest(Replaced(o, c))
<1>1. c.qty \in Nat
  BY OrdersAssumption
<1>2. Replaced(o, c) \in Order
  BY <1>1 DEF Replaced, Order, OrderStatus
<1>3. Replaced(o, c).rem = c.qty
  BY DEF Replaced, Order
<1>4. QED
  BY <1>2, <1>3 DEF OpenHasRest

(* A modify that is taken has a positive quantity.                          *)
LEMMA TakenModify ==
  ASSUME CoreInv, ModifiesRest, Taken, Cmd.kind = "Modify"
  PROVE  Cmd.price \in Prices /\ Cmd.qty \in Quantities /\ Cmd.qty > 0
<1>1. 1 \in DOMAIN Pending /\ Pending[1] = Cmd
  BY TakenCmd
<1>2. Cmd.qty > 0
  BY <1>1 DEF ModifiesRest
<1>3. QED
  BY <1>2, CmdType DEF CoreInv, Taken

LEMMA PostTradeNew ==
  ASSUME NEW t \in Trade
  PROVE  AllNew(PostTrade(t))
<1>1. addTrade(t) \in Task
  BY DEF Task, addTrade
<1>2. NewTask(addTrade(t))
  BY DEF NewTask, addTrade
<1>3. QED
  BY <1>1, <1>2, AllNewOne, AllNewNone DEF PostTrade

LEMMA RemoveNew ==
  ASSUME NEW id \in OrderId, Live(id)
  PROVE  AllNew(<<removeOrder(id)>>) /\ AllNew(RemoveIfFilled(id))
<1>1. removeOrder(id) \in Task
  BY TaskType
<1>2. NewTask(removeOrder(id))
  BY DEF NewTask, removeOrder
<1>3. QED
  BY <1>1, <1>2, AllNewOne, AllNewNone DEF RemoveIfFilled

LEMMA StoreNew ==
  ASSUME NEW id \in OrderId, NEW o \in Order, OpenHasRest(o),
         Live(id) \/ (Taken /\ id = Cmd.id)
  PROVE  /\ saveOrder(id, o) \in Task /\ NewTask(saveOrder(id, o))
         /\ updateOrder(id, o) \in Task /\ NewTask(updateOrder(id, o))
<1>1. saveOrder(id, o) \in Task /\ updateOrder(id, o) \in Task
  BY TaskType
<1>2. QED
  BY <1>1 DEF NewTask, saveOrder, updateOrder

(* No step queues a task that could leave a row start must not load, or one *)
(* that names an order nobody has heard of.                                 *)
LEMMA TaskStep ==
  ASSUME CoreInv, RowsLoadable, ModifiesRest, WorkerStep \/ DbStep
  PROVE  TasksFrom
<1>0. TypeOK
  BY DEF CoreInv
<1>1. CASE dbQueue' = dbQueue
  BY <1>1, TasksKept
<1>2. CASE AcceptNew
  <2>1. Taken /\ Cmd.kind = "New" /\ preCheck(book, orders, Cmd.order)
    BY <1>2 DEF AcceptNew, Take, Taken
  <2>2. Cmd.id \in OrderId /\ Cmd.order \in Order /\ OpenHasRest(Cmd.order)
    BY <2>1, TakenCmd, AcceptedHasRest
  <2>3. AllNew(<<saveOrder(Cmd.id, Cmd.order)>>)
    BY <2>1, <2>2, StoreNew, AllNewOne
  <2>4. QED
    BY <1>0, <1>2, <2>3, PersistTasks DEF AcceptNew
<1>3. CASE CancelResting
  <2>1. Taken /\ Live(Cmd.id)
    BY <1>3 DEF CancelResting, Take, Taken
  <2>2. AllNew(<<removeOrder(Cmd.id)>>)
    BY <2>1, TakenCmd, RemoveNew
  <2>3. QED
    BY <1>0, <1>3, <2>2, PersistTasks DEF CancelResting
<1>4. CASE StartModify
  <2> DEFINE o == Replaced(orders[Cmd.id], Cmd)
             r == removeOrder(Cmd.id)
             v == saveOrder(Cmd.id, o)
  <2>1. Taken /\ Live(Cmd.id) /\ Cmd.kind = "Modify" /\ Persist(<<r, v>>)
    BY <1>4 DEF StartModify, Take, Taken
  <2>2. Cmd.id \in OrderId /\ orders[Cmd.id] \in Order
    BY <1>0, <2>1, TakenCmd DEF TypeOK, Live
  <2>3. o \in Order /\ OpenHasRest(o)
    BY <2>1, <2>2, TakenModify, ReplacedHasRest
  <2>4. v \in Task /\ NewTask(v)
    BY <2>1, <2>2, <2>3, StoreNew
  <2>5. r \in Task /\ NewTask(r)
    BY <2>1, <2>2, TaskType DEF NewTask, removeOrder
  <2> HIDE DEF r, v
  <2>6. QED
    BY <1>0, <2>1, <2>4, <2>5, AllNewTwo, PersistTasks
<1>5. CASE SettleTrade
  <2> DEFINE t == Head(worker.trades)
             up == <<updateOrder(t.buy, orders[t.buy]),
                     updateOrder(t.sell, orders[t.sell])>>
             all == PostTrade(t) \o up \o RemoveIfFilled(t.buy) \o RemoveIfFilled(t.sell)
  <2>1. /\ Live(t.buy) /\ Live(t.sell) /\ worker.pc # "match"
        /\ worker.trades # << >> /\ Persist(all)
    BY <1>5 DEF SettleTrade
  <2>2. t \in Trade
    BY <1>0, <2>1, HeadTailProperties DEF TypeOK, Worker
  <2> HIDE DEF t, all
  <2>3. t.buy \in OrderId /\ t.sell \in OrderId
    BY <2>2 DEF Trade
  <2>4. AllNew(up)
    BY <1>0, <2>1, <2>3, LiveLoadable, StoreNew, AllNewTwo
  <2> HIDE DEF up
  <2>5. AllNew(PostTrade(t)) /\ AllNew(RemoveIfFilled(t.buy)) /\ AllNew(RemoveIfFilled(t.sell))
    BY <2>1, <2>2, <2>3, PostTradeNew, RemoveNew
  <2>6. AllNew(all)
    BY <2>4, <2>5, AllNewConcat DEF all
  <2>7. QED
    BY <1>0, <2>1, <2>6, PersistTasks
<1>6. CASE SkipTrade
  <2> DEFINE t == Head(worker.trades)
  <2>1. worker.trades # << >> /\ Persist(PostTrade(t))
    BY <1>6 DEF SkipTrade
  <2>2. t \in Trade
    BY <1>0, <2>1, HeadTailProperties DEF TypeOK, Worker
  <2> HIDE DEF t
  <2>3. QED
    BY <1>0, <2>1, <2>2, PostTradeNew, PersistTasks
<1>7. CASE RemoveIncoming
  <2>1. Live(worker.id) /\ worker.id \in OrderId /\ Persist(<<removeOrder(worker.id)>>)
    BY <1>7 DEF RemoveIncoming, MustRemove, Settled, CoreInv, WorkerHolds
  <2>2. QED
    BY <1>0, <2>1, RemoveNew, PersistTasks
<1>8. CASE dbQueue # << >> /\ dbQueue' = Tail(dbQueue)
  <2>1. /\ Len(dbQueue) \in Nat /\ DOMAIN dbQueue = 1..Len(dbQueue)
        /\ DOMAIN Tail(dbQueue) = 1..(Len(dbQueue) - 1)
        /\ \A i \in 1..(Len(dbQueue) - 1) : Tail(dbQueue)[i] = dbQueue[i + 1]
    BY <1>0, <1>8, HeadTailProperties, LenProperties DEF TypeOK
  <2>2. \A k \in DOMAIN dbQueue' : k + 1 \in DOMAIN dbQueue /\ dbQueue'[k] = dbQueue[k + 1]
    BY <1>8, <2>1
  <2>3. QED
    BY <2>2 DEF TasksFrom
<1>9. QED
  BY <1>1, <1>2, <1>3, <1>4, <1>5, <1>6, <1>7, <1>8
  DEF WorkerStep, DbStep, FetchBatch, RejectNew, RejectUnknown, RejectCancel,
      Fill, FillAt, EndMatch, RestIncoming, IncomingDone,
      RunOrderTask, RunTradeTask, dbVars

-----------------------------------------------------------------------------
(* The steps of the running threads.                                        *)

(* A row changes only by the task at the head of the queue, which names it. *)
LEMMA RowStep ==
  ASSUME TypeOK, RowsLoadable, Next, NEW id \in OrderId
  PROVE  /\ dbOrders'[id] = dbOrders[id]
              \/ \E k \in DOMAIN dbQueue : dbQueue[k].op # "trade" /\ dbQueue[k].id = id
         /\ dbOrders'[id] # NoOrder => OpenHasRest(dbOrders'[id])
<1>1. CASE dbOrders' = dbOrders
  BY <1>1 DEF RowsLoadable
<1>2. CASE RunOrderTask
  <2> DEFINE u == Head(dbQueue)
  <2>1. /\ u.op # "trade" /\ dbQueue # << >>
        /\ dbOrders' = [dbOrders EXCEPT ![u.id] = OrderRow(@, u)]
    BY <1>2 DEF RunOrderTask
  <2>2. u \in Task /\ 1 \in DOMAIN dbQueue /\ dbQueue[1] = u
    BY <2>1, HeadTailProperties, LenProperties, EmptySeq DEF TypeOK
  <2> HIDE DEF u
  <2>3. /\ id # u.id => dbOrders'[id] = dbOrders[id]
        /\ id = u.id => dbOrders'[id] = OrderRow(dbOrders[id], u)
    BY <2>1 DEF TypeOK
  <2>4. CASE id # u.id
    BY <2>3, <2>4 DEF RowsLoadable
  <2>5. CASE id = u.id
    <3>1. u.op \in {"save", "update"} => OpenHasRest(u.order)
      BY <2>2 DEF RowsLoadable
    <3>2. dbOrders[id] # NoOrder => dbOrders[id] \in Order /\ OpenHasRest(dbOrders[id])
      BY DEF RowsLoadable, TypeOK
    <3>3. u.op \in {"save", "update", "remove"}
      BY <2>1, <2>2 DEF Task
    <3>4. CASE u.op = "save"
      <4>1. OrderRow(dbOrders[id], u) = IF dbOrders[id] = NoOrder THEN u.order ELSE dbOrders[id]
        BY <3>4 DEF OrderRow
      <4>2. QED
        BY <2>1, <2>2, <2>3, <2>5, <3>1, <3>2, <3>4, <4>1
    <3>5. CASE u.op = "update"
      <4>1. OrderRow(dbOrders[id], u) =
              IF dbOrders[id] = NoOrder THEN dbOrders[id]
              ELSE [dbOrders[id] EXCEPT !.rem = u.order.rem, !.status = u.order.status]
        BY <3>5 DEF OrderRow
      <4>2. dbOrders[id] # NoOrder => OpenHasRest(OrderRow(dbOrders[id], u))
        BY <3>1, <3>2, <3>5, <4>1 DEF OpenHasRest, Order
      <4>3. dbOrders[id] = NoOrder => OrderRow(dbOrders[id], u) = NoOrder
        BY <4>1
      <4>4. QED
        BY <2>1, <2>2, <2>3, <2>5, <4>2, <4>3
    <3>6. CASE u.op = "remove"
      <4>1. OrderRow(dbOrders[id], u) = NoOrder
        BY <3>6 DEF OrderRow
      <4>2. QED
        BY <2>1, <2>2, <2>3, <2>5, <4>1
    <3>7. QED
      BY <3>3, <3>4, <3>5, <3>6
  <2>6. QED
    BY <2>4, <2>5
<1>3. QED
  BY <1>1, <1>2
  DEF Next, SubmitNew, SubmitAmend, WorkerStep, DbStep, FetchBatch, RejectNew,
      AcceptNew, RejectUnknown, CancelResting, RejectCancel, StartModify, Fill, FillAt,
      EndMatch, SettleTrade, SkipTrade, RestIncoming, RemoveIncoming, IncomingDone,
      RunTradeTask, Persist, dbVars

(* Every order the manager holds, the one being matched aside, stays one    *)
(* that could be loaded.                                                    *)
OrdersLoadable ==
  \A id \in OrderId :
    Live(id) /\ ~(worker.pc = "match" /\ id = worker.id) => OpenHasRest(orders[id])

LEMMA OrdersLoadableStep ==
  ASSUME CoreInv, OrdersLoadable, Next
  PROVE  OrdersLoadable'
<1>0. TypeOK /\ WorkerHolds
  BY DEF CoreInv
<1>1. CASE UNCHANGED <<orders, worker>>
  BY <1>1 DEF OrdersLoadable, Live
<1>2. CASE AcceptNew \/ StartModify
  <2>1. /\ worker.pc = "idle"
        /\ worker'.pc = "match" /\ worker'.id = Cmd.id
        /\ \A id \in OrderId : id # Cmd.id => orders'[id] = orders[id]
    BY <1>0, <1>2 DEF AcceptNew, StartModify, Take, Matching, TypeOK
  <2>2. QED
    BY <2>1 DEF OrdersLoadable, Live
<1>3. CASE CancelResting
  <2>1. /\ worker' = worker
        /\ \A id \in OrderId : orders'[id] = orders[id] \/ orders'[id] = NoOrder
    BY <1>0, <1>3 DEF CancelResting, TypeOK
  <2>2. QED
    BY <2>1 DEF OrdersLoadable, Live
<1>4. CASE Fill
  <2>1. PICK r \in OrderId, q \in Nat, t \in Trade :
          /\ worker.pc = "match" /\ r # worker.id
          /\ orders[r] \in Order
          /\ q > 0 /\ q <= orders[r].rem
          /\ orders'[r] = FillResting(orders[r], q)
          /\ \A id \in OrderId \ {worker.id, r} : orders'[id] = orders[id]
          /\ worker' = [worker EXCEPT !.trades = Append(@, t)]
    BY <1>4, CoreFillEffect
  <2>2. worker'.pc = worker.pc /\ worker'.id = worker.id
    BY <1>0, <2>1 DEF TypeOK, Worker
  <2>3. OpenHasRest(orders'[r])
    BY <2>1 DEF FillResting, OpenHasRest, Order
  <2>4. QED
    BY <2>1, <2>2, <2>3 DEF OrdersLoadable, Live
<1>5. CASE EndMatch
  <2>1. /\ worker.id \in OrderId /\ Incoming \in Order
        /\ orders'[worker.id] = [Incoming EXCEPT !.status = FinalStatus(Incoming)]
        /\ \A id \in OrderId : id # worker.id => orders'[id] = orders[id]
    BY <1>0, <1>5 DEF EndMatch, WorkerHolds, Live, TypeOK, Incoming
  <2>2. OpenHasRest(orders'[worker.id])
    <3>1. CASE Incoming.rem = 0
      BY <2>1, <3>1 DEF FinalStatus, OpenHasRest, Order
    <3>2. CASE Incoming.rem # 0
      BY <2>1, <3>2 DEF OpenHasRest, Order
    <3>3. QED
      BY <3>1, <3>2
  <2>3. QED
    BY <2>1, <2>2 DEF OrdersLoadable, Live
<1>6. CASE SettleTrade \/ SkipTrade \/ RestIncoming \/ RemoveIncoming \/ IncomingDone
  <2>1. worker.pc = "settle"
    BY <1>6 DEF SettleTrade, SkipTrade, RestIncoming, RemoveIncoming, IncomingDone, Settled
  <2>2. \A id \in OrderId : orders'[id] = orders[id] \/ orders'[id] = NoOrder
    BY <1>0, <1>6 DEF SettleTrade, SkipTrade, RestIncoming, RemoveIncoming, IncomingDone, TypeOK
  <2>3. QED
    BY <2>1, <2>2 DEF OrdersLoadable, Live
<1>7. QED
  BY <1>1, <1>2, <1>3, <1>4, <1>5, <1>6
  DEF Next, SubmitNew, SubmitAmend, WorkerStep, DbStep, FetchBatch, RejectNew,
      RejectUnknown, RejectCancel, RunOrderTask, RunTradeTask, workerVars

(* What the clients submit: a new order under the next id, or an amendment  *)
(* that keeps a positive quantity.                                          *)
LEMMA SubmitPending ==
  ASSUME NoZeroModify, CoreInv, SubmitNew \/ SubmitAmend, NEW i \in DOMAIN Pending'
  PROVE  \/ \E k \in DOMAIN Pending : Pending'[i] = Pending[k]
         \/ /\ Pending'[i].kind = "New" => Pending'[i].id = orderId + 1
            /\ Pending'[i].kind = "Modify" => Pending'[i].qty > 0
<1>0. TypeOK
  BY DEF CoreInv
<1>1. batch' = batch
  BY DEF SubmitNew, SubmitAmend, workerVars
<1>2. PICK c \in Command :
        /\ Enqueue(c)
        /\ c.kind = "New" => c.id = orderId + 1
        /\ c.kind = "Modify" => c.qty > 0
  <2>1. CASE SubmitNew
    <3>1. PICK o \in ClientOrders :
            orderId < MaxOrders /\ Enqueue([kind |-> "New", id |-> orderId + 1, order |-> o])
      BY <2>1 DEF SubmitNew
    <3>2. orderId + 1 \in OrderId /\ o \in Order
      BY <1>0, <3>1, OrdersAssumption, PartitionAssumption DEF TypeOK, OrderId
    <3> DEFINE c == [kind |-> "New", id |-> orderId + 1, order |-> o]
    <3>3. c \in Command /\ c.kind = "New" /\ c.id = orderId + 1
      BY <3>2 DEF Command
    <3>4. Enqueue(c)
      BY <3>1
    <3> HIDE DEF c
    <3>5. QED
      BY <3>3, <3>4
  <2>2. CASE SubmitAmend
    <3>1. PICK c \in [kind : AmendKinds \cap {"Cancel"}, id : 1..orderId]
                     \cup [kind : AmendKinds \cap {"Modify"}, id : 1..orderId,
                           price : Prices, qty : Quantities] : Enqueue(c)
      BY <2>2 DEF SubmitAmend
    <3>2. \A k \in 1..orderId : k \in OrderId
      BY <1>0, OrdersAssumption DEF TypeOK, OrderId
    <3>3. CASE c \in [kind : AmendKinds \cap {"Cancel"}, id : 1..orderId]
      <4>1. c \in Command /\ c.kind = "Cancel"
        BY <3>2, <3>3 DEF Command
      <4>2. QED
        BY <3>1, <4>1
    <3>4. CASE c \in [kind : AmendKinds \cap {"Modify"}, id : 1..orderId,
                      price : Prices, qty : Quantities]
      <4>1. c \in Command /\ c.kind = "Modify" /\ c.qty \in Quantities /\ "Modify" \in AmendKinds
        BY <3>2, <3>4 DEF Command
      <4>2. c.qty \in Nat /\ c.qty # 0
        BY <4>1, OrdersAssumption DEF NoZeroModify
      <4>3. QED
        BY <3>1, <4>1, <4>2
    <3>5. QED
      BY <3>1, <3>3, <3>4
  <2>3. QED
    BY <2>1, <2>2
<1>3. /\ Len(Pending) \in Nat /\ DOMAIN Pending = 1..Len(Pending)
  BY <1>0, PendingType
<1>4. CASE Pending' = Pending
  BY <1>4
<1>5. CASE /\ DOMAIN Pending' = 1..(Len(Pending) + 1)
           /\ \A k \in 1..Len(Pending) : Pending'[k] = Pending[k]
           /\ Pending'[Len(Pending) + 1] = c
  <2>1. i \in DOMAIN Pending \/ i = Len(Pending) + 1
    BY <1>3, <1>5
  <2>2. QED
    BY <1>2, <1>3, <1>5, <2>1
<1>6. QED
  BY <1>0, <1>1, <1>2, <1>4, <1>5, PendingEnqueue

(* What holds while the process is up.                                      *)
UpInv ==
  CoreInv /\ RowsLoadable /\ ModifiesRest /\ RecoveredIdsFree /\ RowsBelow

(* Table and task queue stay loadable and name no id above the counter.     *)
LEMMA RowsUpStep ==
  ASSUME UpInv, Next
  PROVE  RowsLoadable' /\ RowsBelow'
<1>0. CoreInv /\ RowsLoadable /\ ModifiesRest /\ RowsBelow /\ TypeOK /\ OrdersKnown
  BY DEF UpInv, CoreInv
<1>1. orderId \in Nat /\ orderId' \in Nat /\ orderId <= orderId'
  <2>1. orderId \in Nat
    BY <1>0 DEF TypeOK
  <2>2. orderId' = orderId \/ orderId' = orderId + 1
    BY <1>0, StepKinds DEF Next, SubmitNew, SubmitAmend
  <2>3. QED
    BY <2>1, <2>2
<1>2. TasksFrom
  BY <1>0, TaskStep, TasksKept DEF Next, SubmitNew, SubmitAmend, dbVars
<1>3. OrdersLoadable'
  <2>1. OrdersLoadable
    BY <1>0 DEF RowsLoadable, OrdersLoadable
  <2>2. QED
    BY <1>0, <2>1, OrdersLoadableStep
<1>4. \A id \in OrderId : dbOrders'[id] # NoOrder => OpenHasRest(dbOrders'[id])
  BY <1>0, RowStep
<1>5. \A k \in DOMAIN dbQueue' :
        dbQueue'[k].op \in {"save", "update"} => OpenHasRest(dbQueue'[k].order)
  BY <1>0, <1>2 DEF TasksFrom, NewTask, RowsLoadable
<1>6. RowsLoadable'
  BY <1>3, <1>4, <1>5 DEF RowsLoadable, OrdersLoadable
<1>7. ASSUME NEW k \in DOMAIN dbQueue', dbQueue'[k].op # "trade"
      PROVE  dbQueue'[k].id <= orderId'
  <2>1. CASE \E j \in DOMAIN dbQueue : dbQueue'[k] = dbQueue[j]
    <3>1. PICK j \in DOMAIN dbQueue : dbQueue'[k] = dbQueue[j]
      BY <2>1
    <3>2. dbQueue[j].id \in Nat
      <4>1. dbQueue[j] \in Task
        BY <1>0, ElementOfSeq, LenProperties DEF TypeOK
      <4>2. dbQueue[j].id \in OrderId
        BY <1>7, <3>1, <4>1 DEF Task
      <4>3. QED
        BY <4>2 DEF OrderId
    <3>3. dbQueue[j].id <= orderId
      BY <1>0, <1>7, <3>1 DEF RowsBelow
    <3>4. QED
      BY <1>1, <3>1, <3>2, <3>3
  <2>2. CASE NewTask(dbQueue'[k])
    <3> DEFINE n == dbQueue'[k].id
    <3>1. n \in OrderId /\ (Live(n) \/ (Taken /\ n = Cmd.id))
      BY <1>7, <2>2 DEF NewTask
    <3> HIDE DEF n
    <3>2. n <= orderId /\ n \in Nat
      BY <1>0, <3>1, TakenCmd DEF OrdersKnown, OrderId
    <3>3. QED
      BY <1>1, <3>2 DEF n
  <2>3. QED
    BY <1>2, <2>1, <2>2 DEF TasksFrom
<1>8. ASSUME NEW id \in OrderId, dbOrders'[id] # NoOrder PROVE id <= orderId'
  <2>1. id <= orderId
    BY <1>0, <1>8, RowStep DEF RowsBelow
  <2>2. id \in Nat
    BY DEF OrderId
  <2>3. QED
    BY <1>1, <2>1, <2>2
<1>9. QED
  BY <1>6, <1>7, <1>8 DEF RowsBelow

(* No modify to quantity 0 gets on its way.                                 *)
LEMMA ModifiesUpStep ==
  ASSUME NoZeroModify, UpInv, Next
  PROVE  ModifiesRest'
<1>0. CoreInv /\ ModifiesRest /\ TypeOK
  BY DEF UpInv, CoreInv
<1>1. CASE SubmitNew \/ SubmitAmend
  <2>1. SUFFICES ASSUME NEW i \in DOMAIN Pending', Pending'[i].kind = "Modify"
                 PROVE  Pending'[i].qty > 0
    BY DEF ModifiesRest
  <2>2. QED
    BY <1>0, <1>1, <2>1, SubmitPending DEF ModifiesRest
<1>2. CASE WorkerStep \/ DbStep
  <2>1. \A i \in DOMAIN Pending' : \E k \in DOMAIN Pending : Pending'[i] = Pending[k]
    BY <1>0, <1>2, StepKinds, TakeSubset DEF Taken
  <2>2. QED
    BY <1>0, <2>1 DEF ModifiesRest
<1>3. QED
  BY <1>1, <1>2 DEF Next

(* The ids of new orders on their way stay free in memory, in the table and *)
(* in the queue of tasks.                                                   *)
LEMMA IdsUpStep ==
  ASSUME NoZeroModify, UpInv, Next
  PROVE  RecoveredIdsFree'
<1>0. /\ CoreInv /\ RowsLoadable /\ ModifiesRest /\ RecoveredIdsFree /\ RowsBelow
      /\ TypeOK /\ IdsFree
  BY DEF UpInv, CoreInv
<1>1. CoreInv' /\ IdsFree' /\ TypeOK'
  BY <1>0, CoreStep DEF CoreInv
<1>2. SUFFICES ASSUME NEW i \in DOMAIN Pending', Pending'[i].kind = "New"
               PROVE  /\ dbOrders'[Pending'[i].id] = NoOrder
                      /\ \A k \in DOMAIN dbQueue' :
                           dbQueue'[k].op # "trade" => dbQueue'[k].id # Pending'[i].id
  BY <1>1 DEF RecoveredIdsFree, IdsFree
<1>3. Pending'[i].id \in OrderId
  <2>1. Pending' \in Seq(Command)
    BY <1>1, ConcatProperties DEF TypeOK, Pending
  <2>2. Pending'[i] \in Command
    BY <2>1, ElementOfSeq, LenProperties
  <2>3. QED
    BY <2>2 DEF Command
<1>4. CASE SubmitNew \/ SubmitAmend
  <2>1. UNCHANGED <<dbQueue, dbOrders>>
    BY <1>4 DEF SubmitNew, SubmitAmend, dbVars
  <2>2. CASE \E k \in DOMAIN Pending : Pending'[i] = Pending[k]
    BY <1>0, <1>2, <2>1, <2>2 DEF RecoveredIdsFree
  <2>3. CASE Pending'[i].id = orderId + 1
    <3>1. orderId \in Nat
      BY <1>0 DEF TypeOK
    <3>2. ~(orderId + 1 <= orderId)
      BY <3>1
    <3>3. QED
      BY <1>0, <1>3, <2>1, <2>3, <3>2 DEF RowsBelow
  <2>4. QED
    BY <1>0, <1>2, <1>4, <2>2, <2>3, SubmitPending
<1>5. CASE WorkerStep \/ DbStep
  <2>1. PICK k \in DOMAIN Pending :
          Pending'[i] = Pending[k] /\ (Taken => Pending[k].id # Cmd.id)
    <3>1. CASE Taken
      BY <1>0, <1>2, <3>1, TakeApart DEF Taken
    <3>2. CASE ~Taken
      BY <1>0, <1>5, <3>2, StepKinds
    <3>3. QED
      BY <3>1, <3>2
  <2> DEFINE n == Pending[k].id
  <2>2. /\ Pending'[i].id = n /\ n \in OrderId /\ ~Live(n)
        /\ dbOrders[n] = NoOrder
        /\ \A j \in DOMAIN dbQueue : dbQueue[j].op # "trade" => dbQueue[j].id # n
    BY <1>0, <1>2, <1>3, <2>1 DEF RecoveredIdsFree
  <2>3. Taken => n # Cmd.id
    BY <2>1
  <2> HIDE DEF n
  <2>4. dbOrders'[n] = NoOrder
    BY <1>0, <2>2, RowStep
  <2>5. TasksFrom
    BY <1>0, <1>5, TaskStep
  <2>6. \A j \in DOMAIN dbQueue' : dbQueue'[j].op # "trade" => dbQueue'[j].id # n
    BY <2>2, <2>3, <2>5 DEF TasksFrom, NewTask
  <2>7. QED
    BY <2>2, <2>4, <2>6
<1>6. QED
  BY <1>4, <1>5 DEF Next

LEMMA UpStep ==
  ASSUME NoZeroModify, UpInv, Next
  PROVE  UpInv'
<1>1. CoreInv'
  BY CoreStep DEF UpInv
<1>2. QED
  BY <1>1, RowsUpStep, ModifiesUpStep, IdsUpStep DEF UpInv

-----------------------------------------------------------------------------
(* Kill and restart.                                                        *)

(* Nothing is pending where both queues are empty.                          *)
LEMMA NothingPending ==
  ASSUME queue' = << >>, batch' = << >>
  PROVE  DOMAIN Pending' = {}
<1>1. Pending' = << >> \o << >>
  BY DEF Pending
<1>2. << >> \in Seq(Command)
  BY EmptySeq
<1>3. DOMAIN (<< >> \o << >>) = 1..0
  BY <1>2, EmptySeq, ConcatProperties, LenProperties
<1>4. QED
  BY <1>1, <1>3

(* A killed process leaves nothing in memory; the tables stay.              *)
LEMMA ExitStep ==
  ASSUME ExchangeInv, Exit
  PROVE  ExchangeInv'
<1>0. TypeOK /\ RowsLoadable /\ phase \in Phase /\ tradeIds \subseteq Nat
        /\ restarts \in 0..MaxRestarts
  BY DEF ExchangeInv, ExchangeTypeOK
<1>1. /\ orders' = [i \in OrderId |-> NoOrder] /\ book' = EmptyBook
      /\ queue' = << >> /\ batch' = << >> /\ worker' = IdleState
      /\ tradeId' = 0 /\ orderId' = 0 /\ dbQueue' = << >>
      /\ phase' = "down" /\ waited' = FALSE
      /\ UNCHANGED <<dbOrders, dbTrades, told, amends, tradeIds, restarts>>
  BY DEF Exit
<1>2. EmptyBook \in Book
  BY EmptySeq DEF EmptyBook, Book
<1>3. TypeOK'
  BY <1>0, <1>1, <1>2, IdleType, EmptySeq, OrdersAssumption DEF TypeOK
<1>4. ExchangeTypeOK'
  BY <1>0, <1>1, <1>3 DEF ExchangeTypeOK, Phase
<1>5. DOMAIN Pending' = {}
  BY <1>1, NothingPending
<1>6. \A id \in OrderId : orders'[id] = NoOrder
  BY <1>1
<1>7. \A s \in Side, p \in Prices : DOMAIN book'[s][p] = {}
  BY <1>1 DEF EmptyBook
<1>8. CoreInv'
  <2>1. PointersLive' /\ RestsOnce'
    BY <1>7 DEF PointersLive, RestsOnce
  <2>2. IdsFree' /\ OrdersKnown'
    BY <1>5, <1>6 DEF IdsFree, OrdersKnown, Live
  <2>3. WorkerHolds'
    BY <1>1 DEF WorkerHolds, IdleState
  <2>4. QED
    BY <1>3, <2>1, <2>2, <2>3 DEF CoreInv
<1>9. RowsLoadable'
  <2>1. DOMAIN dbQueue' = {}
    BY <1>1
  <2>2. QED
    BY <1>0, <1>1, <1>6, <2>1 DEF RowsLoadable, Live
<1>10. ModifiesRest' /\ RecoveredIdsFree'
  BY <1>5 DEF ModifiesRest, RecoveredIdsFree
<1>11. Gone'
  BY <1>1 DEF Gone, Exit
<1>12. QED
  BY <1>1, <1>4, <1>8, <1>9, <1>10, <1>11 DEF ExchangeInv

(* The book that start builds holds each loaded order once, where it        *)
(* belongs.                                                                 *)
LEMMA RebuiltBook ==
  ASSUME NEW bk \in Rebuilt
  PROVE  /\ bk \in Book
         /\ \A s \in Side, p \in Prices :
              /\ \A i \in DOMAIN bk[s][p] : bk[s][p][i] \in AtLevel(s, p)
              /\ \A i, j \in DOMAIN bk[s][p] : bk[s][p][i] = bk[s][p][j] => i = j
<1>1. \A s, p : AtLevel(s, p) \in SUBSET OrderId
  BY DEF AtLevel, Loaded
<1>2. bk \in [Side -> [Prices -> Readings]]
  BY DEF Rebuilt
<1>3. \A s \in Side, p \in Prices : bk[s][p] \in SetToSeqs(AtLevel(s, p))
  BY DEF Rebuilt
<1>4. ASSUME NEW s \in Side, NEW p \in Prices
      PROVE  /\ bk[s][p] \in Seq(OrderId)
             /\ \A i \in DOMAIN bk[s][p] : bk[s][p][i] \in AtLevel(s, p)
             /\ \A i, j \in DOMAIN bk[s][p] : bk[s][p][i] = bk[s][p][j] => i = j
  <2> DEFINE S == AtLevel(s, p)
             f == bk[s][p]
  <2>1. S \in SUBSET OrderId /\ f \in SetToSeqs(S)
    BY <1>1, <1>3
  <2> HIDE DEF S, f
  <2>2. /\ f \in Seq(S)
        /\ \A i \in DOMAIN f : f[i] \in S
        /\ \A i, j \in DOMAIN f : f[i] = f[j] => i = j
    BY <2>1, InAnyOrder
  <2>3. f \in Seq(OrderId)
    BY <2>1, <2>2
  <2>4. QED
    BY <2>2, <2>3 DEF S, f
<1>5. bk \in Book
  <2>1. \A s \in Side : bk[s] \in [Prices -> Seq(OrderId)]
    BY <1>2, <1>4
  <2>2. QED
    BY <1>2, <2>1 DEF Book
<1>6. QED
  BY <1>4, <1>5

(* The counters start above every id of the orders table, and from a row of *)
(* the trade_id table.                                                      *)
LEMMA CountersRead ==
  ASSUME TypeOK, tradeIds \subseteq Nat
  PROVE  /\ MaxOrderId \in 0..MaxOrders
         /\ \A id \in OrderId : dbOrders[id] # NoOrder => id <= MaxOrderId
         /\ FirstTradeId \in Nat
<1> DEFINE S == {0} \cup {id \in OrderId : dbOrders[id] # NoOrder}
<1>1. MaxOrders \in Nat
  BY OrdersAssumption
<1>2. S \in SUBSET (0..MaxOrders) /\ S # {}
  BY <1>1 DEF OrderId
<1>3. \A id \in OrderId : dbOrders[id] # NoOrder => id \in S
  OBVIOUS
<1>4. MaxOrderId = Max(S)
  BY DEF MaxOrderId
<1> HIDE DEF S
<1>5. Max(S) \in S /\ \A k \in S : k <= Max(S)
  BY <1>1, <1>2, GreatestIs
<1>6. MaxOrderId \in 0..MaxOrders
  BY <1>2, <1>4, <1>5
<1>7. FirstTradeId \in Nat
  <2>1. CASE tradeIds = {}
    BY <2>1 DEF FirstTradeId
  <2>2. CASE tradeIds # {}
    <3>1. Min(tradeIds) \in tradeIds
      BY <2>2, LeastIs
    <3>2. QED
      BY <2>2, <3>1 DEF FirstTradeId
  <2>3. QED
    BY <2>1, <2>2
<1>8. QED
  BY <1>3, <1>4, <1>5, <1>6, <1>7

(* The process starts again on whatever the tables hold.                    *)
LEMMA RestartStep ==
  ASSUME ExchangeInv, Restart
  PROVE  ExchangeInv'
<1>0. /\ TypeOK /\ RowsLoadable /\ tradeIds \subseteq Nat /\ waited \in BOOLEAN
      /\ restarts \in 0..MaxRestarts
  BY DEF ExchangeInv, ExchangeTypeOK
<1>1. Gone
  BY DEF ExchangeInv, Restart
<1>2. /\ queue' = << >> /\ batch' = << >> /\ worker' = IdleState /\ dbQueue' = << >>
      /\ orders' = [id \in OrderId |-> IF id \in Loaded THEN dbOrders[id] ELSE NoOrder]
      /\ book' \in Rebuilt
      /\ orderId' = MaxOrderId /\ tradeId' = FirstTradeId
      /\ phase' = "up" /\ restarts' = restarts + 1
      /\ UNCHANGED <<dbOrders, dbTrades, told, amends, waited, tradeIds>>
  BY <1>1 DEF Restart, Gone, dbVars
<1>3. /\ MaxOrderId \in 0..MaxOrders
      /\ \A id \in OrderId : dbOrders[id] # NoOrder => id <= MaxOrderId
      /\ FirstTradeId \in Nat
  BY <1>0, CountersRead
<1>4. PICK bk : bk \in Rebuilt /\ book' = bk
  BY <1>2
<1>5. /\ bk \in Book
      /\ \A s \in Side, p \in Prices :
           /\ \A i \in DOMAIN bk[s][p] : bk[s][p][i] \in AtLevel(s, p)
           /\ \A i, j \in DOMAIN bk[s][p] : bk[s][p][i] = bk[s][p][j] => i = j
  BY <1>4, RebuiltBook
<1>6. ASSUME NEW id \in Loaded
      PROVE  /\ id \in OrderId /\ orders'[id] = dbOrders[id] /\ dbOrders[id] # NoOrder
             /\ dbOrders[id] \in Order
             /\ dbOrders[id].status \in {"New", "PartiallyFilled"}
             /\ dbOrders[id].rem > 0
  BY <1>0, <1>2 DEF Loaded, TypeOK, RowsLoadable, OpenHasRest
<1>7. \A id \in OrderId : id \notin Loaded => orders'[id] = NoOrder
  BY <1>2
<1>8. TypeOK'
  <2>1. orders' \in [OrderId -> Order \cup {NoOrder}]
    BY <1>0, <1>2 DEF TypeOK
  <2>2. QED
    BY <1>0, <1>2, <1>3, <1>4, <1>5, <2>1, IdleType, EmptySeq DEF TypeOK
<1>9. ExchangeTypeOK'
  <2>1. restarts' \in 0..MaxRestarts
    BY <1>0, <1>1, <1>2, ExchangeAssumption DEF Gone
  <2>2. QED
    BY <1>0, <1>2, <1>8, <2>1 DEF ExchangeTypeOK, Phase
<1>10. DOMAIN Pending' = {}
  BY <1>2, NothingPending
<1>11. CoreInv'
  <2>1. PointersLive'
    <3>1. ASSUME NEW s \in Side, NEW p \in Prices, NEW i \in DOMAIN bk[s][p]
          PROVE  /\ orders'[bk[s][p][i]] # NoOrder
                 /\ orders'[bk[s][p][i]].side = s /\ orders'[bk[s][p][i]].price = p
                 /\ orders'[bk[s][p][i]].rem > 0
      <4>1. PICK id : id = bk[s][p][i]
        OBVIOUS
      <4>2. id \in Loaded /\ dbOrders[id].side = s /\ dbOrders[id].price = p
        BY <1>5, <4>1 DEF AtLevel
      <4>3. QED
        BY <1>6, <4>1, <4>2
    <3>2. QED
      BY <1>4, <3>1 DEF PointersLive, Live
  <2>2. RestsOnce'
    BY <1>4, <1>5 DEF RestsOnce
  <2>3. IdsFree'
    BY <1>10 DEF IdsFree
  <2>4. WorkerHolds'
    BY <1>2 DEF WorkerHolds, IdleState
  <2>5. OrdersKnown'
    <3>1. ASSUME NEW id \in OrderId, orders'[id] # NoOrder
          PROVE  orders'[id].status # "Filled" /\ id <= orderId'
      <4>1. id \in Loaded
        BY <1>7, <3>1
      <4>2. QED
        BY <1>2, <1>3, <1>6, <4>1
    <3>2. QED
      BY <1>10, <3>1 DEF OrdersKnown, Live
  <2>6. QED
    BY <1>8, <2>1, <2>2, <2>3, <2>4, <2>5 DEF CoreInv
<1>12. RowsLoadable'
  <2>1. DOMAIN dbQueue' = {}
    BY <1>2
  <2>2. \A id \in OrderId : orders'[id] # NoOrder => OpenHasRest(orders'[id])
    BY <1>6, <1>7 DEF OpenHasRest
  <2>3. QED
    BY <1>0, <1>2, <2>1, <2>2 DEF RowsLoadable, Live
<1>13. ModifiesRest' /\ RecoveredIdsFree'
  BY <1>10 DEF ModifiesRest, RecoveredIdsFree
<1>14. RowsBelow'
  <2>1. DOMAIN dbQueue' = {}
    BY <1>2
  <2>2. QED
    BY <1>2, <1>3, <2>1 DEF RowsBelow
<1>15. QED
  BY <1>2, <1>9, <1>11, <1>12, <1>13, <1>14 DEF ExchangeInv

-----------------------------------------------------------------------------
(* The theorems.                                                            *)

LEMMA ExchangeInitInv == ExchangeInit => ExchangeInv
<1> SUFFICES ASSUME ExchangeInit PROVE ExchangeInv
  OBVIOUS
<1>1. Init /\ phase = "up" /\ waited = FALSE /\ tradeIds = {} /\ restarts = 0
  BY DEF ExchangeInit
<1>2. CoreInv /\ TypeOK
  BY <1>1, InitInv, CoreOf DEF CoreInv
<1>3. ExchangeTypeOK
  <2>1. restarts \in 0..MaxRestarts
    BY <1>1, ExchangeAssumption
  <2>2. phase \in Phase /\ waited \in BOOLEAN /\ tradeIds \subseteq Nat
    BY <1>1 DEF Phase
  <2>3. QED
    BY <1>2, <2>1, <2>2, Zenon DEF ExchangeTypeOK
<1>4. DOMAIN Pending = {}
  <2>1. Len(Pending) = 0
    BY <1>1, EmptySeq, ConcatProperties DEF Init, Pending
  <2>2. QED
    BY <1>2, <2>1, PendingType
<1>5. /\ \A id \in OrderId : orders[id] = NoOrder /\ dbOrders[id] = NoOrder
      /\ DOMAIN dbQueue = {}
  BY <1>1 DEF Init
<1>6. RowsLoadable /\ RowsBelow
  BY <1>5 DEF RowsLoadable, RowsBelow, Live
<1>7. ModifiesRest /\ RecoveredIdsFree
  BY <1>4 DEF ModifiesRest, RecoveredIdsFree
<1>8. QED
  BY <1>1, <1>2, <1>3, <1>6, <1>7 DEF ExchangeInv

LEMMA ExchangeStep ==
  ASSUME NoZeroModify, ExchangeInv, [ExchangeNext]_exchangeVars
  PROVE  ExchangeInv'
<1>0. /\ ExchangeTypeOK /\ CoreInv /\ RowsLoadable /\ ModifiesRest /\ RecoveredIdsFree
      /\ phase # "down" => UpInv
  BY DEF ExchangeInv, UpInv
<1>1. CASE Run
  <2>1. /\ phase # "down" /\ Next
        /\ UNCHANGED <<phase, waited, tradeIds, restarts>>
    BY <1>1 DEF Run, Next
  <2>2. UpInv'
    BY <1>0, <2>1, UpStep
  <2>3. TypeOK'
    BY <2>2 DEF UpInv, CoreInv
  <2>4. ExchangeTypeOK'
    BY <1>0, <2>1, <2>3 DEF ExchangeTypeOK
  <2>5. QED
    BY <2>1, <2>2, <2>4 DEF ExchangeInv, UpInv
<1>2. CASE /\ UNCHANGED <<vars, restarts>> /\ waited' \in BOOLEAN /\ phase' \in Phase
           /\ tradeIds' \subseteq Nat /\ (phase' = "down" <=> phase = "down")
  <2>1. UNCHANGED vars /\ restarts' = restarts
    BY <1>2
  <2>2. ExchangeTypeOK'
    BY <1>0, <1>2, <2>1 DEF ExchangeTypeOK, TypeOK, vars
  <2>3. CoreInv'
    BY <1>0, <2>1, CoreStep
  <2>4. RowsLoadable' /\ ModifiesRest' /\ RecoveredIdsFree'
    BY <1>0, <2>1 DEF RowsLoadable, ModifiesRest, RecoveredIdsFree, Pending, Live, vars
  <2>5. (RowsBelow' <=> RowsBelow) /\ (Gone' <=> Gone)
    BY <2>1 DEF RowsBelow, Gone, vars
  <2>6. QED
    BY <1>2, <2>2, <2>3, <2>4, <2>5 DEF ExchangeInv
<1>3. CASE SaveTradeId
  <2>1. tradeIds' \subseteq Nat
    BY <1>0, <1>3 DEF SaveTradeId, ExchangeTypeOK, TypeOK
  <2>2. QED
    BY <1>0, <1>2, <1>3, <2>1 DEF SaveTradeId, ExchangeTypeOK, Phase
<1>4. CASE stopAcceptingCommands \/ waitAllQueuesIdle \/ StopWorker \/ StopDatabase
  BY <1>0, <1>2, <1>4
  DEF stopAcceptingCommands, waitAllQueuesIdle, StopWorker, StopDatabase,
      ExchangeTypeOK, Phase
<1>5. CASE UNCHANGED exchangeVars
  BY <1>0, <1>2, <1>5 DEF exchangeVars, ExchangeTypeOK
<1>6. QED
  BY <1>1, <1>3, <1>4, <1>5, ExitStep, RestartStep DEF ExchangeNext

(* The inductive invariant of the process's whole life: wherever a kill     *)
(* strikes, the tables it leaves behind and any prefix of the tasks that    *)
(* were queued can be started from.                                         *)
THEOREM RecoverySafe ==
  ASSUME NoZeroModify
  PROVE  ExchangeSpec => []ExchangeInv
<1>1. ExchangeInit => ExchangeInv
  BY ExchangeInitInv
<1>2. ExchangeInv /\ [ExchangeNext]_exchangeVars => ExchangeInv'
  BY ExchangeStep
<1>3. QED
  BY <1>1, <1>2, PTL DEF ExchangeSpec

(* Every variable has its type in every phase of the process.               *)
THEOREM ExchangeTypeCorrect ==
  ASSUME NoZeroModify
  PROVE  ExchangeSpec => []ExchangeTypeOK
<1>1. ExchangeInv => ExchangeTypeOK
  BY DEF ExchangeInv
<1>2. QED
  BY <1>1, RecoverySafe, PTL

(* The book that Partition::start rebuilds, and every book the worker makes *)
(* of it, points to live orders with quantity left, each once.              *)
THEOREM RecoveredBookSound ==
  ASSUME NoZeroModify
  PROVE  ExchangeSpec => []BookIntegrity
<1>1. ExchangeInv => BookIntegrity
  BY DEF ExchangeInv, CoreInv, BookIntegrity
<1>2. QED
  BY <1>1, RecoverySafe, PTL

(* No id handed out after a restart is in use in memory, in the table or in *)
(* a queued task.                                                           *)
THEOREM RecoveredIdsSafe ==
  ASSUME NoZeroModify
  PROVE  ExchangeSpec => []RecoveredIdsFree
<1>1. ExchangeInv => RecoveredIdsFree
  BY DEF ExchangeInv
<1>2. QED
  BY <1>1, RecoverySafe, PTL
=============================================================================
